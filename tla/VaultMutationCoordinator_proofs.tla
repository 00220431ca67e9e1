------------------- MODULE VaultMutationCoordinator_proofs -------------------
(***************************************************************************)
(* Safety of the mutation coordinator for every number of accounts, calls, *)
(* lane objects, capacities, account generations and restarts.             *)
(***************************************************************************)
EXTENDS VaultMutationCoordinator, SequenceTheorems, TLAPS

(* The fields of a lane keep their types under the record updates the      *)
(* actions are built from.                                                 *)
LEMMA LaneFields ==
  ASSUME TypeOK, NEW l \in LaneIds
  PROVE  /\ lane[l] \in LaneRec
         /\ lane[l].queue \in Seq(Tasks)
         /\ lane[l].active \in Tasks \cup {NoTask}
         /\ lane[l].account \in Accounts \cup {NoAccount}
  BY DEF TypeOK, LaneRec

LEMMA NewLaneType ==
  ASSUME NEW a \in Accounts \cup {NoAccount}
  PROVE  NewLane(a) \in LaneRec
<1>1. <<>> \in Seq(Tasks)
  OBVIOUS
<1> QED
  BY <1>1 DEF NewLane, LaneRec

LEMMA HeadInTasks ==
  ASSUME NEW q \in Seq(Tasks), q # <<>>
  PROVE  Head(q) \in Tasks /\ Tail(q) \in Seq(Tasks)
  OBVIOUS

LEMMA TurnStartedType ==
  ASSUME TypeOK, NEW r \in LaneRec, r.queue # <<>>
  PROVE  TurnStarted(r) \in LaneRec
<1>1. r.queue \in Seq(Tasks)
  BY DEF LaneRec
<1>2. Head(r.queue) \in Tasks /\ Tail(r.queue) \in Seq(Tasks)
  BY <1>1, HeadInTasks
<1>3. StartsCurrent(r) \in BOOLEAN
  BY DEF StartsCurrent, CurrentIn
<1> QED
  BY <1>2, <1>3 DEF TurnStarted, LaneRec

LEMMA ReleaseType ==
  ASSUME TypeOK, NEW l \in LaneIds, NEW r \in LaneRec, ReleaseIfIdle(l, r)
  PROVE  lanes' \in [Accounts -> LaneIds \cup {NoLane}]
  BY DEF TypeOK, ReleaseIfIdle, Deletable

\* The lane whose marker was read, or could not be.
LEMMA LoadEffect ==
  ASSUME TypeOK, NEW l \in LaneIds, NEW ok \in BOOLEAN, LoadSettles(l, ok)
  PROVE  \E r \in LaneRec :
           /\ lane' = [lane EXCEPT ![l] = r] /\ ReleaseIfIdle(l, r)
           /\ r.account = lane[l].account /\ r.active = lane[l].active
           /\ r.queue = lane[l].queue
           /\ r.dirtyLoaded = (ok \/ lane[l].dirtyLoaded)
           /\ r.needsReconcile = (lane[l].needsReconcile
                                     \/ (ok /\ lane[l].account \in durable))
<1> DEFINE loaded == IF ok THEN TRUE ELSE lane[l].dirtyLoaded
           needs == IF ok /\ lane[l].account \in durable THEN TRUE
                    ELSE lane[l].needsReconcile
           r == [lane[l] EXCEPT !.dirtyLoad = FALSE, !.dirtyLoaded = loaded,
                                !.needsReconcile = needs]
<1>1. lane[l] \in LaneRec
  BY LaneFields
<1>2. lane[l].dirtyLoaded \in BOOLEAN /\ lane[l].needsReconcile \in BOOLEAN
  BY <1>1 DEF LaneRec
<1>3. /\ loaded \in BOOLEAN /\ needs \in BOOLEAN
      /\ loaded = (ok \/ lane[l].dirtyLoaded)
      /\ needs = (lane[l].needsReconcile \/ (ok /\ lane[l].account \in durable))
  BY <1>2
<1>4. lane' = [lane EXCEPT ![l] = r] /\ ReleaseIfIdle(l, r)
  BY DEF LoadSettles
<1> HIDE DEF loaded, needs
<1>5. /\ r \in LaneRec /\ r.dirtyLoaded = loaded /\ r.needsReconcile = needs
      /\ r.account = lane[l].account /\ r.active = lane[l].active
      /\ r.queue = lane[l].queue
  <2> DEFINE old == lane[l]
  <2>1. old \in LaneRec /\ loaded \in BOOLEAN /\ needs \in BOOLEAN
    BY <1>1, <1>3
  <2>2. r = [old EXCEPT !.dirtyLoad = FALSE, !.dirtyLoaded = loaded,
                        !.needsReconcile = needs]
    OBVIOUS
  <2> HIDE DEF old, r
  <2>3. r \in LaneRec
    BY <2>1, <2>2 DEF LaneRec
  <2>4. r.dirtyLoaded = loaded /\ r.needsReconcile = needs
    BY <2>1, <2>2 DEF LaneRec
  <2>5. r.account = old.account /\ r.active = old.active /\ r.queue = old.queue
    BY <2>1, <2>2 DEF LaneRec
  <2> QED
    BY <2>3, <2>4, <2>5 DEF old
<1> HIDE DEF r
<1> QED
  BY <1>3, <1>4, <1>5

\* A call is queued in the lane of its account, or in an unused lane object.
LEMMA LanesForCases ==
  ASSUME NEW a \in Accounts, NEW l \in LanesFor(a)
  PROVE  IF lanes[a] # NoLane THEN l = lanes[a] ELSE l \in LaneIds /\ Unused(l)
<1> DEFINE free == {x \in LaneIds : Unused(x)}
<1>1. CASE lanes[a] # NoLane
  BY <1>1 DEF LanesFor
<1>2. CASE lanes[a] = NoLane
  <2>1. free # {} /\ l = CHOOSE x \in free : TRUE
    BY <1>2 DEF LanesFor
  <2>2. l \in free
    BY <2>1
  <2> QED
    BY <1>2, <2>2
<1> QED
  BY <1>1, <1>2

LEMMA LanesForType ==
  ASSUME TypeOK, NEW a \in Accounts, NEW l \in LanesFor(a)
  PROVE  l \in LaneIds /\ FieldsFor(a, l) \in LaneRec
<1>1. l \in LaneIds
  BY LanesForCases DEF TypeOK
<1> QED
  BY <1>1, NewLaneType, LaneFields DEF FieldsFor

LEMMA SlotFreedType ==
  ASSUME NEW t \in Tasks, NEW r \in LaneRec
  PROVE  /\ SlotFreed(t, r) \in LaneRec
         /\ SlotFreed(t, r).account = r.account /\ SlotFreed(t, r).active = r.active
         /\ SlotFreed(t, r).queue = r.queue
         /\ SlotFreed(t, r).dirtyLoaded = r.dirtyLoaded
         /\ SlotFreed(t, r).needsReconcile = r.needsReconcile
  BY DEF SlotFreed, LaneRec

(* A record update of the lane of a call keeps the type of all lanes, also *)
(* when the call has no lane.                                              *)
LEMMA SetLaneType ==
  ASSUME TypeOK, NEW t \in Tasks, NEW r, job[t].lane \in LaneIds => r \in LaneRec,
         SetLane(t, r)
  PROVE  lane' \in [LaneIds -> LaneRec]
  BY DEF TypeOK, SetLane

LEMMA CallType ==
  ASSUME TypeOK, NEW t \in Tasks, Call(t)
  PROVE  TypeOK'
<1>1. ASSUME NEW a \in Accounts, NEW k \in Kinds,
             NEW policy \in {"none", "coalesce", "force"}, Refuse(t, k, a, policy)
      PROVE  TypeOK'
  BY <1>1 DEF TypeOK, Refuse, Answer, Outcomes, Positions,
              laneVars, gateVars, vaultVars
<1>2. ASSUME NEW a \in Accounts, NEW k \in Kinds,
             NEW policy \in {"none", "coalesce", "force"}, Enqueue(t, k, a, policy)
      PROVE  TypeOK'
  <2>1. PICK l \in LanesFor(a) :
          LET r == FieldsFor(a, l) IN
          /\ lanes' = [lanes EXCEPT ![a] = l]
          /\ lane' = [lane EXCEPT ![l] =
                       [r EXCEPT !.queue = Append(@, t), !.draining = TRUE,
                                 !.tailSync = TailAfter(k, t, r)]]
          /\ job' = [job EXCEPT ![t] =
                      Entry(k, a, l, r.epoch, gate.generation, policy, NoTask)]
    BY <1>2 DEF Enqueue
  <2> DEFINE r == FieldsFor(a, l)
  <2>2. l \in LaneIds /\ r \in LaneRec
    BY <2>1, LanesForType
  <2>3. r.queue \in Seq(Tasks) /\ r.epoch \in Nat
    BY <2>2 DEF LaneRec
  <2>4. Append(r.queue, t) \in Seq(Tasks)
    BY <2>3
  <2>5. TailAfter(k, t, r) \in Tasks \cup {NoTask}
    BY DEF TailAfter
  <2>6. [r EXCEPT !.queue = Append(@, t), !.draining = TRUE,
                  !.tailSync = TailAfter(k, t, r)] \in LaneRec
    BY <2>2, <2>4, <2>5 DEF LaneRec
  <2>7. lane' \in [LaneIds -> LaneRec] /\ lanes' \in [Accounts -> LaneIds \cup {NoLane}]
    BY <2>1, <2>2, <2>6 DEF TypeOK
  <2>8. job' \in [Tasks -> JobRec]
    BY <2>1, <2>2, <2>3 DEF TypeOK, JobRec, Kinds, Entry
  <2>9. UNCHANGED <<outcome, gateVars, vaultVars, restarts>> /\ pc' \in [Tasks -> Positions]
    BY <1>2 DEF Enqueue, TypeOK, Positions
  <2> QED
    BY <2>7, <2>8, <2>9 DEF TypeOK, gateVars, vaultVars
<1>3. ASSUME NEW a \in Accounts, NEW policy \in {"coalesce", "force"}, JoinSync(t, a, policy)
      PROVE  TypeOK'
  <2>1. PICK s \in Joinable(a, policy) :
          job' = [job EXCEPT ![t] =
                   Entry("sync", a, NoLane, 0, gate.generation, policy, s)]
    BY <1>3 DEF JoinSync
  <2>2. lanes[a] # NoLane => lane[lanes[a]] \in LaneRec
    BY LaneFields DEF TypeOK
  <2>3. s \in Tasks
    BY <2>1, <2>2 DEF Joinable, LaneRec
  <2>4. job' \in [Tasks -> JobRec]
    BY <2>1, <2>3 DEF TypeOK, JobRec, Kinds, Entry
  <2> QED
    BY <1>3, <2>4 DEF TypeOK, JoinSync, Positions, laneVars, gateVars, vaultVars
<1>4. ASSUME NEW a \in Accounts, RequiresReconcile(t, a)
      PROVE  TypeOK'
  <2>1. PICK l \in LanesFor(a) :
          LET r == FieldsFor(a, l) IN
         \/ /\ lanes[a] = NoLane /\ ~HasCapacity(a)
            /\ Answer(t, "rejected")
            /\ UNCHANGED <<laneVars, job>>
         \/ /\ r.dirtyLoaded
            /\ Answer(t, DirtyAnswer(r))
            /\ ReleaseIfIdle(l, r)
            /\ UNCHANGED <<lane, job>>
         \/ /\ lanes[a] # NoLane \/ HasCapacity(a)
            /\ ~r.dirtyLoaded
            /\ pc' = [pc EXCEPT ![t] = "querying"]
            /\ job' = [job EXCEPT ![t] = Entry("query", a, l, 0, 0, "none", NoTask)]
            /\ lanes' = [lanes EXCEPT ![a] = l]
            /\ lane' = [lane EXCEPT ![l] = [r EXCEPT !.dirtyLoad = TRUE]]
            /\ UNCHANGED outcome
    BY <1>4 DEF RequiresReconcile
  <2> DEFINE r == FieldsFor(a, l)
  <2>2. l \in LaneIds /\ r \in LaneRec
    BY <2>1, LanesForType
  <2>3. UNCHANGED <<gateVars, vaultVars, restarts>>
    BY <1>4 DEF RequiresReconcile
  <2>4. CASE /\ lanes[a] = NoLane /\ ~HasCapacity(a)
             /\ Answer(t, "rejected")
             /\ UNCHANGED <<laneVars, job>>
    BY <2>3, <2>4 DEF TypeOK, Answer, Outcomes, Positions, laneVars, gateVars, vaultVars
  <2>5. CASE /\ r.dirtyLoaded
             /\ Answer(t, DirtyAnswer(r))
             /\ ReleaseIfIdle(l, r)
             /\ UNCHANGED <<lane, job>>
    <3>1. lanes' \in [Accounts -> LaneIds \cup {NoLane}]
      BY <2>2, <2>5, ReleaseType
    <3> QED
      BY <2>3, <2>5, <3>1 DEF TypeOK, Answer, DirtyAnswer, Outcomes, Positions,
                              gateVars, vaultVars
  <2>6. CASE /\ pc' = [pc EXCEPT ![t] = "querying"]
             /\ job' = [job EXCEPT ![t] = Entry("query", a, l, 0, 0, "none", NoTask)]
             /\ lanes' = [lanes EXCEPT ![a] = l]
             /\ lane' = [lane EXCEPT ![l] = [r EXCEPT !.dirtyLoad = TRUE]]
             /\ UNCHANGED outcome
    <3>1. [r EXCEPT !.dirtyLoad = TRUE] \in LaneRec
      BY <2>2 DEF LaneRec
    <3>2. lane' \in [LaneIds -> LaneRec] /\ lanes' \in [Accounts -> LaneIds \cup {NoLane}]
      BY <2>2, <2>6, <3>1 DEF TypeOK
    <3>3. job' \in [Tasks -> JobRec]
      BY <2>2, <2>6 DEF TypeOK, JobRec, Entry
    <3> QED
      BY <2>3, <2>6, <3>2, <3>3 DEF TypeOK, Positions, gateVars, vaultVars
  <2> QED
    BY <2>1, <2>4, <2>5, <2>6
<1> QED
  BY <1>1, <1>2, <1>3, <1>4 DEF Call

LEMMA InvalidatedType ==
  ASSUME NEW r \in LaneRec
  PROVE  /\ Invalidated(r) \in LaneRec
         /\ Invalidated(r).account = r.account /\ Invalidated(r).active = r.active
         /\ Invalidated(r).queue = <<>>
         /\ Invalidated(r).dirtyLoaded = r.dirtyLoaded
         /\ Invalidated(r).needsReconcile = r.needsReconcile
<1>1. <<>> \in Seq(Tasks)
  OBVIOUS
<1>2. r.epoch \in Nat
  BY DEF LaneRec
<1> DEFINE e == r.epoch + 1
<1>3. e \in Nat
  BY <1>2
<1>4. Invalidated(r) = [r EXCEPT !.epoch = e, !.suspended = TRUE, !.queue = <<>>,
                                 !.tailSync = NoTask]
  BY DEF Invalidated
<1> HIDE DEF e
<1> QED
  BY <1>1, <1>3, <1>4 DEF LaneRec

LEMMA InvalidateLaneType ==
  ASSUME TypeOK, NEW l \in LaneIds, NEW r \in LaneRec, InvalidateLane(l, r)
  PROVE  /\ lane' \in [LaneIds -> LaneRec]
         /\ lanes' \in [Accounts -> LaneIds \cup {NoLane}]
         /\ outcome' \in [Tasks -> Outcomes]
<1>1. Invalidated(r) \in LaneRec
  BY InvalidatedType
<1>2. lanes' \in [Accounts -> LaneIds \cup {NoLane}]
  BY <1>1, ReleaseType DEF InvalidateLane
<1> QED
  BY <1>1, <1>2 DEF TypeOK, InvalidateLane, Outcomes

(* The steps of a turn are taken by the call that holds it.                *)
LEMMA TurnHolds ==
  ASSUME TypeOK, TurnInv, NEW t \in Tasks, TurnStep(t)
  PROVE  pc[t] \in Running /\ HoldsTurn(t) /\ MyLane(t) \in LaneRec
<1>1. pc[t] \in Running
  BY DEF TurnStep, ServerAnswers, SyncReturns, ReconcileReturns, ClearReturns, UnmarkReturns,
         CheckDirty, MarkerWritten, MarkFails, BeginCommit, CommitSucceeds,
         CommitFails, MarkerCleared, CommitTerminal, PreflightFails,
         TerminalReturns, Running, MutationTurn
<1>2. HoldsTurn(t)
  BY <1>1 DEF TurnInv
<1> QED
  BY <1>1, <1>2, LaneFields DEF HoldsTurn, MyLane

LEMMA PublishedType ==
  ASSUME TypeOK, NEW t \in Tasks, job[t].account \in Accounts, NEW ok, Published(t, ok)
  PROVE  /\ unseen' \in [Accounts -> SUBSET Tasks] /\ read' \in [Tasks -> SUBSET Tasks]
         /\ UNCHANGED <<durable, out, landed>>
         /\ \A b \in Accounts : b # job[t].account => unseen'[b] = unseen[b]
         /\ unseen'[job[t].account] \subseteq unseen[job[t].account]
         /\ ok => unseen'[job[t].account] = unseen[job[t].account] \ read[t]
         /\ \A u \in Tasks : u # t => read'[u] = read[u]
  BY DEF Published, ReadForgotten, TypeOK

LEMMA TurnType ==
  ASSUME TypeOK, TurnInv, NEW t \in Tasks, TurnStep(t)
  PROVE  TypeOK'
<1>0. MyLane(t) \in LaneRec /\ job[t].lane \in LaneIds /\ job[t].account \in Accounts
  BY TurnHolds DEF HoldsTurn
<1> USE DEF Positions, Running, MutationTurn, Outcomes
<1>1. ASSUME NEW ok \in BOOLEAN, SyncReturns(t, ok)
      PROVE  TypeOK'
  <2>1. lane' \in [LaneIds -> LaneRec]
    <3>1. CASE UNCHANGED lane
      BY <3>1 DEF TypeOK
    <3>2. CASE SetLane(t, SlotFreed(t, MyLane(t)))
      <4>1. SlotFreed(t, MyLane(t)) \in LaneRec
        BY <1>0, SlotFreedType
      <4> QED
        BY <3>2, <4>1, SetLaneType
    <3> QED
      BY <1>1, <3>1, <3>2 DEF SyncReturns
  <2>2. /\ unseen' \in [Accounts -> SUBSET Tasks] /\ read' \in [Tasks -> SUBSET Tasks]
        /\ UNCHANGED <<durable, out, landed>>
    BY <1>0, <1>1, PublishedType DEF SyncReturns
  <2> QED
    BY <1>1, <2>1, <2>2 DEF TypeOK, SyncReturns, Move, Return, gateVars
<1>2. ASSUME NEW ok \in BOOLEAN, ReconcileReturns(t, ok)
      PROVE  TypeOK'
  <2>1. /\ unseen' \in [Accounts -> SUBSET Tasks] /\ read' \in [Tasks -> SUBSET Tasks]
        /\ UNCHANGED <<durable, out, landed>>
    BY <1>0, <1>2, PublishedType DEF ReconcileReturns
  <2> QED
    BY <1>2, <2>1 DEF TypeOK, ReconcileReturns, Move, Return, gateVars, laneVars
<1>3. ASSUME NEW ok \in BOOLEAN, ClearReturns(t, ok)
      PROVE  TypeOK'
  <2> DEFINE q == IF ok THEN [MyLane(t) EXCEPT !.dirtyLoaded = TRUE,
                                               !.needsReconcile = FALSE]
                  ELSE MyLane(t)
  <2>1. q \in LaneRec
    BY <1>0 DEF LaneRec
  <2>2. SlotFreed(t, q) \in LaneRec
    BY <2>1, SlotFreedType
  <2>3. SetLane(t, SlotFreed(t, q))
    BY <1>3 DEF ClearReturns
  <2>4. lane' \in [LaneIds -> LaneRec]
    BY <2>2, <2>3, SetLaneType
  <2> QED
    BY <1>3, <2>4 DEF TypeOK, ClearReturns, Return, gateVars, vaultVars
<1>4. ASSUME NEW ok \in BOOLEAN, UnmarkReturns(t, ok)
      PROVE  TypeOK'
  <2> DEFINE q == IF ok THEN [MyLane(t) EXCEPT !.dirtyLoaded = TRUE,
                                               !.needsReconcile = FALSE]
                  ELSE MyLane(t)
  <2>1. q \in LaneRec
    BY <1>0 DEF LaneRec
  <2>2. SetLane(t, q)
    BY <1>4 DEF UnmarkReturns
  <2>3. lane' \in [LaneIds -> LaneRec]
    BY <2>1, <2>2, SetLaneType
  <2> QED
    BY <1>4, <2>3 DEF TypeOK, UnmarkReturns, Return, gateVars, vaultVars
<1>5. CASE CheckDirty(t)
  BY <1>5 DEF TypeOK, CheckDirty, Move, Return, gateVars, laneVars, vaultVars
<1>6. CASE MarkerWritten(t)
  BY <1>0, <1>6 DEF TypeOK, MarkerWritten, Move, gateVars, laneVars, writeVars
<1>7. CASE MarkFails(t)
  BY <1>7 DEF TypeOK, MarkFails, Return, gateVars, laneVars, vaultVars
<1>8. CASE BeginCommit(t)
  <2> DEFINE q == [MyLane(t) EXCEPT !.dirtyLoaded = TRUE, !.needsReconcile = TRUE]
  <2>1. q \in LaneRec
    BY <1>0 DEF LaneRec
  <2>2. lane' \in [LaneIds -> LaneRec]
    BY <1>8, <2>1, SetLaneType DEF BeginCommit
  <2>3. /\ out' \subseteq Tasks /\ landed' = landed
        /\ unseen' \in [Accounts -> SUBSET Tasks]
    BY <1>0, <1>8 DEF TypeOK, BeginCommit, Issues, writeVars
  <2> QED
    BY <1>8, <2>2, <2>3 DEF TypeOK, BeginCommit, Move, gateVars
<1>9. CASE CommitSucceeds(t)
  BY <1>9 DEF TypeOK, CommitSucceeds, Move, Return, gateVars, laneVars, vaultVars
<1>10. ASSUME NEW o \in {"not_committed", "conflict", "outcome_unknown"}, CommitFails(t, o)
       PROVE  TypeOK'
  <2>1. /\ out' \subseteq Tasks /\ landed' = landed
        /\ unseen' \in [Accounts -> SUBSET Tasks]
    BY <1>0, <1>10 DEF TypeOK, CommitFails, RuledOut, writeVars
  <2> QED
    BY <1>10, <2>1 DEF TypeOK, CommitFails, Move, Return, gateVars, laneVars
<1>11. CASE MarkerCleared(t)
  BY <1>11 DEF TypeOK, MarkerCleared, Move, gateVars, laneVars, writeVars
<1>12. CASE CommitTerminal(t)
  <2> DEFINE q == [MyLane(t) EXCEPT !.terminal = "committed_active",
                           !.terminalLease = job[t].lease, !.retireOnIdle = FALSE]
  <2>1. job[t].lease \in Nat
    BY DEF TypeOK, JobRec
  <2>2. q \in LaneRec
    BY <1>0, <2>1 DEF LaneRec
  <2>3. InvalidateLane(job[t].lane, q)
    BY <1>12 DEF CommitTerminal
  <2>4. /\ lane' \in [LaneIds -> LaneRec]
        /\ lanes' \in [Accounts -> LaneIds \cup {NoLane}]
        /\ outcome' \in [Tasks -> Outcomes]
    BY <1>0, <2>2, <2>3, InvalidateLaneType
  <2> QED
    BY <1>12, <2>4 DEF TypeOK, CommitTerminal, Cancelled, vaultVars
<1>13. CASE PreflightFails(t)
  BY <1>13 DEF TypeOK, PreflightFails, Return, gateVars, laneVars, vaultVars
<1>14. ASSUME NEW o \in {"ok", "outcome_unknown"}, TerminalReturns(t, o)
       PROVE  TypeOK'
  <2> DEFINE q == [MyLane(t) EXCEPT !.terminal = "sealed"]
  <2>1. q \in LaneRec
    BY <1>0 DEF LaneRec
  <2>2. lane' \in [LaneIds -> LaneRec]
    BY <1>14, <2>1, SetLaneType DEF TerminalReturns
  <2> QED
    BY <1>14, <2>2 DEF TypeOK, TerminalReturns, Return, gateVars, vaultVars
<1>15. CASE ServerAnswers(t)
  <2>1. read' \in [Tasks -> SUBSET Tasks]
    BY <1>0, <1>15 DEF TypeOK, ServerAnswers
  <2> QED
    BY <1>15, <2>1 DEF TypeOK, ServerAnswers, Move, gateVars, laneVars, writeVars
<1> QED
  BY <1>1, <1>2, <1>3, <1>4, <1>5, <1>6, <1>7, <1>8, <1>9, <1>10, <1>11, <1>12,
     <1>13, <1>14, <1>15 DEF TurnStep

(* The drain loop and the dirty load.                                      *)
LEMMA DrainOnType ==
  ASSUME TypeOK, NEW l \in LaneIds, NEW r \in LaneRec, NEW settled, DrainOn(l, r, settled),
         UNCHANGED <<job, gateVars, vaultVars, restarts>>
  PROVE  TypeOK'
<1>1. CASE r.queue = <<>>
  <2>1. [r EXCEPT !.draining = FALSE] \in LaneRec
    BY DEF LaneRec
  <2>2. lane' \in [LaneIds -> LaneRec]
    BY <1>1, <2>1 DEF TypeOK, DrainOn
  <2>3. lanes' \in [Accounts -> LaneIds \cup {NoLane}]
    BY <1>1, ReleaseType DEF DrainOn
  <2>4. pc' \in [Tasks -> Positions] /\ UNCHANGED outcome
    BY <1>1 DEF DrainOn, TypeOK, Positions
  <2> QED
    BY <2>2, <2>3, <2>4 DEF TypeOK, gateVars, vaultVars
<1>2. CASE r.queue # <<>>
  <2>1. lane' \in [LaneIds -> LaneRec]
    BY <1>2, TurnStartedType DEF TypeOK, DrainOn
  <2>2. FirstPosition(r) \in Positions
    BY DEF FirstPosition, Positions, Running, MutationTurn
  <2>3. FirstOutcome(r) \in Outcomes
    BY DEF FirstOutcome, Outcomes
  <2>4. pc' \in [Tasks -> Positions]
    BY <1>2, <2>2 DEF DrainOn, TypeOK, Positions
  <2>5. outcome' \in [Tasks -> Outcomes] /\ UNCHANGED lanes
    BY <1>2, <2>3 DEF DrainOn, TypeOK
  <2> QED
    BY <2>1, <2>4, <2>5 DEF TypeOK, gateVars, vaultVars
<1> QED
  BY <1>1, <1>2

LEMMA LaneType ==
  ASSUME TypeOK, NEW l \in LaneIds, LaneStep(l)
  PROVE  TypeOK'
<1>1. CASE DrainStart(l)
  BY <1>1, DrainOnType, LaneFields DEF DrainStart
<1>2. CASE DrainNext(l)
  <2>1. [lane[l] EXCEPT !.active = NoTask] \in LaneRec
    BY LaneFields DEF LaneRec
  <2> QED
    BY <1>2, <2>1, DrainOnType DEF DrainNext
<1>3. ASSUME NEW ok \in BOOLEAN, LoadSettles(l, ok)
      PROVE  TypeOK'
  <2>1. PICK r \in LaneRec : lane' = [lane EXCEPT ![l] = r] /\ ReleaseIfIdle(l, r)
    BY <1>3, LoadEffect
  <2>4. lane' \in [LaneIds -> LaneRec] /\ lanes' \in [Accounts -> LaneIds \cup {NoLane}]
    BY <2>1, ReleaseType DEF TypeOK
  <2>5. pc' \in [Tasks -> Positions]
    BY <1>3 DEF LoadSettles, TypeOK, Positions, Running, MutationTurn
  <2>6. outcome' \in [Tasks -> Outcomes]
    BY <1>3 DEF LoadSettles, TypeOK, Outcomes, DirtyAnswer
  <2> QED
    BY <1>3, <2>4, <2>5, <2>6 DEF TypeOK, LoadSettles, gateVars, vaultVars
<1> QED
  BY <1>1, <1>2, <1>3 DEF LaneStep

(* Readmission and account transitions.                                    *)
LEMMA ReadmitType ==
  ASSUME TypeOK, NEW a \in Accounts, lanes[a] # NoLane, NEW r \in LaneRec, Readmit(a, r)
  PROVE  /\ lane' \in [LaneIds -> LaneRec]
         /\ lanes' \in [Accounts -> LaneIds \cup {NoLane}]
<1>1. lanes[a] \in LaneIds
  BY DEF TypeOK
<1> QED
  BY <1>1, ReleaseType DEF Readmit, TypeOK

LEMMA ReopenedType ==
  ASSUME NEW r \in LaneRec
  PROVE  /\ Resumed(r) \in LaneRec /\ Resumed(r).account = r.account
         /\ Resumed(r).active = r.active /\ Resumed(r).queue = r.queue
         /\ Resumed(r).dirtyLoaded = r.dirtyLoaded
         /\ Resumed(r).needsReconcile = r.needsReconcile
         /\ Reset(r) \in LaneRec /\ Reset(r).account = r.account
         /\ Reset(r).active = r.active /\ Reset(r).queue = r.queue
         /\ Reset(r).dirtyLoaded = r.dirtyLoaded
         /\ Reset(r).needsReconcile = r.needsReconcile
<1>1. r.epoch \in Nat
  BY DEF LaneRec
<1> DEFINE e == r.epoch + 1
<1>2. e \in Nat
  BY <1>1
<1>3. Resumed(r) = [r EXCEPT !.epoch = e, !.suspended = FALSE]
  BY DEF Resumed
<1>4. Reset(r) = [r EXCEPT !.epoch = e, !.terminal = "none", !.terminalLease = 0,
                           !.retireOnIdle = FALSE, !.suspended = FALSE]
  BY DEF Reset
<1> HIDE DEF e
<1>5. /\ Resumed(r) \in LaneRec /\ Resumed(r).account = r.account
      /\ Resumed(r).active = r.active /\ Resumed(r).queue = r.queue
      /\ Resumed(r).dirtyLoaded = r.dirtyLoaded
      /\ Resumed(r).needsReconcile = r.needsReconcile
  BY <1>2, <1>3 DEF LaneRec
<1>6. [r EXCEPT !.epoch = e, !.terminal = "none", !.terminalLease = 0] \in LaneRec
  BY <1>2 DEF LaneRec
<1>7. Reset(r) \in LaneRec
  BY <1>4, <1>6 DEF LaneRec
<1>8. /\ Reset(r).account = r.account /\ Reset(r).active = r.active
      /\ Reset(r).queue = r.queue /\ Reset(r).dirtyLoaded = r.dirtyLoaded
      /\ Reset(r).needsReconcile = r.needsReconcile
  BY <1>4 DEF LaneRec
<1> QED
  BY <1>5, <1>7, <1>8

LEMMA ResumeType ==
  ASSUME TypeOK, NEW a, ResumeAccount(a)
  PROVE  /\ lane' \in [LaneIds -> LaneRec]
         /\ lanes' \in [Accounts -> LaneIds \cup {NoLane}]
<1>1. CASE Resumable(a)
  <2>1. a \in Accounts /\ lanes[a] # NoLane /\ lane[lanes[a]] \in LaneRec
    BY <1>1 DEF Resumable, Tracked, TypeOK
  <2> QED
    BY <1>1, <2>1, ReopenedType, ReadmitType DEF ResumeAccount
<1>2. CASE ~Resumable(a)
  BY <1>2 DEF ResumeAccount, TypeOK, laneVars
<1> QED
  BY <1>1, <1>2

LEMMA AdmissionType ==
  ASSUME TypeOK, NEW reason, NEW old, NEW opens, SettleAdmission(reason, old, opens)
  PROVE  /\ lane' \in [LaneIds -> LaneRec]
         /\ lanes' \in [Accounts -> LaneIds \cup {NoLane}]
<1>1. CASE UNCHANGED laneVars
  BY <1>1 DEF TypeOK, laneVars
<1>2. CASE ResumeAccount(gate.account)
  BY <1>2, ResumeType
<1>3. CASE Retirable(old) /\ Readmit(old, [lane[lanes[old]] EXCEPT !.retireOnIdle = TRUE])
  <2>1. old \in Accounts /\ lanes[old] # NoLane /\ lane[lanes[old]] \in LaneRec
    BY <1>3 DEF Retirable, Tracked, TypeOK
  <2>2. [lane[lanes[old]] EXCEPT !.retireOnIdle = TRUE] \in LaneRec
    BY <2>1 DEF LaneRec
  <2> QED
    BY <1>3, <2>1, <2>2, ReadmitType
<1>4. CASE /\ Resettable(gate.account)
           /\ Readmit(gate.account, Reset(lane[lanes[gate.account]]))
  <2>1. /\ gate.account \in Accounts /\ lanes[gate.account] # NoLane
        /\ lane[lanes[gate.account]] \in LaneRec
    BY <1>4 DEF Resettable, Tracked, TypeOK
  <2> QED
    BY <1>4, <2>1, ReopenedType, ReadmitType
<1> QED
  BY <1>1, <1>2, <1>3, <1>4 DEF SettleAdmission

LEMMA EnvironmentType ==
  ASSUME TypeOK, TurnInv, Environment
  PROVE  TypeOK'
<1>1. ASSUME NEW t \in Tasks, CommitLands(t) PROVE TypeOK'
  BY <1>1 DEF TypeOK, CommitLands, laneVars, callVars, gateVars
<1>2. ASSUME NEW reason \in {"login", "other", "keyRotation"}, TransitionStart(reason)
      PROVE  TypeOK'
  <2>1. gate' \in [generation : Nat, account : Accounts \cup {NoAccount}]
    BY <1>2 DEF TransitionStart, TypeOK
  <2>2. transition' \in [phase : {"idle", "closed", "moving", "settled"},
                         reason : {"login", "other", "keyRotation"},
                         account : Accounts \cup {NoAccount}, opens : BOOLEAN]
    BY <1>2 DEF TransitionStart, TypeOK
  <2> QED
    BY <1>2, <2>1, <2>2 DEF TransitionStart, TypeOK, laneVars, callVars, vaultVars
<1>3. CASE TransitionInvalidates
  <2>1. transition' \in [phase : {"idle", "closed", "moving", "settled"},
                         reason : {"login", "other", "keyRotation"},
                         account : Accounts \cup {NoAccount}, opens : BOOLEAN]
    BY <1>3 DEF TransitionInvalidates, TypeOK
  <2>2. /\ lane' \in [LaneIds -> LaneRec]
        /\ lanes' \in [Accounts -> LaneIds \cup {NoLane}]
        /\ outcome' \in [Tasks -> Outcomes]
        /\ pc' \in [Tasks -> Positions]
    <3>1. CASE Tracked(transition.account)
      <4> DEFINE l == lanes[transition.account]
      <4>1. l \in LaneIds /\ lane[l] \in LaneRec
        BY <3>1 DEF Tracked, TypeOK
      <4>2. InvalidateLane(l, lane[l]) /\ pc' = Cancelled(lane[l])
        BY <1>3, <3>1 DEF TransitionInvalidates
      <4>3. pc' \in [Tasks -> Positions]
        BY <4>2 DEF Cancelled, TypeOK, Positions
      <4> QED
        BY <4>1, <4>2, <4>3, InvalidateLaneType
    <3>2. CASE ~Tracked(transition.account)
      BY <1>3, <3>2 DEF TransitionInvalidates, TypeOK, laneVars
    <3> QED
      BY <3>1, <3>2
  <2> QED
    BY <1>3, <2>1, <2>2 DEF TransitionInvalidates, TypeOK, vaultVars
<1>4. ASSUME NEW a \in Accounts \cup {NoAccount}, NEW opens \in BOOLEAN,
             TransitionSettles(a, opens)
      PROVE  TypeOK'
  BY <1>4 DEF TransitionSettles, TypeOK, laneVars, callVars, vaultVars
<1>5. CASE TransitionAdmits
  <2>1. /\ lane' \in [LaneIds -> LaneRec]
        /\ lanes' \in [Accounts -> LaneIds \cup {NoLane}]
    BY <1>5, AdmissionType DEF TransitionAdmits
  <2>2. transition' \in [phase : {"idle", "closed", "moving", "settled"},
                         reason : {"login", "other", "keyRotation"},
                         account : Accounts \cup {NoAccount}, opens : BOOLEAN]
    BY <1>5 DEF TransitionAdmits, NoTransition
  <2>3. blocked' \in BOOLEAN
    BY <1>5 DEF TransitionAdmits, TypeOK
  <2>4. UNCHANGED <<callVars, gate, vaultVars, restarts>>
    BY <1>5 DEF TransitionAdmits
  <2> QED
    BY <2>1, <2>2, <2>3, <2>4 DEF TypeOK, callVars, vaultVars
<1>6. CASE UnlockSettles
  <2>1. /\ lane' \in [LaneIds -> LaneRec]
        /\ lanes' \in [Accounts -> LaneIds \cup {NoLane}]
    BY <1>6, ResumeType DEF UnlockSettles
  <2> QED
    BY <1>6, <2>1 DEF UnlockSettles, TypeOK, callVars, gateVars, vaultVars
<1>7. ASSUME NEW a \in Accounts \cup {NoAccount}, Restart(a) PROVE TypeOK'
  <2>1. lane' \in [LaneIds -> LaneRec]
    BY <1>7, NewLaneType DEF Restart
  <2>2. lanes' \in [Accounts -> LaneIds \cup {NoLane}]
    BY <1>7 DEF Restart
  <2>3. pc' \in [Tasks -> Positions] /\ outcome' \in [Tasks -> Outcomes]
    BY <1>7 DEF Restart, TypeOK, Positions, Outcomes
  <2>4. gate' \in [generation : Nat, account : Accounts \cup {NoAccount}] /\ restarts' \in Nat
    BY <1>7 DEF Restart, TypeOK
  <2> QED
    BY <1>7, <2>1, <2>2, <2>3, <2>4 DEF Restart, NoTransition, TypeOK, writeVars
<1> QED
  BY <1>1, <1>2, <1>3, <1>4, <1>5, <1>6, <1>7 DEF Environment

-----------------------------------------------------------------------------
(* What one turn per account means for the lanes.                          *)
LEMMA OneTurn ==
  ASSUME TypeOK, TurnInv, NEW t \in Tasks, NEW u \in Tasks,
         pc[t] \in Running, pc[u] \in Running, job[t].account = job[u].account
  PROVE  t = u
  BY DEF TurnInv, HoldsTurn

LEMMA OwnLane ==
  ASSUME TypeOK, MapInv, NEW a \in Accounts, NEW b \in Accounts,
         lanes[a] # NoLane, lanes[a] = lanes[b]
  PROVE  a = b
  BY DEF MapInv, TypeOK

(* A step that rewrites one lane without giving out a turn or queueing a   *)
(* call, and perhaps deletes that lane, keeps the shape of the lanes.      *)
LaneRewritten(l, r) ==
  /\ lane' = [lane EXCEPT ![l] = r]
  /\ r.account = lane[l].account
  /\ \/ r.active = lane[l].active
     \/ \A u \in Tasks : lane[l].active = u => pc'[u] \notin Running
  /\ lanes' = lanes \/ ReleaseIfIdle(l, r)
  /\ job' = job
  /\ \A u \in Tasks : pc'[u] \in Running => pc[u] \in Running
  /\ \/ /\ r.queue = lane[l].queue
        /\ \A u \in Tasks : pc[u] = "queued" => pc'[u] = "queued"
     \/ /\ r.queue = <<>>
        /\ \A u \in Tasks \ QueuedIn(lane[l]) : pc[u] = "queued" => pc'[u] = "queued"

LEMMA DeletedLane ==
  ASSUME TypeOK, NEW l \in LaneIds, NEW r, ReleaseIfIdle(l, r), r.account = lane[l].account,
         lanes' # lanes
  PROVE  /\ Deletable(l, r) /\ lanes' = [lanes EXCEPT ![r.account] = NoLane]
         /\ r.account \in Accounts /\ lanes[r.account] = l
         /\ r.active = NoTask /\ r.queue = <<>>
  BY DEF ReleaseIfIdle, Deletable

LEMMA RewriteKeepsShape ==
  ASSUME TypeOK, TypeOK', MapInv, QueueInv, TurnInv,
         NEW l \in LaneIds, NEW r \in LaneRec, LaneRewritten(l, r)
  PROVE  MapInv' /\ QueueInv' /\ TurnInv'
<1>1. /\ lane' = [lane EXCEPT ![l] = r]
      /\ r.account = lane[l].account /\ job' = job
      /\ \A m \in LaneIds : m # l => lane'[m] = lane[m]
      /\ lane'[l] = r
  BY DEF LaneRewritten, TypeOK
<1>2. \A m \in LaneIds : lane'[m].account = lane[m].account
  BY <1>1
<1>3. \A a \in Accounts : lanes'[a] = lanes[a] \/ lanes'[a] = NoLane
  BY DeletedLane DEF LaneRewritten, TypeOK
<1>4. MapInv'
  BY <1>2, <1>3 DEF MapInv, TypeOK
<1>5. ASSUME NEW a \in Accounts, lanes[a] # NoLane, lanes'[a] # lanes[a]
      PROVE  lanes[a] = l /\ r.active = NoTask /\ r.queue = <<>>
  BY <1>1, <1>5, DeletedLane DEF LaneRewritten, TypeOK
<1>6. TurnInv'
  <2> SUFFICES ASSUME NEW t \in Tasks, pc'[t] \in Running
               PROVE  HoldsTurn(t)'
    BY DEF TurnInv
  <2>1. pc[t] \in Running /\ HoldsTurn(t)
    BY DEF LaneRewritten, TurnInv
  <2>2. lane'[job[t].lane].active = t
    BY <1>1, <2>1 DEF LaneRewritten, HoldsTurn
  <2>3. lanes'[job[t].account] = lanes[job[t].account]
    BY <1>1, <1>5, <2>1, <2>2, NoneAssumption DEF HoldsTurn
  <2> QED
    BY <1>1, <1>2, <2>1, <2>2, <2>3 DEF HoldsTurn
<1>7. QueueInv'
  <2>1. ASSUME NEW m \in LaneIds, lane'[m].queue # <<>>
        PROVE  lane'[m].account \in Accounts /\ lanes'[lane'[m].account] = m
    <3>1. lane[m].queue # <<>>
      BY <1>1, <2>1 DEF LaneRewritten
    <3>2. lane[m].account \in Accounts /\ lanes[lane[m].account] = m
      BY <3>1 DEF QueueInv
    <3>3. lanes'[lane[m].account] = lanes[lane[m].account]
      BY <1>1, <1>5, <2>1, <3>2, NoneAssumption
    <3> QED
      BY <1>2, <3>2, <3>3
  <2>2. \A m \in LaneIds : lane'[m].queue = lane[m].queue \/ lane'[m].queue = <<>>
    BY <1>1 DEF LaneRewritten
  <2>3. ASSUME NEW m \in LaneIds, NEW i \in DOMAIN lane'[m].queue
        PROVE  LET t == lane'[m].queue[i] IN
               /\ pc'[t] = "queued" /\ job'[t].kind \in Kinds
               /\ job'[t].lane = m /\ job'[t].account = lane'[m].account
    <3>1. lane'[m].queue = lane[m].queue
      BY <2>2, <2>3
    <3> DEFINE t == lane[m].queue[i]
    <3>2. t \in Tasks
      BY <2>3, <3>1, LaneFields
    <3>3. /\ pc[t] = "queued" /\ job[t].kind \in Kinds
          /\ job[t].lane = m /\ job[t].account = lane[m].account
      BY <2>3, <3>1 DEF QueueInv
    <3>4. pc'[t] = "queued"
      <4>1. CASE t \notin QueuedIn(lane[l])
        BY <3>2, <3>3, <4>1 DEF LaneRewritten
      <4>2. CASE t \in QueuedIn(lane[l])
        <5>1. PICK j \in DOMAIN lane[l].queue : t = lane[l].queue[j]
          BY <4>2 DEF QueuedIn
        <5>2. m = l
          BY <3>3, <5>1 DEF QueueInv
        <5>3. r.queue # <<>>
          BY <1>1, <2>3, <5>2
        <5> QED
          BY <3>2, <3>3, <5>3 DEF LaneRewritten
      <4> QED
        BY <4>1, <4>2
    <3> QED
      BY <1>1, <1>2, <3>1, <3>3, <3>4
  <2>4. ASSUME NEW m \in LaneIds, NEW i \in DOMAIN lane'[m].queue,
               NEW j \in DOMAIN lane'[m].queue, lane'[m].queue[i] = lane'[m].queue[j]
        PROVE  i = j
    <3>1. lane'[m].queue = lane[m].queue
      BY <2>2, <2>4
    <3> QED
      BY <2>4, <3>1 DEF QueueInv
  <2> QED
    BY <2>1, <2>3, <2>4 DEF QueueInv
<1> QED
  BY <1>4, <1>6, <1>7

-----------------------------------------------------------------------------
(* What a position of a turn guarantees survives a step that leaves the    *)
(* call where it is and takes nothing away from its account and lane.      *)
LEMMA MarkerKept ==
  ASSUME NEW u \in Tasks, MarkerAt(u),
         job'[u] = job[u], pc'[u] = pc[u],
         u \in out' \cup landed' => u \in out \cup landed,
         pc[u] \in Running =>
           /\ job[u].account \in durable => job[u].account \in durable'
           /\ unseen'[job[u].account] = unseen[job[u].account]
           /\ read'[u] = read[u]
           /\ lane[job[u].lane].dirtyLoaded => lane'[job[u].lane].dirtyLoaded
           /\ lane[job[u].lane].needsReconcile => lane'[job[u].lane].needsReconcile
  PROVE  MarkerAt(u)'
  BY DEF MarkerAt, Unissued, Covered, Running, MutationTurn

LEMMA MarkerFree ==
  ASSUME NEW u \in Tasks, pc'[u] \in {"done", "returning", "joined", "querying",
                                      "syncing", "preflight", "terminal"}
  PROVE  MarkerAt(u)'
  BY DEF MarkerAt, Unissued, Covered

(* A step of the turn of t: what it does to its own account and lane is    *)
(* all there is to check.                                                  *)
LEMMA TurnFrame ==
  ASSUME IInv, TypeOK', NEW t \in Tasks, pc[t] \in Running,
         NEW r \in LaneRec, LaneRewritten(job[t].lane, r), lanes' = lanes,
         \A u \in Tasks : u # t => pc'[u] = pc[u] \/ pc'[u] = "done",
         \A a \in Accounts : a # job[t].account =>
           (a \in durable <=> a \in durable') /\ unseen'[a] = unseen[a],
         \A u \in Tasks : u # t =>
           /\ u \in out' \cup landed' => u \in out \cup landed
           /\ read'[u] = read[u],
         MarkerAt(t)', \A a \in Accounts : a = job[t].account => KnowsOf(a)',
         unseen'[job[t].account] # {} => job[t].account \in durable'
  PROVE  IInv'
<1> USE DEF IInv
<1>1. /\ job[t].account \in Accounts /\ job[t].lane \in LaneIds
      /\ lanes[job[t].account] = job[t].lane
  BY DEF TurnInv, HoldsTurn
<1>2. MapInv' /\ QueueInv' /\ TurnInv'
  BY <1>1, RewriteKeepsShape
<1>3. \A m \in LaneIds : m # job[t].lane => lane'[m] = lane[m]
  BY DEF LaneRewritten, TypeOK
<1>4. job' = job
  BY DEF LaneRewritten
<1>5. MarkerInv'
  <2> SUFFICES ASSUME NEW u \in Tasks, u # t PROVE MarkerAt(u)'
    BY DEF MarkerInv
  <2>1. CASE pc'[u] = "done"
    BY <2>1, MarkerFree
  <2>2. CASE pc'[u] = pc[u]
    <3>1. CASE pc[u] \notin Running
      BY <1>4, <2>2, <3>1, MarkerKept DEF MarkerInv
    <3>2. CASE pc[u] \in Running
      <4>1. HoldsTurn(u) /\ job[u].account # job[t].account
        BY <3>2, OneTurn DEF TurnInv
      <4>2. job[u].lane # job[t].lane
        BY <1>1, <4>1, OwnLane, NoneAssumption DEF HoldsTurn
      <4>3. lane'[job[u].lane] = lane[job[u].lane]
        BY <1>3, <4>1, <4>2 DEF HoldsTurn
      <4> QED
        BY <1>4, <2>2, <4>1, <4>3, MarkerKept DEF MarkerInv, HoldsTurn
    <3> QED
      BY <3>1, <3>2
  <2> QED
    BY <2>1, <2>2
<1>6. KnowledgeInv'
  <2> SUFFICES ASSUME NEW a \in Accounts, a # job[t].account PROVE KnowsOf(a)'
    BY DEF KnowledgeInv
  <2>1. CASE lanes[a] = NoLane
    BY <2>1 DEF KnowsOf
  <2>2. CASE lanes[a] # NoLane
    <3>1. lanes[a] \in LaneIds /\ lanes[a] # job[t].lane
      BY <1>1, <2>2, OwnLane DEF TypeOK
    <3>2. lane'[lanes[a]] = lane[lanes[a]]
      BY <1>3, <3>1
    <3> QED
      BY <3>2 DEF KnowsOf, KnowledgeInv
  <2> QED
    BY <2>1, <2>2
<1>7. WriteAhead'
  BY DEF WriteAhead, TypeOK
<1> QED
  BY <1>2, <1>5, <1>6, <1>7

(* A step outside every turn that rewrites one lane: it may settle a call, *)
(* or let the call whose marker load it was go on.                         *)
LEMMA RewriteFrame ==
  ASSUME IInv, TypeOK', NEW l \in LaneIds, NEW r \in LaneRec, LaneRewritten(l, r),
         UNCHANGED vaultVars,
         lane[l].dirtyLoaded => r.dirtyLoaded,
         lane[l].needsReconcile => r.needsReconcile,
         \/ r.dirtyLoaded => lane[l].dirtyLoaded
         \/ r.account \in Accounts /\ unseen[r.account] # {} => r.needsReconcile,
         \A u \in Tasks :
           \/ pc'[u] = pc[u]
           \/ pc'[u] \in {"done", "returning"}
           \/ pc[u] = "awaiting" /\ pc'[u] = "loaded" /\ job[u].lane = l /\ r.dirtyLoaded
  PROVE  IInv'
<1> USE DEF IInv
<1>1. MapInv' /\ QueueInv' /\ TurnInv'
  BY RewriteKeepsShape
<1>2. \A m \in LaneIds : m # l => lane'[m] = lane[m]
  BY DEF LaneRewritten, TypeOK
<1>3. job' = job /\ lane'[l] = r
  BY DEF LaneRewritten, TypeOK
<1>4. MarkerInv'
  <2> SUFFICES ASSUME NEW u \in Tasks PROVE MarkerAt(u)'
    BY DEF MarkerInv
  <2>1. CASE pc'[u] = pc[u]
    <3>1. pc[u] \in Running => job[u].lane \in LaneIds
      BY DEF TurnInv, HoldsTurn
    <3>2. MarkerAt(u)
      BY DEF MarkerInv
    <3> QED
      BY <1>2, <1>3, <2>1, <3>1, <3>2, MarkerKept DEF vaultVars
  <2>2. CASE pc'[u] \in {"done", "returning"}
    BY <2>2, MarkerFree
  <2>3. CASE /\ pc[u] = "awaiting" /\ pc'[u] = "loaded"
             /\ job[u].lane = l /\ r.dirtyLoaded
    BY <1>3, <2>3 DEF MarkerInv, MarkerAt, Unissued, Covered, vaultVars
  <2> QED
    BY <2>1, <2>2, <2>3
<1>5. KnowledgeInv'
  <2> SUFFICES ASSUME NEW a \in Accounts, lanes'[a] # NoLane PROVE KnowsOf(a)'
    BY DEF KnowledgeInv, KnowsOf
  <2>1. lanes'[a] = lanes[a] /\ lanes[a] \in LaneIds
    BY DeletedLane DEF LaneRewritten, TypeOK
  <2>2. CASE lanes[a] # l
    BY <1>2, <2>1, <2>2 DEF KnowledgeInv, KnowsOf, vaultVars
  <2>3. CASE lanes[a] = l
    <3>1. r.account = a
      BY <2>1, <2>3 DEF MapInv, LaneRewritten
    <3>2. KnowsOf(a)
      BY DEF KnowledgeInv
    <3> QED
      BY <1>3, <2>1, <2>3, <3>1, <3>2 DEF KnowsOf, vaultVars
  <2> QED
    BY <2>2, <2>3
<1>6. WriteAhead'
  BY DEF WriteAhead, vaultVars
<1> QED
  BY <1>1, <1>4, <1>5, <1>6

LEMMA TurnRewrites ==
  ASSUME TypeOK, NEW t \in Tasks, pc[t] \in Running, HoldsTurn(t),
         NEW p \in Running, pc' = [pc EXCEPT ![t] = p],
         UNCHANGED <<lanes, job>>,
         NEW r \in LaneRec, SetLane(t, r), r.account = MyLane(t).account,
         r.active = MyLane(t).active, r.queue = MyLane(t).queue
  PROVE  /\ LaneRewritten(job[t].lane, r)
         /\ lane'[job[t].lane] = r /\ lanes' = lanes /\ job' = job
         /\ pc'[t] = p /\ \A u \in Tasks : u # t => pc'[u] = pc[u] \/ pc'[u] = "done"
         /\ lanes'[job[t].account] = job[t].lane
<1>1. pc[t] # "queued"
  BY DEF Running, MutationTurn
<1>2. pc'[t] = p /\ \A u \in Tasks : u # t => pc'[u] = pc[u]
  BY DEF TypeOK
<1>3. \A u \in Tasks : pc[u] = "queued" => pc'[u] = "queued"
  BY <1>1, <1>2
<1>4. \A u \in Tasks : pc'[u] \in Running => pc[u] \in Running
  BY <1>2
<1>5. LaneRewritten(job[t].lane, r)
  BY <1>3, <1>4 DEF LaneRewritten, SetLane, MyLane
<1> QED
  BY <1>2, <1>5 DEF SetLane, TypeOK, HoldsTurn

(* Every step of a turn keeps the invariant.                               *)
LEMMA TurnSafe ==
  ASSUME IInv, NEW t \in Tasks, TurnStep(t)
  PROVE  IInv'
<1> DEFINE a == job[t].account
           l == job[t].lane
<1>1. TypeOK /\ TurnInv /\ TypeOK'
  BY TurnType DEF IInv
<1>2. pc[t] \in Running /\ HoldsTurn(t) /\ MyLane(t) \in LaneRec
  BY <1>1, TurnHolds
<1>3. /\ a \in Accounts /\ l \in LaneIds /\ lanes[a] = l /\ l # NoLane
      /\ MarkerAt(t) /\ KnowsOf(a) /\ (unseen[a] # {} => a \in durable)
  BY <1>2, NoneAssumption DEF HoldsTurn, IInv, MarkerInv, KnowledgeInv, WriteAhead
<1>4. lane' = lane => SetLane(t, MyLane(t))
  BY <1>1 DEF SetLane, MyLane, TypeOK
<1>5. /\ SlotFreed(t, MyLane(t)) \in LaneRec
      /\ SlotFreed(t, MyLane(t)).account = MyLane(t).account
      /\ SlotFreed(t, MyLane(t)).active = MyLane(t).active
      /\ SlotFreed(t, MyLane(t)).queue = MyLane(t).queue
      /\ SlotFreed(t, MyLane(t)).dirtyLoaded = MyLane(t).dirtyLoaded
      /\ SlotFreed(t, MyLane(t)).needsReconcile = MyLane(t).needsReconcile
  BY <1>2, SlotFreedType
<1>6. \A p \in {"returning", "clearing", "cleared", "unmarking", "unmarked", "marking",
                "marked", "committing", "reconciling", "fetched", "refetched"} : p \in Running
  BY DEF Running, MutationTurn
(* A step that leaves the lanes alone.                                     *)
<1>7. ASSUME NEW p \in Running, pc' = [pc EXCEPT ![t] = p], UNCHANGED <<lanes, lane, job>>,
             \A b \in Accounts : b # a =>
               (b \in durable <=> b \in durable') /\ unseen'[b] = unseen[b],
             \A u \in Tasks : u # t =>
               /\ u \in out' \cup landed' => u \in out \cup landed
               /\ read'[u] = read[u],
             MarkerAt(t)', unseen'[a] # {} => unseen[a] # {},
             unseen'[a] # {} => a \in durable'
      PROVE  IInv'
  <2>1. /\ LaneRewritten(l, MyLane(t)) /\ lanes' = lanes /\ job' = job
        /\ \A u \in Tasks : u # t => pc'[u] = pc[u] \/ pc'[u] = "done"
    BY <1>1, <1>2, <1>4, <1>7, TurnRewrites
  <2>2. \A b \in Accounts : b = a => KnowsOf(b)'
    BY <1>3, <1>7 DEF KnowsOf
  <2> QED
    BY <1>1, <1>2, <1>7, <2>1, <2>2, TurnFrame
<1>8. ASSUME NEW p \in Running, pc' = [pc EXCEPT ![t] = p], UNCHANGED <<lanes, job>>,
             NEW r \in LaneRec, SetLane(t, r), r.account = MyLane(t).account,
             r.active = MyLane(t).active, r.queue = MyLane(t).queue,
             UNCHANGED vaultVars,
             lane'[l] = r => MarkerAt(t)',
             unseen[a] # {} /\ r.dirtyLoaded => r.needsReconcile
      PROVE  IInv'
  <2>1. /\ LaneRewritten(l, r) /\ lanes' = lanes /\ job' = job /\ lane'[l] = r
        /\ \A u \in Tasks : u # t => pc'[u] = pc[u] \/ pc'[u] = "done"
    BY <1>1, <1>2, <1>8, TurnRewrites
  <2>2. \A b \in Accounts : b = a => KnowsOf(b)'
    BY <1>3, <1>8, <2>1 DEF KnowsOf, vaultVars
  <2> QED
    BY <1>1, <1>2, <1>3, <1>8, <2>1, <2>2, TurnFrame DEF vaultVars
<1>9. pc'[t] \in {"returning", "reconciling"} => MarkerAt(t)'
  BY DEF MarkerAt, Unissued, Covered
<1>10. \A p : pc' = [pc EXCEPT ![t] = p] => pc'[t] = p
  BY <1>1 DEF TypeOK
<1>11. ASSUME NEW ok \in BOOLEAN, SyncReturns(t, ok)
       PROVE  IInv'
  <2>0. /\ out' = out /\ landed' = landed /\ durable' = durable
        /\ \A b \in Accounts : b # a => unseen'[b] = unseen[b]
        /\ unseen'[a] \subseteq unseen[a]
        /\ ok => unseen'[a] = unseen[a] \ read[t]
        /\ \A u \in Tasks : u # t => read'[u] = read[u]
    BY <1>1, <1>3, <1>11, PublishedType DEF SyncReturns
  <2>1. CASE ok /\ IsCurrent(t)
    <3>1. /\ pc' = [pc EXCEPT ![t] = "clearing"] /\ pc[t] = "fetched"
          /\ UNCHANGED <<lanes, lane, job>>
      BY <1>11, <2>1 DEF SyncReturns, Move, laneVars
    <3>2. unseen'[a] = {}
      BY <1>3, <2>0, <2>1, <3>1 DEF MarkerAt
    <3>3. MarkerAt(t)'
      BY <1>10, <3>1, <3>2 DEF MarkerAt, Unissued, Covered
    <3> QED
      BY <1>6, <1>7, <2>0, <3>1, <3>2, <3>3
  <2>2. CASE ~(ok /\ IsCurrent(t))
    <3>1. /\ pc' = [pc EXCEPT ![t] = "returning"]
          /\ SetLane(t, SlotFreed(t, MyLane(t)))
          /\ UNCHANGED <<lanes, job>>
      BY <1>11, <2>2 DEF SyncReturns, Return
    <3> DEFINE r == SlotFreed(t, MyLane(t))
    <3>2. /\ LaneRewritten(l, r) /\ lanes' = lanes /\ job' = job /\ lane'[l] = r
          /\ \A u \in Tasks : u # t => pc'[u] = pc[u] \/ pc'[u] = "done"
      BY <1>1, <1>2, <1>5, <1>6, <3>1, TurnRewrites
    <3>3. MarkerAt(t)'
      BY <1>9, <1>10, <3>1
    <3>4. \A b \in Accounts : b = a => KnowsOf(b)'
      BY <1>3, <1>5, <2>0, <3>1, <3>2 DEF KnowsOf, MyLane
    <3>5. unseen'[a] # {} => a \in durable'
      BY <1>3, <2>0
    <3>6. \A b \in Accounts : b # a =>
            (b \in durable <=> b \in durable') /\ unseen'[b] = unseen[b]
      BY <2>0
    <3>7. \A u \in Tasks : u # t =>
            /\ u \in out' \cup landed' => u \in out \cup landed
            /\ read'[u] = read[u]
      BY <2>0
    <3> HIDE DEF r
    <3>8. r \in LaneRec
      BY <1>5 DEF r
    <3> QED
      BY <1>1, <1>2, <3>2, <3>3, <3>4, <3>5, <3>6, <3>7, <3>8, TurnFrame
  <2> QED
    BY <2>1, <2>2
<1>12. ASSUME NEW ok \in BOOLEAN, ReconcileReturns(t, ok)
       PROVE  IInv'
  <2>0. /\ out' = out /\ landed' = landed /\ durable' = durable
        /\ \A b \in Accounts : b # a => unseen'[b] = unseen[b]
        /\ unseen'[a] \subseteq unseen[a]
        /\ ok => unseen'[a] = unseen[a] \ read[t]
        /\ \A u \in Tasks : u # t => read'[u] = read[u]
    BY <1>1, <1>3, <1>12, PublishedType DEF ReconcileReturns
  <2>1. CASE ok /\ IsCurrent(t)
    <3>1. /\ pc' = [pc EXCEPT ![t] = "clearing"] /\ pc[t] = "refetched"
          /\ UNCHANGED <<lanes, lane, job>>
      BY <1>12, <2>1 DEF ReconcileReturns, Move, laneVars
    <3>2. unseen'[a] = {}
      BY <1>3, <2>0, <2>1, <3>1 DEF MarkerAt
    <3>3. MarkerAt(t)'
      BY <1>10, <3>1, <3>2 DEF MarkerAt, Unissued, Covered
    <3> QED
      BY <1>6, <1>7, <2>0, <3>1, <3>2, <3>3
  <2>2. CASE ~(ok /\ IsCurrent(t))
    <3>1. pc' = [pc EXCEPT ![t] = "returning"] /\ UNCHANGED <<lanes, lane, job>>
      BY <1>12, <2>2 DEF ReconcileReturns, Return, laneVars
    <3>2. MarkerAt(t)'
      BY <1>9, <1>10, <3>1
    <3> QED
      BY <1>3, <1>6, <1>7, <2>0, <3>1, <3>2
  <2> QED
    BY <2>1, <2>2
<1>13. ASSUME NEW ok \in BOOLEAN, ClearReturns(t, ok)
       PROVE  IInv'
  <2> DEFINE q == IF ok THEN [MyLane(t) EXCEPT !.dirtyLoaded = TRUE,
                                               !.needsReconcile = FALSE]
                  ELSE MyLane(t)
  <2> DEFINE r == SlotFreed(t, q)
  <2>1. /\ q \in LaneRec /\ q.account = MyLane(t).account /\ q.active = MyLane(t).active
        /\ q.queue = MyLane(t).queue
        /\ ~ok => q = MyLane(t)
    <3>1. CASE ok
      BY <1>2, <3>1 DEF LaneRec
    <3>2. CASE ~ok
      BY <1>2, <3>2
    <3> QED
      BY <3>1, <3>2
  <2>2. r \in LaneRec /\ r.account = q.account /\ r.active = q.active /\ r.queue = q.queue
        /\ r.dirtyLoaded = q.dirtyLoaded /\ r.needsReconcile = q.needsReconcile
    <3> HIDE DEF q
    <3> QED
      BY <2>1, SlotFreedType
  <2>3. pc' = [pc EXCEPT ![t] = "returning"] /\ SetLane(t, r)
        /\ UNCHANGED <<lanes, job>> /\ UNCHANGED vaultVars
    BY <1>13 DEF ClearReturns, Return
  <2>4. ok => unseen[a] = {}
    BY <1>3, <1>13 DEF ClearReturns, MarkerAt, Covered
  <2>5. unseen[a] # {} /\ r.dirtyLoaded => r.needsReconcile
    BY <1>3, <2>1, <2>2, <2>4 DEF KnowsOf, MyLane
  <2>6. MarkerAt(t)'
    BY <1>9, <1>10, <2>3
  <2> HIDE DEF q, r
  <2> QED
    BY <1>6, <1>8, <2>1, <2>2, <2>3, <2>5, <2>6
<1>14. ASSUME NEW ok \in BOOLEAN, UnmarkReturns(t, ok)
       PROVE  IInv'
  <2> DEFINE q == IF ok THEN [MyLane(t) EXCEPT !.dirtyLoaded = TRUE,
                                               !.needsReconcile = FALSE]
                  ELSE MyLane(t)
  <2>1. /\ q \in LaneRec /\ q.account = MyLane(t).account /\ q.active = MyLane(t).active
        /\ q.queue = MyLane(t).queue
        /\ ~ok => q = MyLane(t)
    <3>1. CASE ok
      BY <1>2, <3>1 DEF LaneRec
    <3>2. CASE ~ok
      BY <1>2, <3>2
    <3> QED
      BY <3>1, <3>2
  <2>2. pc' = [pc EXCEPT ![t] = "returning"] /\ SetLane(t, q)
        /\ UNCHANGED <<lanes, job>> /\ UNCHANGED vaultVars
    BY <1>14 DEF UnmarkReturns, Return
  <2>3. ok => unseen[a] = {}
    BY <1>3, <1>14 DEF UnmarkReturns, MarkerAt, Covered
  <2>4. unseen[a] # {} /\ q.dirtyLoaded => q.needsReconcile
    BY <1>3, <2>1, <2>3 DEF KnowsOf, MyLane
  <2>5. MarkerAt(t)'
    BY <1>9, <1>10, <2>2
  <2> HIDE DEF q
  <2> QED
    BY <1>6, <1>8, <2>1, <2>2, <2>4, <2>5
<1>15. CASE CheckDirty(t)
  <2>1. UNCHANGED <<lanes, lane, job, durable, out, landed, unseen, read>>
    BY <1>15 DEF CheckDirty, laneVars, vaultVars
  <2>2. CASE IsCurrent(t) /\ ~MyLane(t).needsReconcile
    <3>1. pc' = [pc EXCEPT ![t] = "marking"]
      BY <1>15, <2>2 DEF CheckDirty, Move
    <3>2. unseen[a] = {} /\ t \notin out \cup landed
      BY <1>3, <1>15, <2>2 DEF CheckDirty, MarkerAt, Unissued, KnowsOf, MyLane
    <3>3. MarkerAt(t)'
      BY <1>10, <2>1, <3>1, <3>2 DEF MarkerAt, Unissued, Covered
    <3> QED
      BY <1>6, <1>7, <2>1, <3>1, <3>2, <3>3
  <2>3. CASE ~(IsCurrent(t) /\ ~MyLane(t).needsReconcile)
    <3>1. pc' = [pc EXCEPT ![t] = "returning"]
      BY <1>15, <2>3 DEF CheckDirty, Return
    <3>2. MarkerAt(t)'
      BY <1>9, <1>10, <3>1
    <3> QED
      BY <1>3, <1>6, <1>7, <2>1, <3>1, <3>2
  <2> QED
    BY <2>2, <2>3
<1>16. CASE MarkerWritten(t)
  <2>1. /\ pc' = [pc EXCEPT ![t] = "marked"] /\ durable' = durable \cup {a}
        /\ UNCHANGED <<lanes, lane, job, out, landed, unseen, read>> /\ pc[t] = "marking"
    BY <1>16 DEF MarkerWritten, Move, laneVars, writeVars
  <2>2. MarkerAt(t)'
    BY <1>3, <1>10, <2>1 DEF MarkerAt, Unissued, Covered
  <2> QED
    BY <1>6, <1>7, <2>1, <2>2
<1>17. CASE MarkFails(t)
  <2>1. /\ pc' = [pc EXCEPT ![t] = "returning"]
        /\ UNCHANGED <<lanes, lane, job, durable, out, landed, unseen, read>>
    BY <1>17 DEF MarkFails, Return, laneVars, vaultVars
  <2>2. MarkerAt(t)'
    BY <1>9, <1>10, <2>1
  <2> QED
    BY <1>3, <1>6, <1>7, <2>1, <2>2
<1>18. CASE BeginCommit(t)
  <2> DEFINE r == [MyLane(t) EXCEPT !.dirtyLoaded = TRUE, !.needsReconcile = TRUE]
  <2>1. r \in LaneRec /\ r.account = MyLane(t).account /\ r.active = MyLane(t).active
        /\ r.queue = MyLane(t).queue /\ r.needsReconcile = TRUE
    BY <1>2 DEF LaneRec
  <2>2. SetLane(t, r) /\ pc[t] = "marked" /\ UNCHANGED <<lanes, job, durable, read>>
    BY <1>18 DEF BeginCommit
  <2>3. /\ t \notin out \cup landed /\ a \in durable /\ unseen[a] = {}
    BY <1>3, <2>2 DEF MarkerAt, Unissued, Covered
  <2>4. CASE IsCurrent(t)
    <3>1. /\ pc' = [pc EXCEPT ![t] = "committing"] /\ out' = out \cup {t}
          /\ unseen' = [unseen EXCEPT ![a] = @ \cup {t}] /\ landed' = landed
      BY <1>18, <2>4 DEF BeginCommit, Issues, Move
    <3>2. unseen'[a] = {t} /\ \A b \in Accounts : b # a => unseen'[b] = unseen[b]
      BY <1>1, <1>3, <2>3, <3>1 DEF TypeOK
    <3> HIDE DEF r
    <3>3. /\ LaneRewritten(l, r) /\ lanes' = lanes /\ job' = job /\ lane'[l] = r
          /\ \A u \in Tasks : u # t => pc'[u] = pc[u] \/ pc'[u] = "done"
      BY <1>1, <1>2, <1>6, <2>1, <2>2, <3>1, TurnRewrites
    <3>4. MarkerAt(t)'
      BY <1>10, <2>1, <2>2, <2>3, <3>1, <3>2, <3>3 DEF MarkerAt, Unissued, Covered
    <3>5. \A b \in Accounts : b = a => KnowsOf(b)'
      BY <1>3, <2>1, <3>3 DEF KnowsOf
    <3>6. unseen'[a] # {} => a \in durable'
      BY <2>2, <2>3
    <3>7. \A u \in Tasks : u # t =>
            /\ u \in out' \cup landed' => u \in out \cup landed
            /\ read'[u] = read[u]
      BY <2>2, <3>1
    <3>8. \A b \in Accounts : b # a =>
            (b \in durable <=> b \in durable') /\ unseen'[b] = unseen[b]
      BY <2>2, <3>2
    <3> QED
      BY <1>1, <1>2, <2>1, <3>3, <3>4, <3>5, <3>6, <3>7, <3>8, TurnFrame
  <2>5. CASE ~IsCurrent(t)
    <3>1. pc' = [pc EXCEPT ![t] = "unmarking"] /\ UNCHANGED <<out, landed, unseen>>
      BY <1>18, <2>5 DEF BeginCommit, Move, writeVars
    <3> HIDE DEF r
    <3>2. lane'[l] = r => MarkerAt(t)'
      BY <1>10, <2>2, <2>3, <3>1 DEF MarkerAt, Unissued, Covered
    <3>3. UNCHANGED vaultVars
      BY <2>2, <3>1 DEF vaultVars
    <3> QED
      BY <1>6, <1>8, <2>1, <2>2, <2>3, <3>1, <3>2, <3>3
  <2> QED
    BY <2>4, <2>5
<1>19. CASE CommitSucceeds(t)
  <2>1. /\ UNCHANGED <<lanes, lane, job, durable, out, landed, unseen, read>>
        /\ \/ pc' = [pc EXCEPT ![t] = "reconciling"]
           \/ pc' = [pc EXCEPT ![t] = "returning"]
    BY <1>19 DEF CommitSucceeds, Return, Move, laneVars, vaultVars
  <2>2. MarkerAt(t)'
    BY <1>9, <1>10, <2>1
  <2> QED
    BY <1>3, <1>6, <1>7, <2>1, <2>2
<1>20. ASSUME NEW o \in {"not_committed", "conflict", "outcome_unknown"}, CommitFails(t, o)
       PROVE  IInv'
  <2>1. UNCHANGED <<lanes, lane, job, durable, read>> /\ pc[t] = "committing"
    BY <1>20 DEF CommitFails, laneVars
  <2>2. unseen[a] = {t} /\ t \in Tasks
    BY <1>3, <2>1 DEF MarkerAt
  <2>3. /\ out' \subseteq out /\ landed' = landed /\ unseen'[a] \subseteq unseen[a]
        /\ \A b \in Accounts : b # a => unseen'[b] = unseen[b]
        /\ o # "outcome_unknown" => unseen'[a] = unseen[a] \ {t}
    BY <1>1, <1>3, <1>20 DEF CommitFails, Unknown, RuledOut, writeVars, TypeOK
  <2>4. CASE o = "not_committed"
    <3>1. pc' = [pc EXCEPT ![t] = "unmarking"]
      BY <1>20, <2>4 DEF CommitFails, Move
    <3>2. unseen'[a] = {}
      BY <2>2, <2>3, <2>4
    <3>3. MarkerAt(t)'
      BY <1>10, <2>1, <3>1, <3>2 DEF MarkerAt, Unissued, Covered
    <3> QED
      BY <1>6, <1>7, <2>1, <2>3, <3>1, <3>2, <3>3
  <2>5. CASE o # "not_committed"
    <3>1. pc' = [pc EXCEPT ![t] = "returning"]
      BY <1>20, <2>5 DEF CommitFails, Return
    <3>2. MarkerAt(t)'
      BY <1>9, <1>10, <3>1
    <3> QED
      BY <1>3, <1>6, <1>7, <2>1, <2>2, <2>3, <3>1, <3>2
  <2> QED
    BY <2>4, <2>5
<1>21. CASE MarkerCleared(t)
  <2> DEFINE p == IF pc[t] = "clearing" THEN "cleared" ELSE "unmarked"
  <2>1. /\ pc' = [pc EXCEPT ![t] = p] /\ durable' = durable \ {a}
        /\ UNCHANGED <<lanes, lane, job, out, landed, unseen, read>>
        /\ pc[t] \in {"clearing", "unmarking"}
    BY <1>21 DEF MarkerCleared, Move, laneVars, writeVars
  <2>2. p \in {"cleared", "unmarked"} /\ unseen[a] = {}
    BY <1>3, <2>1 DEF MarkerAt, Covered
  <2> HIDE DEF p
  <2>3. MarkerAt(t)'
    BY <1>10, <2>1, <2>2 DEF MarkerAt, Unissued, Covered
  <2> QED
    BY <1>6, <1>7, <2>1, <2>2, <2>3
<1>22. CASE CommitTerminal(t)
  <2> DEFINE q == [MyLane(t) EXCEPT !.terminal = "committed_active",
                           !.terminalLease = job[t].lease, !.retireOnIdle = FALSE]
  <2>1. job[t].lease \in Nat
    BY <1>1 DEF TypeOK, JobRec
  <2>2. /\ q \in LaneRec /\ q.account = MyLane(t).account /\ q.active = MyLane(t).active
        /\ q.queue = MyLane(t).queue /\ q.dirtyLoaded = MyLane(t).dirtyLoaded
        /\ q.needsReconcile = MyLane(t).needsReconcile
    BY <1>2, <2>1 DEF LaneRec
  <2>3. /\ InvalidateLane(l, q) /\ pc' = [Cancelled(MyLane(t)) EXCEPT ![t] = "terminal"]
        /\ job' = job /\ UNCHANGED vaultVars
    BY <1>22 DEF CommitTerminal
  <2> HIDE DEF q
  <2> DEFINE r == Invalidated(q)
  <2>4. /\ r \in LaneRec /\ r.account = MyLane(t).account /\ r.active = MyLane(t).active
        /\ r.queue = <<>> /\ r.dirtyLoaded = MyLane(t).dirtyLoaded
        /\ r.needsReconcile = MyLane(t).needsReconcile
    BY <2>2, InvalidatedType
  <2>5. lane' = [lane EXCEPT ![l] = r] /\ ReleaseIfIdle(l, r)
    BY <2>3 DEF InvalidateLane
  <2> HIDE DEF r
  <2>6. lanes' = lanes
    BY <1>2, <2>4, <2>5, NoneAssumption DEF ReleaseIfIdle, Deletable, HoldsTurn, MyLane
  <2>7. /\ pc'[t] = "terminal"
        /\ \A u \in Tasks : u # t => pc'[u] = pc[u] \/ pc'[u] = "done"
        /\ \A u \in Tasks \ QueuedIn(lane[l]) : u # t => pc'[u] = pc[u]
    BY <2>3 DEF Cancelled, MyLane
  <2>8. LaneRewritten(l, r)
    <3>1. \A u \in Tasks : pc'[u] \in Running => pc[u] \in Running
      BY <1>2, <2>7 DEF Running, MutationTurn
    <3>2. pc[t] # "queued"
      BY <1>2 DEF Running, MutationTurn
    <3> QED
      BY <2>3, <2>4, <2>5, <2>6, <2>7, <3>1, <3>2 DEF LaneRewritten, MyLane
  <2>9. lane'[l] = r
    BY <1>1, <1>3, <2>5 DEF TypeOK
  <2>10. MarkerAt(t)'
    BY <2>7, MarkerFree
  <2>11. \A b \in Accounts : b = a => KnowsOf(b)'
    BY <1>3, <2>3, <2>4, <2>6, <2>9 DEF KnowsOf, MyLane, vaultVars
  <2> QED
    BY <1>1, <1>2, <1>3, <2>3, <2>4, <2>6, <2>7, <2>8, <2>10, <2>11, TurnFrame
       DEF vaultVars
<1>23. CASE PreflightFails(t)
  <2>1. /\ UNCHANGED <<lanes, lane, job, durable, out, landed, unseen, read>>
        /\ pc' = [pc EXCEPT ![t] = "returning"]
    BY <1>23 DEF PreflightFails, Return, laneVars, vaultVars
  <2>2. MarkerAt(t)'
    BY <1>9, <1>10, <2>1
  <2> QED
    BY <1>3, <1>6, <1>7, <2>1, <2>2
<1>24. ASSUME NEW o \in {"ok", "outcome_unknown"}, TerminalReturns(t, o)
       PROVE  IInv'
  <2> DEFINE r == [MyLane(t) EXCEPT !.terminal = "sealed"]
  <2>1. /\ r \in LaneRec /\ r.account = MyLane(t).account /\ r.active = MyLane(t).active
        /\ r.queue = MyLane(t).queue /\ r.dirtyLoaded = MyLane(t).dirtyLoaded
        /\ r.needsReconcile = MyLane(t).needsReconcile
    BY <1>2 DEF LaneRec
  <2>2. pc' = [pc EXCEPT ![t] = "returning"] /\ SetLane(t, r)
        /\ UNCHANGED <<lanes, job>> /\ UNCHANGED vaultVars
    BY <1>24 DEF TerminalReturns, Return
  <2> HIDE DEF r
  <2>3. MarkerAt(t)'
    BY <1>9, <1>10, <2>2
  <2>4. unseen[a] # {} /\ r.dirtyLoaded => r.needsReconcile
    BY <1>3, <2>1 DEF KnowsOf, MyLane
  <2> QED
    BY <1>6, <1>8, <2>1, <2>2, <2>3, <2>4
<1>25. CASE ServerAnswers(t)
  <2>0. PICK p \in {"fetched", "refetched"} : pc' = [pc EXCEPT ![t] = p]
    BY <1>25 DEF ServerAnswers, Move
  <2>1. /\ read' = [read EXCEPT ![t] = unseen[a]]
        /\ UNCHANGED <<lanes, lane, job, durable, out, landed, unseen>>
    BY <1>25 DEF ServerAnswers, Move, laneVars, writeVars
  <2>2. read'[t] = unseen[a] /\ \A u \in Tasks : u # t => read'[u] = read[u]
    BY <1>1, <2>1 DEF TypeOK
  <2>3. MarkerAt(t)'
    BY <1>10, <2>0, <2>1, <2>2 DEF MarkerAt, Unissued, Covered
  <2> QED
    BY <1>3, <1>6, <1>7, <2>0, <2>1, <2>2, <2>3
<1> QED
  BY <1>11, <1>12, <1>13, <1>14, <1>15, <1>16, <1>17, <1>18, <1>19, <1>20, <1>21,
     <1>22, <1>23, <1>24, <1>25 DEF TurnStep

(* A step that leaves the lanes alone and moves only calls that hold no    *)
(* turn and no place in a queue.                                           *)
LEMMA QuietFrame ==
  ASSUME IInv, TypeOK', UNCHANGED <<lanes, lane>>, UNCHANGED vaultVars,
         \A u \in Tasks :
           \/ pc'[u] = pc[u] /\ job'[u] = job[u]
           \/ pc[u] \notin Running \cup {"queued"} /\ pc'[u] \in {"done", "joined"}
  PROVE  IInv'
<1> USE DEF IInv
<1>1. \A u \in Tasks : pc[u] = "queued" \/ pc'[u] \in Running => pc'[u] = pc[u] /\ job'[u] = job[u]
  BY DEF Running, MutationTurn
<1>2. QueueInv'
  <2> SUFFICES ASSUME NEW m \in LaneIds PROVE
        /\ lane[m].queue # <<>> =>
             lane[m].account \in Accounts /\ lanes[lane[m].account] = m
        /\ \A i \in DOMAIN lane[m].queue :
             LET t == lane[m].queue[i] IN
             /\ pc'[t] = "queued" /\ job'[t].kind \in Kinds
             /\ job'[t].lane = m /\ job'[t].account = lane[m].account
        /\ \A i, j \in DOMAIN lane[m].queue :
             lane[m].queue[i] = lane[m].queue[j] => i = j
    BY DEF QueueInv
  <2>1. ASSUME NEW i \in DOMAIN lane[m].queue
        PROVE  lane[m].queue[i] \in Tasks
    BY LaneFields
  <2> QED
    BY <1>1, <2>1 DEF QueueInv
<1>3. TurnInv'
  BY <1>1 DEF TurnInv, HoldsTurn
<1>4. MarkerInv'
  <2> SUFFICES ASSUME NEW u \in Tasks PROVE MarkerAt(u)'
    BY DEF MarkerInv
  <2>1. CASE pc'[u] = pc[u] /\ job'[u] = job[u]
    BY <2>1, MarkerKept DEF MarkerInv, vaultVars
  <2>2. CASE pc'[u] \in {"done", "joined"}
    BY <2>2, MarkerFree
  <2> QED
    BY <2>1, <2>2
<1> QED
  BY <1>2, <1>3, <1>4 DEF MapInv, KnowledgeInv, KnowsOf, WriteAhead, vaultVars

(* The drain loop: the settled entry leaves its turn, the head takes it.   *)
LEMMA DrainSafe ==
  ASSUME IInv, TypeOK', NEW l \in LaneIds, NEW r \in LaneRec, NEW settled,
         DrainOn(l, r, settled), UNCHANGED <<job, vaultVars>>,
         r.account = lane[l].account, r.queue = lane[l].queue, r.active = NoTask,
         r.dirtyLoaded = lane[l].dirtyLoaded, r.needsReconcile = lane[l].needsReconcile,
         \A u \in Tasks : u \in settled => pc[u] = "returning",
         \A u \in Tasks : lane[l].active = u => pc[u] \notin Running \/ u \in settled
  PROVE  IInv'
<1> USE DEF IInv
<1>1. CASE r.queue = <<>>
  <2> DEFINE s == [r EXCEPT !.draining = FALSE]
  <2>1. /\ s \in LaneRec /\ s.account = r.account /\ s.active = r.active
        /\ s.queue = r.queue /\ s.dirtyLoaded = r.dirtyLoaded
        /\ s.needsReconcile = r.needsReconcile
    BY DEF LaneRec
  <2>2. ReleaseIfIdle(l, r) => ReleaseIfIdle(l, s)
    <3>1. /\ s.dirtyLoad = r.dirtyLoad /\ s.activeSync = r.activeSync
          /\ s.tailSync = r.tailSync /\ s.retireOnIdle = r.retireOnIdle
          /\ s.terminal = r.terminal /\ s.suspended = r.suspended
      BY DEF LaneRec
    <3> HIDE DEF s
    <3>2. Deletable(l, r) = Deletable(l, s)
      BY <2>1, <3>1 DEF Deletable
    <3> QED
      BY <2>1, <3>2 DEF ReleaseIfIdle
  <2>3. lane' = [lane EXCEPT ![l] = s] /\ ReleaseIfIdle(l, s)
    BY <1>1, <2>2 DEF DrainOn
  <2>4. \A u \in Tasks : pc'[u] = IF u \in settled THEN "done" ELSE pc[u]
    BY <1>1 DEF DrainOn
  <2> HIDE DEF s
  <2>5. \A u \in Tasks : pc'[u] \in Running => pc[u] \in Running /\ u \notin settled
    BY <2>4 DEF Running, MutationTurn
  <2>6. \A u \in Tasks : pc[u] = "queued" => pc'[u] = "queued"
    BY <2>4
  <2>7. LaneRewritten(l, s)
    BY <1>1, <2>1, <2>3, <2>5, <2>6 DEF LaneRewritten
  <2> QED
    BY <2>1, <2>4, <2>7, RewriteFrame DEF vaultVars
<1>2. CASE r.queue # <<>>
  <2> DEFINE h == Head(r.queue)
             q == lane[l].queue
  <2>1. q \in Seq(Tasks) /\ q # <<>> /\ h = q[1] /\ 1 \in DOMAIN q /\ h \in Tasks
    BY <1>2, LaneFields
  <2>2. /\ pc[h] = "queued" /\ job[h].kind \in Kinds /\ job[h].lane = l
        /\ job[h].account = lane[l].account /\ lane[l].account \in Accounts
        /\ lanes[lane[l].account] = l
    BY <2>1 DEF QueueInv
  <2> DEFINE s == TurnStarted(r)
  <2>3. /\ s \in LaneRec /\ s.account = lane[l].account /\ s.active = h
        /\ s.queue = Tail(q) /\ s.dirtyLoaded = lane[l].dirtyLoaded
        /\ s.needsReconcile = lane[l].needsReconcile
    <3>1. s \in LaneRec
      BY <1>2, TurnStartedType
    <3> QED
      BY <3>1 DEF TurnStarted, LaneRec
  <2>4. /\ lane' = [lane EXCEPT ![l] = s] /\ lanes' = lanes
        /\ pc' = [t \in Tasks |-> IF t \in settled THEN "done"
                                  ELSE IF t = h THEN FirstPosition(r)
                                  ELSE pc[t]]
    BY <1>2 DEF DrainOn
  <2> HIDE DEF s
  <2>5. lane'[l] = s /\ \A m \in LaneIds : m # l => lane'[m] = lane[m]
    BY <2>4 DEF TypeOK
  <2>6. h \notin settled
    BY <2>1, <2>2
  <2>7. /\ pc'[h] = FirstPosition(r)
        /\ \A u \in Tasks : u # h => pc'[u] = pc[u] \/ (u \in settled /\ pc'[u] = "done")
        /\ \A u \in Tasks : u \notin settled /\ u # h => pc'[u] = pc[u]
        /\ \A u \in Tasks : u \in settled => pc'[u] = "done"
    BY <2>1, <2>4, <2>6
  <2>8. MapInv'
    BY <2>3, <2>4, <2>5 DEF MapInv, TypeOK
  <2>9. QueueInv'
    <3> SUFFICES ASSUME NEW m \in LaneIds PROVE
          /\ lane'[m].queue # <<>> =>
               lane'[m].account \in Accounts /\ lanes'[lane'[m].account] = m
          /\ \A i \in DOMAIN lane'[m].queue :
               LET t == lane'[m].queue[i] IN
               /\ pc'[t] = "queued" /\ job'[t].kind \in Kinds
               /\ job'[t].lane = m /\ job'[t].account = lane'[m].account
          /\ \A i, j \in DOMAIN lane'[m].queue :
               lane'[m].queue[i] = lane'[m].queue[j] => i = j
      BY DEF QueueInv
    <3>1. CASE m # l
      <4>1. lane'[m] = lane[m]
        BY <2>5, <3>1
      <4>2. ASSUME NEW i \in DOMAIN lane[m].queue
            PROVE  pc'[lane[m].queue[i]] = "queued"
        <5> DEFINE u == lane[m].queue[i]
        <5>1. u \in Tasks /\ pc[u] = "queued" /\ job[u].lane = m
          BY LaneFields DEF QueueInv
        <5>2. u # h /\ u \notin settled
          BY <2>2, <3>1, <5>1
        <5> QED
          BY <2>7, <5>1, <5>2
      <4> QED
        BY <2>4, <4>1, <4>2 DEF QueueInv
    <3>2. CASE m = l
      <4>1. lane'[m].queue = Tail(q) /\ lane'[m].account = lane[l].account
        BY <2>3, <2>5, <3>2
      <4>2. ASSUME NEW i \in DOMAIN Tail(q)
            PROVE  i + 1 \in DOMAIN q /\ Tail(q)[i] = q[i + 1] /\ i + 1 # 1 /\ i \in Nat
        BY <2>1
      <4>3. ASSUME NEW i \in DOMAIN Tail(q)
            PROVE  /\ pc'[Tail(q)[i]] = "queued" /\ job[Tail(q)[i]].kind \in Kinds
                   /\ job[Tail(q)[i]].lane = l /\ job[Tail(q)[i]].account = lane[l].account
        <5> DEFINE u == q[i + 1]
        <5>1. i + 1 \in DOMAIN q /\ Tail(q)[i] = u /\ i + 1 # 1
          BY <4>2
        <5>2. /\ u \in Tasks /\ pc[u] = "queued" /\ job[u].lane = l
              /\ job[u].account = lane[l].account /\ job[u].kind \in Kinds
          BY <5>1, <2>1 DEF QueueInv
        <5>3. u # h
          BY <2>1, <5>1 DEF QueueInv
        <5>4. u \notin settled
          BY <5>2
        <5>5. pc'[u] = "queued"
          BY <2>7, <5>2, <5>3, <5>4
        <5> QED
          BY <5>1, <5>2, <5>5
      <4>4. ASSUME NEW i \in DOMAIN Tail(q), NEW j \in DOMAIN Tail(q),
                   Tail(q)[i] = Tail(q)[j]
            PROVE  i = j
        <5>1. /\ i + 1 \in DOMAIN q /\ j + 1 \in DOMAIN q /\ q[i + 1] = q[j + 1]
              /\ i \in Nat /\ j \in Nat
          BY <4>2, <4>4
        <5>2. i + 1 = j + 1
          BY <5>1 DEF QueueInv
        <5> QED
          BY <5>1, <5>2
      <4> HIDE DEF q
      <4>5. job' = job /\ lanes'[lane[l].account] = l
        BY <2>2, <2>4
      <4> QED
        BY <2>2, <3>2, <4>1, <4>3, <4>4, <4>5
    <3> QED
      BY <3>1, <3>2
  <2>10. TurnInv'
    <3> SUFFICES ASSUME NEW t \in Tasks, pc'[t] \in Running PROVE HoldsTurn(t)'
      BY DEF TurnInv
    <3>1. CASE t = h
      BY <2>2, <2>3, <2>4, <2>5, <3>1 DEF HoldsTurn
    <3>2. CASE t # h
      <4>1. pc[t] \in Running /\ t \notin settled /\ HoldsTurn(t)
        BY <2>7, <3>2 DEF Running, MutationTurn, TurnInv
      <4>2. job[t].lane # l
        BY <4>1 DEF HoldsTurn
      <4> QED
        BY <2>4, <2>5, <4>1, <4>2 DEF HoldsTurn
    <3> QED
      BY <3>1, <3>2
  <2>11. MarkerInv'
    <3> SUFFICES ASSUME NEW u \in Tasks PROVE MarkerAt(u)'
      BY DEF MarkerInv
    <3>1. CASE u = h
      <4>1. h \notin out \cup landed
        BY <2>1, <2>2 DEF MarkerInv, MarkerAt, Unissued
      <4>2. /\ FirstPosition(r) \in {"returning", "syncing", "preflight", "loaded", "awaiting"}
            /\ FirstPosition(r) = "loaded" => r.dirtyLoaded
        BY DEF FirstPosition
      <4> QED
        BY <2>2, <2>3, <2>5, <2>7, <3>1, <4>1, <4>2 DEF MarkerAt, Unissued, Covered, vaultVars
    <3>2. CASE u # h /\ pc'[u] = "done"
      BY <3>2, MarkerFree
    <3>3. CASE u # h /\ pc'[u] = pc[u]
      <4>1. pc[u] \in Running => job[u].lane \in LaneIds
        BY DEF TurnInv, HoldsTurn
      <4>2. MarkerAt(u)
        BY DEF MarkerInv
      <4> QED
        BY <2>3, <2>5, <3>3, <4>1, <4>2, MarkerKept DEF vaultVars
    <3> QED
      BY <2>7, <3>1, <3>2, <3>3
  <2>12. KnowledgeInv'
    <3> SUFFICES ASSUME NEW a \in Accounts PROVE KnowsOf(a)'
      BY DEF KnowledgeInv
    <3>1. lanes[a] # NoLane => lanes[a] \in LaneIds
      BY DEF TypeOK
    <3>2. KnowsOf(a)
      BY DEF KnowledgeInv
    <3> QED
      BY <2>3, <2>4, <2>5, <3>1, <3>2 DEF KnowsOf, vaultVars
  <2>13. WriteAhead'
    BY DEF WriteAhead, vaultVars
  <2> QED
    BY <2>8, <2>9, <2>10, <2>11, <2>12, <2>13
<1> QED
  BY <1>1, <1>2

LEMMA LaneSafe ==
  ASSUME IInv, NEW l \in LaneIds, LaneStep(l)
  PROVE  IInv'
<1>1. TypeOK /\ TypeOK' /\ lane[l] \in LaneRec
  BY LaneType, LaneFields DEF IInv
<1>2. CASE DrainStart(l)
  BY <1>1, <1>2, DrainSafe, NoneAssumption DEF DrainStart
<1>3. CASE DrainNext(l)
  <2> DEFINE r == [lane[l] EXCEPT !.active = NoTask]
  <2>1. /\ r \in LaneRec /\ r.account = lane[l].account /\ r.active = NoTask
        /\ r.queue = lane[l].queue /\ r.dirtyLoaded = lane[l].dirtyLoaded
        /\ r.needsReconcile = lane[l].needsReconcile
    BY <1>1 DEF LaneRec
  <2>2. DrainOn(l, r, {lane[l].active}) /\ pc[lane[l].active] = "returning"
    BY <1>3 DEF DrainNext
  <2>3. UNCHANGED <<job, vaultVars>>
    BY <1>3 DEF DrainNext
  <2> HIDE DEF r
  <2> QED
    BY <1>1, <2>1, <2>2, <2>3, DrainSafe
<1>4. ASSUME NEW ok \in BOOLEAN, LoadSettles(l, ok)
      PROVE  IInv'
  <2>1. PICK r \in LaneRec :
           /\ lane' = [lane EXCEPT ![l] = r] /\ ReleaseIfIdle(l, r)
           /\ r.account = lane[l].account /\ r.active = lane[l].active
           /\ r.queue = lane[l].queue
           /\ r.dirtyLoaded = (ok \/ lane[l].dirtyLoaded)
           /\ r.needsReconcile = (lane[l].needsReconcile
                                     \/ (ok /\ lane[l].account \in durable))
    BY <1>1, <1>4, LoadEffect
  <2>2. /\ lane[l].dirtyLoaded => r.dirtyLoaded
        /\ lane[l].needsReconcile => r.needsReconcile
        /\ ~ok => (r.dirtyLoaded => lane[l].dirtyLoaded)
        /\ ok => r.dirtyLoaded /\ (lane[l].account \in durable => r.needsReconcile)
    BY <2>1
  <2>3. job' = job /\ UNCHANGED vaultVars
    BY <1>4 DEF LoadSettles
  <2>4. \A u \in Tasks :
           \/ pc'[u] = pc[u]
           \/ pc[u] = "querying" /\ pc'[u] = "done"
           \/ pc[u] = "awaiting" /\ pc'[u] = "returning"
           \/ pc[u] = "awaiting" /\ pc'[u] = "loaded" /\ job[u].lane = l /\ ok
    BY <1>4 DEF LoadSettles
  <2>5. \A u \in Tasks : pc'[u] \in Running => pc[u] \in Running
    BY <2>4 DEF Running, MutationTurn
  <2>6. \A u \in Tasks : pc[u] = "queued" => pc'[u] = "queued"
    BY <2>4
  <2>7. LaneRewritten(l, r)
    BY <2>1, <2>3, <2>5, <2>6 DEF LaneRewritten
  <2>8. \/ r.dirtyLoaded => lane[l].dirtyLoaded
        \/ r.account \in Accounts /\ unseen[r.account] # {} => r.needsReconcile
    BY <2>1, <2>2 DEF IInv, WriteAhead
  <2>9. \A u \in Tasks :
           \/ pc'[u] = pc[u]
           \/ pc'[u] \in {"done", "returning"}
           \/ pc[u] = "awaiting" /\ pc'[u] = "loaded" /\ job[u].lane = l /\ r.dirtyLoaded
    BY <2>2, <2>4
  <2> QED
    BY <1>1, <2>1, <2>2, <2>3, <2>7, <2>8, <2>9, RewriteFrame
<1> QED
  BY <1>2, <1>3, <1>4 DEF LaneStep

(* A call that enters the queue of the lane of its account, or waits for   *)
(* the marker load of that lane; the lane may be a fresh one.              *)
LEMMA AdmittedSafe ==
  ASSUME IInv, TypeOK', NEW t \in Tasks, pc[t] = "idle", NEW a \in Accounts,
         NEW l \in LanesFor(a), NEW r, r = FieldsFor(a, l),
         NEW e \in LaneRec, NEW j, NEW p \in {"queued", "querying"},
         lane' = [lane EXCEPT ![l] = e], lanes' = [lanes EXCEPT ![a] = l],
         job' = [job EXCEPT ![t] = j], pc' = [pc EXCEPT ![t] = p],
         UNCHANGED vaultVars,
         e.account = r.account, e.active = r.active,
         e.dirtyLoaded = r.dirtyLoaded, e.needsReconcile = r.needsReconcile,
         \/ p = "querying" /\ e.queue = r.queue
         \/ /\ p = "queued" /\ e.queue = Append(r.queue, t)
            /\ j.kind \in Kinds /\ j.lane = l /\ j.account = a
  PROVE  IInv'
<1> USE DEF IInv
<1>1. /\ l \in LaneIds /\ r \in LaneRec /\ r.account = a
      /\ lanes[a] # NoLane => l = lanes[a] /\ r = lane[l]
      /\ lanes[a] = NoLane => Unused(l) /\ r = NewLane(a)
  <2>1. l \in LaneIds /\ r \in LaneRec
    BY LanesForType
  <2> QED
    BY <2>1, LanesForCases DEF FieldsFor, MapInv, NewLane
<1>2. \A b \in Accounts : b # a => lanes[b] # l
  BY <1>1, OwnLane DEF Unused
<1>3. ASSUME NEW u \in Tasks, pc[u] \in Running \cup {"queued"}, job[u].lane = l
      PROVE  lanes[a] = l /\ r = lane[l]
  <2>1. lanes[a] # NoLane
    BY <1>1, <1>3 DEF Unused, Running, MutationTurn
  <2> QED
    BY <1>1, <2>1
<1>4. /\ \A u \in Tasks : u # t => pc'[u] = pc[u] /\ job'[u] = job[u]
      /\ pc'[t] = p /\ job'[t] = j /\ lane'[l] = e /\ lanes'[a] = l
      /\ \A m \in LaneIds : m # l => lane'[m] = lane[m]
      /\ \A b \in Accounts : b # a => lanes'[b] = lanes[b]
  BY <1>1 DEF TypeOK
<1>5. MapInv'
  BY <1>1, <1>2, <1>4 DEF MapInv, TypeOK
<1>6. ASSUME NEW i \in DOMAIN r.queue
      PROVE  /\ r.queue[i] \in Tasks /\ r.queue[i] # t /\ pc[r.queue[i]] = "queued"
             /\ job[r.queue[i]].kind \in Kinds /\ job[r.queue[i]].lane = l
             /\ job[r.queue[i]].account = a
  <2>1. CASE lanes[a] = NoLane
    BY <1>1, <1>6, <2>1 DEF NewLane
  <2>2. CASE lanes[a] # NoLane
    BY <1>1, <1>6, <2>2, LaneFields DEF QueueInv
  <2> QED
    BY <2>1, <2>2
<1>7. \A i, k \in DOMAIN r.queue : r.queue[i] = r.queue[k] => i = k
  <2>1. CASE lanes[a] = NoLane
    BY <1>1, <2>1 DEF NewLane
  <2>2. CASE lanes[a] # NoLane
    BY <1>1, <2>2 DEF QueueInv
  <2> QED
    BY <2>1, <2>2
<1>8. r.queue \in Seq(Tasks)
  BY <1>1 DEF LaneRec
<1>9. ASSUME NEW i \in DOMAIN e.queue
      PROVE  /\ pc'[e.queue[i]] = "queued" /\ job'[e.queue[i]].kind \in Kinds
             /\ job'[e.queue[i]].lane = l /\ job'[e.queue[i]].account = a
  <2>1. CASE i \in DOMAIN r.queue
    <3>1. e.queue[i] = r.queue[i]
      <4>1. CASE e.queue = r.queue
        BY <4>1
      <4>2. CASE e.queue = Append(r.queue, t)
        BY <1>8, <2>1, <4>2
      <4> QED
        BY <4>1, <4>2
    <3> QED
      BY <1>4, <1>6, <2>1, <3>1
  <2>2. CASE i \notin DOMAIN r.queue
    <3>1. p = "queued" /\ e.queue = Append(r.queue, t)
      BY <1>9, <2>2
    <3>2. e.queue[i] = t
      BY <1>8, <1>9, <2>2, <3>1
    <3> QED
      BY <1>4, <3>1, <3>2
  <2> QED
    BY <2>1, <2>2
<1>10. ASSUME NEW i \in DOMAIN e.queue, NEW k \in DOMAIN e.queue, e.queue[i] = e.queue[k]
       PROVE  i = k
  <2>1. CASE e.queue = r.queue
    BY <1>7, <1>10, <2>1
  <2>2. CASE e.queue = Append(r.queue, t)
    BY <1>6, <1>7, <1>8, <1>10, <2>2
  <2> QED
    BY <2>1, <2>2
<1>11. QueueInv'
  <2> SUFFICES ASSUME NEW m \in LaneIds PROVE
        /\ lane'[m].queue # <<>> =>
             lane'[m].account \in Accounts /\ lanes'[lane'[m].account] = m
        /\ \A i \in DOMAIN lane'[m].queue :
             LET u == lane'[m].queue[i] IN
             /\ pc'[u] = "queued" /\ job'[u].kind \in Kinds
             /\ job'[u].lane = m /\ job'[u].account = lane'[m].account
        /\ \A i, k \in DOMAIN lane'[m].queue :
             lane'[m].queue[i] = lane'[m].queue[k] => i = k
    BY DEF QueueInv
  <2>1. CASE m = l
    BY <1>1, <1>4, <1>9, <1>10, <2>1
  <2>2. CASE m # l
    <3>1. lane'[m] = lane[m]
      BY <1>4, <2>2
    <3>2. ASSUME lane[m].queue # <<>>
          PROVE  lane[m].account \in Accounts /\ lanes'[lane[m].account] = m
      <4>1. lane[m].account \in Accounts /\ lanes[lane[m].account] = m
        BY <3>2 DEF QueueInv
      <4>2. lane[m].account # a
        BY <1>1, <2>2, <4>1, NoneAssumption
      <4> QED
        BY <1>4, <4>1, <4>2
    <3>3. \A i \in DOMAIN lane[m].queue : lane[m].queue[i] \in Tasks /\ lane[m].queue[i] # t
      BY LaneFields DEF QueueInv
    <3> QED
      BY <1>4, <3>1, <3>2, <3>3 DEF QueueInv
  <2> QED
    BY <2>1, <2>2
<1>12. ASSUME NEW u \in Tasks, pc'[u] \in Running
       PROVE  /\ u # t /\ pc[u] \in Running /\ HoldsTurn(u)
              /\ job[u].lane = l => r = lane[l]
  <2>1. u # t /\ pc[u] \in Running
    BY <1>4, <1>12 DEF Running, MutationTurn
  <2> QED
    BY <1>3, <2>1 DEF TurnInv
<1>13. TurnInv'
  <2> SUFFICES ASSUME NEW u \in Tasks, pc'[u] \in Running PROVE HoldsTurn(u)'
    BY DEF TurnInv
  <2>1. u # t /\ HoldsTurn(u) /\ (job[u].lane = l => r = lane[l])
    BY <1>12
  <2>2. lanes'[job[u].account] = job[u].lane
    BY <1>1, <1>4, <2>1, NoneAssumption DEF HoldsTurn
  <2> QED
    BY <1>4, <2>1, <2>2 DEF HoldsTurn
<1>14. MarkerInv'
  <2> SUFFICES ASSUME NEW u \in Tasks PROVE MarkerAt(u)'
    BY DEF MarkerInv
  <2>1. MarkerAt(u)
    BY DEF MarkerInv
  <2>2. CASE u = t
    BY <1>4, <2>1, <2>2 DEF MarkerAt, Unissued, Covered, vaultVars
  <2>3. CASE u # t
    BY <1>4, <1>12, <2>1, <2>3, MarkerKept DEF HoldsTurn, vaultVars
  <2> QED
    BY <2>2, <2>3
<1>15. KnowledgeInv'
  <2> SUFFICES ASSUME NEW b \in Accounts PROVE KnowsOf(b)'
    BY DEF KnowledgeInv
  <2>1. KnowsOf(b)
    BY DEF KnowledgeInv
  <2>2. CASE b = a
    <3>1. CASE lanes[a] = NoLane
      <4>1. ~e.dirtyLoaded
        BY <1>1, <3>1 DEF NewLane
      <4> QED
        BY <1>4, <2>2, <4>1 DEF KnowsOf
    <3>2. CASE lanes[a] # NoLane
      <4>1. lanes[b] = l /\ lane[l] = r /\ lanes'[b] = l /\ lane'[l] = e /\ unseen' = unseen
        BY <1>1, <1>4, <2>2, <3>2 DEF vaultVars
      <4>2. (unseen[b] # {} /\ e.dirtyLoaded) => e.needsReconcile
        BY <2>1, <3>2, <2>2, <4>1 DEF KnowsOf
      <4> QED
        BY <4>1, <4>2 DEF KnowsOf
    <3> QED
      BY <3>1, <3>2
  <2>3. CASE b # a
    <3>1. lanes'[b] = lanes[b] /\ lanes[b] # l /\ lanes[b] \in LaneIds \cup {NoLane}
      BY <1>2, <1>4, <2>3 DEF TypeOK
    <3> QED
      BY <1>4, <2>1, <3>1 DEF KnowsOf, vaultVars
  <2> QED
    BY <2>2, <2>3
<1> QED
  BY <1>5, <1>11, <1>13, <1>14, <1>15 DEF WriteAhead, vaultVars

LEMMA CallSafe ==
  ASSUME IInv, NEW t \in Tasks, Call(t)
  PROVE  IInv'
<1>1. TypeOK /\ TypeOK'
  BY CallType DEF IInv
<1>2. pc[t] = "idle" => pc[t] \notin Running \cup {"queued"}
  BY DEF Running, MutationTurn
<1>3. ASSUME NEW a \in Accounts, NEW k \in Kinds,
             NEW policy \in {"none", "coalesce", "force"}, Refuse(t, k, a, policy)
      PROVE  IInv'
  <2>1. pc[t] = "idle" /\ UNCHANGED <<lanes, lane, job, vaultVars>>
    BY <1>3 DEF Refuse, laneVars
  <2>2. pc' = [pc EXCEPT ![t] = "done"]
    BY <1>3 DEF Refuse, Answer
  <2> QED
    BY <1>1, <1>2, <2>1, <2>2, QuietFrame DEF TypeOK
<1>4. ASSUME NEW a \in Accounts, NEW policy \in {"coalesce", "force"}, JoinSync(t, a, policy)
      PROVE  IInv'
  <2>1. pc[t] = "idle" /\ UNCHANGED <<lanes, lane, vaultVars>>
        /\ pc' = [pc EXCEPT ![t] = "joined"]
    BY <1>4 DEF JoinSync, laneVars
  <2>2. \A u \in Tasks : u # t => job'[u] = job[u]
    BY <1>1, <1>4 DEF JoinSync, TypeOK
  <2> QED
    BY <1>1, <1>2, <2>1, <2>2, QuietFrame DEF TypeOK
<1>5. ASSUME NEW a \in Accounts, NEW k \in Kinds,
             NEW policy \in {"none", "coalesce", "force"}, Enqueue(t, k, a, policy)
      PROVE  IInv'
  <2>1. PICK l \in LanesFor(a) :
          LET r == FieldsFor(a, l) IN
          /\ lanes' = [lanes EXCEPT ![a] = l]
          /\ lane' = [lane EXCEPT ![l] =
                       [r EXCEPT !.queue = Append(@, t), !.draining = TRUE,
                                 !.tailSync = TailAfter(k, t, r)]]
          /\ job' = [job EXCEPT ![t] =
                      Entry(k, a, l, r.epoch, gate.generation, policy, NoTask)]
    BY <1>5 DEF Enqueue
  <2> DEFINE r == FieldsFor(a, l)
             e == [r EXCEPT !.queue = Append(@, t), !.draining = TRUE,
                            !.tailSync = TailAfter(k, t, r)]
             j == Entry(k, a, l, r.epoch, gate.generation, policy, NoTask)
  <2>2. l \in LaneIds /\ r \in LaneRec
    BY <1>1, <2>1, LanesForType
  <2>3. e \in LaneRec
    <3>1. r.queue \in Seq(Tasks)
      BY <2>2 DEF LaneRec
    <3>2. Append(r.queue, t) \in Seq(Tasks)
      BY <3>1
    <3>3. TailAfter(k, t, r) \in Tasks \cup {NoTask}
      BY DEF TailAfter
    <3> QED
      BY <2>2, <3>2, <3>3 DEF LaneRec
  <2>4. /\ e.account = r.account /\ e.active = r.active /\ e.queue = Append(r.queue, t)
        /\ e.dirtyLoaded = r.dirtyLoaded /\ e.needsReconcile = r.needsReconcile
    BY <2>2 DEF LaneRec
  <2>5. j.kind \in Kinds /\ j.lane = l /\ j.account = a
    BY DEF Entry
  <2>6. pc[t] = "idle" /\ pc' = [pc EXCEPT ![t] = "queued"] /\ UNCHANGED vaultVars
    BY <1>5 DEF Enqueue
  <2>7. lanes' = [lanes EXCEPT ![a] = l] /\ lane' = [lane EXCEPT ![l] = e]
        /\ job' = [job EXCEPT ![t] = j]
    BY <2>1
  <2> HIDE DEF e, j
  <2> QED
    BY <1>1, <2>3, <2>4, <2>5, <2>6, <2>7, AdmittedSafe
<1>6. ASSUME NEW a \in Accounts, RequiresReconcile(t, a)
      PROVE  IInv'
  <2>1. PICK l \in LanesFor(a) :
          LET r == FieldsFor(a, l) IN
         \/ /\ lanes[a] = NoLane /\ ~HasCapacity(a)
            /\ Answer(t, "rejected")
            /\ UNCHANGED <<laneVars, job>>
         \/ /\ r.dirtyLoaded
            /\ Answer(t, DirtyAnswer(r))
            /\ ReleaseIfIdle(l, r)
            /\ UNCHANGED <<lane, job>>
         \/ /\ lanes[a] # NoLane \/ HasCapacity(a)
            /\ ~r.dirtyLoaded
            /\ pc' = [pc EXCEPT ![t] = "querying"]
            /\ job' = [job EXCEPT ![t] = Entry("query", a, l, 0, 0, "none", NoTask)]
            /\ lanes' = [lanes EXCEPT ![a] = l]
            /\ lane' = [lane EXCEPT ![l] = [r EXCEPT !.dirtyLoad = TRUE]]
            /\ UNCHANGED outcome
    BY <1>6 DEF RequiresReconcile
  <2> DEFINE r == FieldsFor(a, l)
  <2>2. l \in LaneIds /\ r \in LaneRec
    BY <1>1, <2>1, LanesForType
  <2>3. pc[t] = "idle" /\ UNCHANGED vaultVars
    BY <1>6 DEF RequiresReconcile
  <2>4. CASE Answer(t, "rejected") /\ UNCHANGED <<laneVars, job>>
    <3>1. pc' = [pc EXCEPT ![t] = "done"]
      BY <2>4 DEF Answer
    <3> QED
      BY <1>1, <1>2, <2>3, <2>4, <3>1, QuietFrame DEF TypeOK, laneVars
  <2>5. CASE r.dirtyLoaded /\ Answer(t, DirtyAnswer(r)) /\ ReleaseIfIdle(l, r)
             /\ UNCHANGED <<lane, job>>
    <3>1. pc' = [pc EXCEPT ![t] = "done"]
      BY <2>5 DEF Answer
    <3>2. lanes[a] # NoLane
      BY <2>5 DEF FieldsFor, NewLane
    <3>3. r = lane[l]
      BY <2>1, <3>2, LanesForCases DEF FieldsFor
    <3>4. lane' = [lane EXCEPT ![l] = r]
      BY <1>1, <2>2, <2>5, <3>3 DEF TypeOK
    <3>5. \A u \in Tasks : pc'[u] = pc[u] \/ (u = t /\ pc'[u] = "done")
      BY <1>1, <3>1 DEF TypeOK
    <3>6. LaneRewritten(l, r)
      <4>1. \A u \in Tasks : pc'[u] \in Running => pc[u] \in Running
        BY <3>5 DEF Running, MutationTurn
      <4>2. \A u \in Tasks : pc[u] = "queued" => pc'[u] = "queued"
        BY <2>3, <3>5
      <4> QED
        BY <2>5, <3>3, <3>4, <4>1, <4>2 DEF LaneRewritten
    <3> QED
      BY <1>1, <2>2, <2>3, <3>3, <3>5, <3>6, RewriteFrame
  <2>6. CASE /\ pc' = [pc EXCEPT ![t] = "querying"]
             /\ job' = [job EXCEPT ![t] = Entry("query", a, l, 0, 0, "none", NoTask)]
             /\ lanes' = [lanes EXCEPT ![a] = l]
             /\ lane' = [lane EXCEPT ![l] = [r EXCEPT !.dirtyLoad = TRUE]]
    <3> DEFINE e == [r EXCEPT !.dirtyLoad = TRUE]
    <3>1. /\ e \in LaneRec /\ e.account = r.account /\ e.active = r.active
          /\ e.queue = r.queue /\ e.dirtyLoaded = r.dirtyLoaded
          /\ e.needsReconcile = r.needsReconcile
      BY <2>2 DEF LaneRec
    <3>2. lane' = [lane EXCEPT ![l] = e]
      BY <2>6
    <3> HIDE DEF e
    <3> QED
      BY <1>1, <2>3, <2>6, <3>1, <3>2, AdmittedSafe
  <2> QED
    BY <2>1, <2>4, <2>5, <2>6
<1> QED
  BY <1>3, <1>4, <1>5, <1>6 DEF Call

(* Readmission rewrites a lane of the map and may delete it.               *)
LEMMA ReadmitSafe ==
  ASSUME IInv, TypeOK', NEW a \in Accounts, lanes[a] # NoLane, NEW r \in LaneRec,
         Readmit(a, r), UNCHANGED <<pc, job, vaultVars>>,
         r.account = lane[lanes[a]].account, r.active = lane[lanes[a]].active,
         r.queue = lane[lanes[a]].queue, r.dirtyLoaded = lane[lanes[a]].dirtyLoaded,
         r.needsReconcile = lane[lanes[a]].needsReconcile
  PROVE  IInv'
<1>1. lanes[a] \in LaneIds
  BY DEF IInv, TypeOK
<1>2. LaneRewritten(lanes[a], r)
  BY DEF LaneRewritten, Readmit
<1> QED
  BY <1>1, <1>2, RewriteFrame

LEMMA ResumeSafe ==
  ASSUME IInv, TypeOK', NEW a, ResumeAccount(a), UNCHANGED <<pc, job, vaultVars>>
  PROVE  IInv'
<1>1. CASE Resumable(a)
  <2> DEFINE s == lane[lanes[a]]
  <2>1. a \in Accounts /\ lanes[a] # NoLane /\ s \in LaneRec
    BY <1>1 DEF Resumable, Tracked, IInv, TypeOK
  <2>2. Readmit(a, Resumed(s))
    BY <1>1 DEF ResumeAccount
  <2> HIDE DEF s
  <2>3. /\ Resumed(s) \in LaneRec /\ Resumed(s).account = s.account
        /\ Resumed(s).active = s.active /\ Resumed(s).queue = s.queue
        /\ Resumed(s).dirtyLoaded = s.dirtyLoaded
        /\ Resumed(s).needsReconcile = s.needsReconcile
    BY <2>1, ReopenedType
  <2> QED
    BY <2>1, <2>2, <2>3, ReadmitSafe DEF s
<1>2. CASE ~Resumable(a)
  BY <1>2, QuietFrame DEF ResumeAccount, laneVars
<1> QED
  BY <1>1, <1>2

LEMMA AdmissionSafe ==
  ASSUME IInv, TypeOK', NEW reason, NEW old, NEW opens, SettleAdmission(reason, old, opens),
         UNCHANGED <<pc, job, vaultVars>>
  PROVE  IInv'
<1>1. CASE UNCHANGED laneVars
  BY <1>1, QuietFrame DEF laneVars
<1>2. CASE ResumeAccount(gate.account)
  BY <1>2, ResumeSafe
<1>3. CASE Retirable(old) /\ Readmit(old, [lane[lanes[old]] EXCEPT !.retireOnIdle = TRUE])
  <2> DEFINE s == lane[lanes[old]]
             r == [s EXCEPT !.retireOnIdle = TRUE]
  <2>1. old \in Accounts /\ lanes[old] # NoLane /\ s \in LaneRec
    BY <1>3 DEF Retirable, Tracked, IInv, TypeOK
  <2>2. /\ r \in LaneRec /\ r.account = s.account /\ r.active = s.active
        /\ r.queue = s.queue /\ r.dirtyLoaded = s.dirtyLoaded
        /\ r.needsReconcile = s.needsReconcile
    BY <2>1 DEF LaneRec
  <2> QED
    BY <1>3, <2>1, <2>2, ReadmitSafe
<1>4. CASE /\ Resettable(gate.account)
           /\ Readmit(gate.account, Reset(lane[lanes[gate.account]]))
  <2> DEFINE s == lane[lanes[gate.account]]
  <2>1. gate.account \in Accounts /\ lanes[gate.account] # NoLane /\ s \in LaneRec
    BY <1>4 DEF Resettable, Tracked, IInv, TypeOK
  <2>2. Readmit(gate.account, Reset(s))
    BY <1>4
  <2> HIDE DEF s
  <2>3. /\ Reset(s) \in LaneRec /\ Reset(s).account = s.account
        /\ Reset(s).active = s.active /\ Reset(s).queue = s.queue
        /\ Reset(s).dirtyLoaded = s.dirtyLoaded
        /\ Reset(s).needsReconcile = s.needsReconcile
    BY <2>1, ReopenedType
  <2> QED
    BY <2>1, <2>2, <2>3, ReadmitSafe DEF s
<1> QED
  BY <1>1, <1>2, <1>3, <1>4 DEF SettleAdmission

LEMMA EnvironmentSafe ==
  ASSUME IInv, Environment
  PROVE  IInv'
<1>1. TypeOK /\ TurnInv /\ TypeOK'
  BY EnvironmentType DEF IInv
<1>2. ASSUME NEW t \in Tasks, CommitLands(t) PROVE IInv'
  <2>1. /\ UNCHANGED <<lanes, lane, pc, job, durable, unseen, read>>
        /\ out' \cup landed' = out \cup landed
    BY <1>2 DEF CommitLands, laneVars, callVars
  <2>2. MapInv' /\ QueueInv' /\ TurnInv' /\ KnowledgeInv' /\ WriteAhead'
    BY <2>1 DEF IInv, MapInv, QueueInv, TurnInv, HoldsTurn, KnowledgeInv, KnowsOf, WriteAhead
  <2>3. MarkerInv'
    BY <2>1, MarkerKept DEF IInv, MarkerInv
  <2> QED
    BY <1>1, <2>2, <2>3 DEF IInv
<1>3. ASSUME NEW reason \in {"login", "other", "keyRotation"}, TransitionStart(reason)
      PROVE  IInv'
  BY <1>1, <1>3, QuietFrame DEF TransitionStart, laneVars, callVars
<1>4. CASE TransitionInvalidates
  <2>1. CASE ~Tracked(transition.account)
    BY <1>1, <1>4, <2>1, QuietFrame DEF TransitionInvalidates, laneVars
  <2>2. CASE Tracked(transition.account)
    <3> DEFINE l == lanes[transition.account]
    <3>1. l \in LaneIds /\ lane[l] \in LaneRec
      BY <1>1, <2>2 DEF Tracked, TypeOK
    <3>2. InvalidateLane(l, lane[l]) /\ pc' = Cancelled(lane[l]) /\ job' = job
          /\ UNCHANGED vaultVars
      BY <1>4, <2>2 DEF TransitionInvalidates
    <3> HIDE DEF l
    <3> DEFINE r == Invalidated(lane[l])
    <3>3. /\ r \in LaneRec /\ r.account = lane[l].account /\ r.active = lane[l].active
          /\ r.queue = <<>> /\ r.dirtyLoaded = lane[l].dirtyLoaded
          /\ r.needsReconcile = lane[l].needsReconcile
      BY <3>1, InvalidatedType
    <3>4. lane' = [lane EXCEPT ![l] = r] /\ ReleaseIfIdle(l, r)
      BY <3>2 DEF InvalidateLane
    <3> HIDE DEF r
    <3>5. \A u \in Tasks :
            pc'[u] = pc[u] \/ (u \in QueuedIn(lane[l]) /\ pc'[u] = "done")
      BY <3>2 DEF Cancelled
    <3>6. \A u \in Tasks : pc'[u] \in Running => pc[u] \in Running
      BY <3>5 DEF Running, MutationTurn
    <3>7. LaneRewritten(l, r)
      BY <3>2, <3>3, <3>4, <3>5, <3>6 DEF LaneRewritten
    <3> QED
      BY <1>1, <3>1, <3>2, <3>3, <3>5, <3>7, RewriteFrame
  <2> QED
    BY <2>1, <2>2
<1>5. ASSUME NEW a \in Accounts \cup {NoAccount}, NEW opens \in BOOLEAN,
             TransitionSettles(a, opens)
      PROVE  IInv'
  BY <1>1, <1>5, QuietFrame DEF TransitionSettles, laneVars, callVars
<1>6. CASE TransitionAdmits
  BY <1>1, <1>6, AdmissionSafe DEF TransitionAdmits, callVars
<1>7. CASE UnlockSettles
  BY <1>1, <1>7, ResumeSafe DEF UnlockSettles, callVars
<1>8. ASSUME NEW a \in Accounts \cup {NoAccount}, Restart(a) PROVE IInv'
  <2>1. /\ lanes' = [b \in Accounts |-> NoLane]
        /\ lane' = [l \in LaneIds |-> NewLane(NoAccount)]
        /\ pc' = [t \in Tasks |-> IF pc[t] = "idle" THEN "idle" ELSE "done"]
        /\ job' = job /\ UNCHANGED <<durable, out, landed, unseen>>
    BY <1>8 DEF Restart, writeVars
  <2>2. \A t \in Tasks : pc'[t] = "done" \/ (pc'[t] = "idle" /\ pc[t] = "idle")
    BY <2>1
  <2>3. MapInv' /\ KnowledgeInv'
    BY <2>1 DEF MapInv, KnowledgeInv, KnowsOf
  <2>4. \A l \in LaneIds : lane'[l].queue = <<>>
    BY <2>1 DEF NewLane
  <2>5. QueueInv'
    BY <2>4 DEF QueueInv
  <2>6. TurnInv'
    BY <2>2 DEF TurnInv, Running, MutationTurn
  <2>7. MarkerInv'
    BY <2>1, <2>2 DEF IInv, MarkerInv, MarkerAt, Unissued, Covered
  <2>8. WriteAhead'
    BY <2>1 DEF IInv, WriteAhead
  <2> QED
    BY <1>1, <2>3, <2>5, <2>6, <2>7, <2>8 DEF IInv
<1> QED
  BY <1>2, <1>3, <1>4, <1>5, <1>6, <1>7, <1>8 DEF Environment

-----------------------------------------------------------------------------
(* The inductive invariant: it holds initially and every step keeps it.    *)
LEMMA InitSafe ==
  ASSUME Init
  PROVE  IInv
<1>1. TypeOK
  <2>1. lane \in [LaneIds -> LaneRec]
    BY NewLaneType DEF Init
  <2>2. job \in [Tasks -> JobRec]
    <3>1. NoJob \in JobRec
      BY DEF NoJob, Entry, JobRec
    <3> QED
      BY <3>1 DEF Init
  <2>3. /\ pc \in [Tasks -> Positions] /\ outcome \in [Tasks -> Outcomes]
        /\ lanes \in [Accounts -> LaneIds \cup {NoLane}]
    BY DEF Init, Positions, Outcomes
  <2>4. gate \in [generation : Nat, account : Accounts \cup {NoAccount}]
    BY DEF Init
  <2> QED
    BY <2>1, <2>2, <2>3, <2>4 DEF Init, TypeOK, NoTransition
<1>2. MapInv /\ KnowledgeInv /\ WriteAhead
  BY DEF Init, MapInv, KnowledgeInv, KnowsOf, WriteAhead
<1>3. \A l \in LaneIds : lane[l].queue = <<>>
  BY DEF Init, NewLane
<1>4. QueueInv
  BY <1>3 DEF QueueInv
<1>5. TurnInv /\ MarkerInv
  BY DEF Init, TurnInv, MarkerInv, MarkerAt, Unissued, Covered, Running, MutationTurn
<1> QED
  BY <1>1, <1>2, <1>4, <1>5 DEF IInv

LEMMA StepSafe ==
  ASSUME IInv, [Next]_vars
  PROVE  IInv'
<1>1. CASE UNCHANGED vars
  <2>1. UNCHANGED <<lanes, lane, pc, job, outcome, gate, transition, blocked,
                    durable, out, landed, unseen, read, restarts>>
    BY <1>1 DEF vars
  <2> QED
    BY <2>1 DEF IInv, TypeOK, MapInv, QueueInv, TurnInv, HoldsTurn, MarkerInv,
                MarkerAt, Covered, KnowledgeInv, KnowsOf, WriteAhead
<1>2. ASSUME NEW t \in Tasks, Call(t) PROVE IInv'
  BY <1>2, CallSafe
<1>3. ASSUME NEW t \in Tasks, TurnStep(t) PROVE IInv'
  BY <1>3, TurnSafe
<1>4. ASSUME NEW l \in LaneIds, LaneStep(l) PROVE IInv'
  BY <1>4, LaneSafe
<1>5. CASE Environment
  BY <1>5, EnvironmentSafe
<1> QED
  BY <1>1, <1>2, <1>3, <1>4, <1>5 DEF Next

(* Every reachable state satisfies the inductive invariant, of which type  *)
(* correctness is a part (the whole coordinator).                          *)
THEOREM Invariance == Spec => []IInv
  BY InitSafe, StepSafe, PTL DEF Spec

(* Write-ahead: the durable marker covers every write from its issue until *)
(* a copy of the vault that the server sent later is published or the      *)
(* write is ruled out, across failures, late effects, invalidations,       *)
(* deletions and restarts (executeMutation, markDirty, clearDirty).        *)
THEOREM MarkerAhead == Spec => []WriteAhead
<1>1. IInv => WriteAhead
  BY DEF IInv
<1> QED
  BY <1>1, Invariance, PTL

(* No mutation of an account is sent to the server while an earlier one    *)
(* has not been ruled out and no published copy was read after it, whether *)
(* or not it has taken effect (executeMutation, ensureDirtyLoaded).        *)
THEOREM NeverBlind == Spec => []NoBlindWrite
<1>1. IInv => NoBlindWrite
  BY DEF IInv, MarkerInv, MarkerAt, Covered, NoBlindWrite
<1> QED
  BY <1>1, Invariance, PTL

(* At most one call of an account holds a turn, also when its lane was     *)
(* deleted and created anew (drain, deleteLaneIfIdle, getOrCreateLane).    *)
THEOREM SingleTurn == Spec => []OneTurnPerAccount
<1>1. IInv => OneTurnPerAccount
  BY OneTurn DEF IInv, OneTurnPerAccount
<1> QED
  BY <1>1, Invariance, PTL
=============================================================================
