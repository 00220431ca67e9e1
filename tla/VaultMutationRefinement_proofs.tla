-------------------- MODULE VaultMutationRefinement_proofs -------------------
(***************************************************************************)
(* The lanes implement the write-ahead promise, answer honestly and let    *)
(* every account back in: for any number of accounts, calls, lane objects, *)
(* transitions and restarts.                                               *)
(***************************************************************************)
EXTENDS VaultMutationRefinement, VaultMutationCoordinator_proofs

-----------------------------------------------------------------------------
(* What a call has been answered so far, and what that says of the server. *)
HonestAt(t) ==
    /\ pc[t] \notin {"returning", "done"} => outcome[t] = "none"
    /\ pc[t] \in {"syncing", "fetched"} => job[t].kind = "sync"
    /\ pc[t] \in MutationTurn => job[t].kind = "mutation"
    /\ pc[t] \in {"preflight", "terminal"} => job[t].kind = "terminal"
    /\ job[t].kind = "mutation" =>
         /\ pc[t] \in {"reconciling", "refetched", "clearing", "cleared"} => t \in landed
         /\ pc[t] \in {"unmarking", "unmarked"} => t \notin out \cup landed
         /\ outcome[t] \in {"not_committed", "conflict", "cancelled"} => t \notin out \cup landed
         /\ outcome[t] \in {"committed", "committed_unsynced"} => t \in landed

HonestInv == \A t \in Tasks : HonestAt(t)

(* A committed terminal operation whose rotation has not been settled yet. *)
Held(a) ==
    /\ blocked
    /\ transition.phase = "idle" => gate.account = a
    /\ transition.phase # "idle" =>
         transition.account = a /\ transition.reason = "keyRotation"

(* The fields r of lane l while it is in the map, for calls at positions p *)
(* with the captured arguments j: a suspended lane is empty, the tail slot *)
(* is the last call queued, the active slot is the sync that runs, and an  *)
(* idle suspended lane is kept only to bar other calls.                    *)
SyncTurn == {"syncing", "fetched", "clearing", "cleared"}

Fit(l, r, p, j) ==
    /\ r.suspended => r.queue = <<>> /\ r.tailSync = NoTask
    /\ r.tailSync # NoTask =>
         r.queue # <<>> /\ r.tailSync = r.queue[Len(r.queue)]
    /\ r.activeSync # NoTask =>
         r.active = r.activeSync /\ j[r.active].lane = l /\ p[r.active] \in SyncTurn
    /\ r.terminal = "committed_active" =>
         r.active # NoTask /\ j[r.active].lane = l /\ p[r.active] = "terminal"
    /\ r.terminal # "none" => r.suspended
    /\ r.retireOnIdle => r.terminal # "none"
    /\ r.suspended /\ r.active = NoTask /\ ~r.dirtyLoad =>
         r.terminal # "none" /\ ~r.retireOnIdle

FitInv == \A a \in Accounts : lanes[a] # NoLane => Fit(lanes[a], lane[lanes[a]], pc, job)

(* A lane that a committed terminal operation still bars.                  *)
Barring(a) ==
    lanes[a] # NoLane /\ lane[lanes[a]].terminal # "none" /\ ~lane[lanes[a]].retireOnIdle

HeldInv == \A a \in Accounts : Barring(a) => Held(a)

(* A call that waits is in the queue of the lane of its account; a         *)
(* terminal operation under way has its lane.                              *)
WaitsIn(t) ==
    /\ pc[t] = "queued" =>
         /\ job[t].account \in Accounts /\ job[t].lane \in LaneIds
         /\ lanes[job[t].account] = job[t].lane /\ t \in QueuedIn(lane[job[t].lane])
    /\ pc[t] = "terminal" =>
         job[t].lane \in LaneIds /\ lane[job[t].lane].terminal = "committed_active"

WaitInv == \A t \in Tasks : WaitsIn(t)

(* A key rotation keeps the gate shut until its settlement is handled, and *)
(* nothing but a rotation moves while the session is blocked.              *)
RotationInv ==
    transition.phase # "idle" =>
        /\ blocked => transition.reason = "keyRotation"
        /\ transition.reason = "keyRotation" => gate.account = NoAccount

(* While the lease of a committed terminal operation is good, its lane     *)
(* stays suspended; nobody waits with the same lease.                      *)
Bars(t) ==
    /\ job[t].account \in Accounts
    /\ gate.generation = job[t].lease =>
         transition.phase = "idle" /\ Barring(job[t].account)
    /\ \A u \in Tasks : pc[u] = "queued" /\ job[u].account = job[t].account =>
         job[u].lease # job[t].lease

BarrierInv ==
    /\ \A t \in Tasks : job[t].lease <= gate.generation
    /\ \A t \in Tasks : Barred(t) => Bars(t)

AdmitInv == FitInv /\ HeldInv /\ WaitInv /\ RotationInv

AnswerInv == IInv /\ HonestInv /\ AdmitInv /\ BarrierInv

-----------------------------------------------------------------------------
(* Honest answers.                                                         *)

LEMMA HonestKept ==
  ASSUME NEW u \in Tasks, HonestAt(u), job'[u].kind = job[u].kind,
         u \in landed => u \in landed', u \in out' \cup landed' => u \in out \cup landed,
         \/ pc'[u] = pc[u] /\ outcome'[u] = outcome[u]
         \/ pc[u] = "queued" /\ u \notin out \cup landed /\ pc'[u] = "done" /\ outcome'[u] = "cancelled"
  PROVE  HonestAt(u)'
  BY DEF HonestAt, MutationTurn

LEMMA HonestTurn ==
  ASSUME IInv, HonestInv, NEW t \in Tasks, TurnStep(t)
  PROVE  HonestInv'
<1> SUFFICES ASSUME NEW u \in Tasks PROVE HonestAt(u)'
  BY DEF HonestInv
<1>1. TypeOK /\ HonestAt(u) /\ MarkerAt(u)
  BY DEF IInv, HonestInv, MarkerInv
<1>2. pc \in [Tasks -> Positions] /\ outcome \in [Tasks -> Outcomes]
  BY <1>1 DEF TypeOK
<1> USE <1>1, <1>2 DEF HonestAt, MutationTurn, MarkerAt, Unissued, Move, Return
<1>3. ASSUME NEW ok \in BOOLEAN, SyncReturns(t, ok) PROVE HonestAt(u)'
  BY <1>3 DEF SyncReturns, Published
<1>4. ASSUME NEW ok \in BOOLEAN, ReconcileReturns(t, ok) PROVE HonestAt(u)'
  BY <1>4 DEF ReconcileReturns, Published
<1>5. ASSUME NEW ok \in BOOLEAN, ClearReturns(t, ok) PROVE HonestAt(u)'
  BY <1>5 DEF ClearReturns, vaultVars
<1>6. ASSUME NEW ok \in BOOLEAN, UnmarkReturns(t, ok) PROVE HonestAt(u)'
  BY <1>6 DEF UnmarkReturns, vaultVars
<1>7. CASE CheckDirty(t)
  BY <1>7 DEF CheckDirty, vaultVars
<1>8. CASE MarkerWritten(t)
  BY <1>8 DEF MarkerWritten, writeVars
<1>9. CASE MarkFails(t)
  BY <1>9 DEF MarkFails, vaultVars
<1>10. CASE BeginCommit(t)
  BY <1>10 DEF BeginCommit, Issues, writeVars
<1>11. CASE CommitSucceeds(t)
  BY <1>11 DEF CommitSucceeds, vaultVars
<1>12. ASSUME NEW o \in {"not_committed", "conflict", "outcome_unknown"}, CommitFails(t, o)
       PROVE  HonestAt(u)'
  BY <1>12 DEF CommitFails, RuledOut, Unknown, writeVars
<1>13. CASE MarkerCleared(t)
  BY <1>13 DEF MarkerCleared, writeVars
<1>14. CASE CommitTerminal(t)
  <2> DEFINE q == [MyLane(t) EXCEPT !.terminal = "committed_active",
                           !.terminalLease = job[t].lease, !.retireOnIdle = FALSE]
  <2>1. /\ pc' = [Cancelled(MyLane(t)) EXCEPT ![t] = "terminal"] /\ pc[t] = "preflight"
        /\ InvalidateLane(job[t].lane, q) /\ job' = job /\ out' = out /\ landed' = landed
    BY <1>14 DEF CommitTerminal, vaultVars
  <2>2. /\ HoldsTurn(t) /\ MyLane(t) \in LaneRec
        /\ MyLane(t).queue \in Seq(Tasks)
    BY <1>14, TurnHolds DEF IInv, LaneRec
  <2>3. q.queue = MyLane(t).queue
    BY <2>2 DEF LaneRec
  <2> HIDE DEF q
  <2>4. \A v \in Tasks : outcome'[v] = IF v \in QueuedIn(MyLane(t)) THEN "cancelled"
                                       ELSE outcome[v]
    BY <2>1, <2>3 DEF InvalidateLane, QueuedIn
  <2>5. \A v \in Tasks : v # t => pc'[v] = IF v \in QueuedIn(MyLane(t)) THEN "done" ELSE pc[v]
    BY <2>1 DEF Cancelled
  <2>6. pc'[t] = "terminal"
    BY <2>1 DEF Cancelled
  <2>7. \A v \in QueuedIn(MyLane(t)) : pc[v] = "queued"
    BY <2>2 DEF QueuedIn, MyLane, HoldsTurn, IInv, QueueInv
  <2> QED
    BY <2>1, <2>4, <2>5, <2>6, <2>7
<1>15. CASE PreflightFails(t)
  BY <1>15 DEF PreflightFails, vaultVars
<1>16. ASSUME NEW o \in {"ok", "outcome_unknown"}, TerminalReturns(t, o)
       PROVE  HonestAt(u)'
  BY <1>16 DEF TerminalReturns, vaultVars
<1>17. CASE ServerAnswers(t)
  BY <1>17 DEF ServerAnswers, writeVars
<1> QED
  BY <1>17, <1>3, <1>4, <1>5, <1>6, <1>7, <1>8, <1>9, <1>10, <1>11, <1>12, <1>13, <1>14,
     <1>15, <1>16 DEF TurnStep

LEMMA HonestDrain ==
  ASSUME IInv, HonestInv, NEW l \in LaneIds, NEW r, NEW settled,
         DrainOn(l, r, settled), job' = job, out' = out /\ landed' = landed,
         r.queue = lane[l].queue,
         \A u \in Tasks : u \in settled => pc[u] = "returning"
  PROVE  HonestInv'
<1> SUFFICES ASSUME NEW u \in Tasks PROVE HonestAt(u)'
  BY DEF HonestInv
<1>1. TypeOK /\ HonestAt(u) /\ MarkerAt(u)
  BY DEF IInv, HonestInv, MarkerInv
<1>2. CASE r.queue = <<>>
  <2>1. outcome' = outcome /\ pc'[u] = IF u \in settled THEN "done" ELSE pc[u]
    BY <1>2 DEF DrainOn
  <2> QED
    BY <1>1, <2>1 DEF HonestAt, MutationTurn
<1>3. CASE r.queue # <<>>
  <2> DEFINE h == Head(r.queue)
  <2>1. lane[l].queue \in Seq(Tasks)
    BY <1>1, LaneFields
  <2>2. h \in Tasks /\ pc[h] = "queued" /\ job[h].kind \in Kinds
    BY <1>3, <2>1 DEF IInv, QueueInv
  <2>3. /\ outcome' = [outcome EXCEPT ![h] = FirstOutcome(r)]
        /\ pc'[u] = IF u \in settled THEN "done" ELSE IF u = h THEN FirstPosition(r) ELSE pc[u]
    BY <1>3 DEF DrainOn
  <2>4. outcome'[u] = IF u = h THEN FirstOutcome(r) ELSE outcome[u]
    BY <1>1, <2>3 DEF TypeOK
  <2>5. CASE u # h
    BY <1>1, <2>3, <2>4, <2>5 DEF HonestAt, MutationTurn
  <2>6. CASE u = h
    <3>1. /\ pc'[u] = FirstPosition(r) /\ outcome'[u] = FirstOutcome(r)
          /\ u \notin out \cup landed
      BY <1>1, <2>2, <2>3, <2>4, <2>6 DEF MarkerAt, Unissued
    <3> QED
      BY <2>2, <2>6, <3>1 DEF FirstPosition, FirstOutcome, HonestAt, MutationTurn, Kinds
  <2> QED
    BY <2>5, <2>6
<1> QED
  BY <1>2, <1>3

LEMMA HonestLane ==
  ASSUME IInv, HonestInv, NEW l \in LaneIds, LaneStep(l)
  PROVE  HonestInv'
<1>1. CASE DrainStart(l)
  BY <1>1, HonestDrain DEF DrainStart, vaultVars
<1>2. CASE DrainNext(l)
  <2> DEFINE r == [lane[l] EXCEPT !.active = NoTask]
  <2>1. lane[l] \in LaneRec
    BY LaneFields DEF IInv
  <2>2. r.queue = lane[l].queue
    BY <2>1 DEF LaneRec
  <2>3. DrainOn(l, r, {lane[l].active}) /\ pc[lane[l].active] = "returning"
        /\ job' = job /\ out' = out /\ landed' = landed
    BY <1>2 DEF DrainNext, vaultVars
  <2> HIDE DEF r
  <2> QED
    BY <2>2, <2>3, HonestDrain
<1>3. ASSUME NEW ok \in BOOLEAN, LoadSettles(l, ok) PROVE HonestInv'
  <2> SUFFICES ASSUME NEW u \in Tasks PROVE HonestAt(u)'
    BY DEF HonestInv
  <2>1. HonestAt(u) /\ MarkerAt(u)
    BY DEF IInv, HonestInv, MarkerInv
  <2>2. job' = job /\ out' = out /\ landed' = landed
    BY <1>3 DEF LoadSettles, vaultVars
  <2>3. \/ pc'[u] = pc[u] /\ outcome'[u] = outcome[u]
        \/ pc[u] = "querying" /\ pc'[u] = "done" /\ outcome'[u] \in {"dirty", "clean", "rejected"}
        \/ pc[u] = "awaiting" /\ pc'[u] = "loaded" /\ outcome'[u] = outcome[u]
        \/ pc[u] = "awaiting" /\ pc'[u] = "returning" /\ outcome'[u] = "not_committed"
    BY <1>3 DEF LoadSettles, DirtyAnswer
  <2> QED
    BY <2>1, <2>2, <2>3 DEF HonestAt, MutationTurn, MarkerAt, Unissued
<1> QED
  BY <1>1, <1>2, <1>3 DEF LaneStep

LEMMA HonestCall ==
  ASSUME IInv, HonestInv, NEW t \in Tasks, Call(t)
  PROVE  HonestInv'
<1> SUFFICES ASSUME NEW u \in Tasks PROVE HonestAt(u)'
  BY DEF HonestInv
<1>1. TypeOK /\ HonestAt(u) /\ MarkerAt(u)
  BY DEF IInv, HonestInv, MarkerInv
<1>2. pc \in [Tasks -> Positions] /\ outcome \in [Tasks -> Outcomes] /\ job \in [Tasks -> JobRec]
  BY <1>1 DEF TypeOK
<1> USE <1>1, <1>2 DEF HonestAt, MutationTurn, MarkerAt, Unissued, Answer
<1>3. ASSUME NEW a \in Accounts, NEW k \in Kinds,
             NEW policy \in {"none", "coalesce", "force"}, Refuse(t, k, a, policy)
      PROVE  HonestAt(u)'
  BY <1>3 DEF Refuse, vaultVars
<1>4. ASSUME NEW a \in Accounts, NEW k \in Kinds,
             NEW policy \in {"none", "coalesce", "force"}, Enqueue(t, k, a, policy)
      PROVE  HonestAt(u)'
  BY <1>4 DEF Enqueue, vaultVars
<1>5. ASSUME NEW a \in Accounts, NEW policy \in {"coalesce", "force"}, JoinSync(t, a, policy)
      PROVE  HonestAt(u)'
  BY <1>5 DEF JoinSync, vaultVars
<1>6. ASSUME NEW a \in Accounts, RequiresReconcile(t, a) PROVE HonestAt(u)'
  <2>1. /\ pc[t] = "idle" /\ out' = out /\ landed' = landed
        /\ \/ /\ \E o \in {"rejected", "dirty", "clean"} : outcome' = [outcome EXCEPT ![t] = o]
              /\ pc' = [pc EXCEPT ![t] = "done"] /\ job' = job
           \/ /\ pc' = [pc EXCEPT ![t] = "querying"] /\ outcome' = outcome
              /\ \E l \in LaneIds \cup {NoLane} :
                    job' = [job EXCEPT ![t] = Entry("query", a, l, 0, 0, "none", NoTask)]
    BY <1>6, LanesForType DEF RequiresReconcile, vaultVars, DirtyAnswer
  <2> QED
    BY <2>1 DEF Entry
<1> QED
  BY <1>3, <1>4, <1>5, <1>6 DEF Call

LEMMA HonestEnvironment ==
  ASSUME IInv, HonestInv, Environment
  PROVE  HonestInv'
<1> SUFFICES ASSUME NEW u \in Tasks PROVE HonestAt(u)'
  BY DEF HonestInv
<1>1. TypeOK /\ HonestAt(u) /\ MarkerAt(u)
  BY DEF IInv, HonestInv, MarkerInv
<1>2. ASSUME NEW t \in Tasks, CommitLands(t) PROVE HonestAt(u)'
  BY <1>1, <1>2 DEF CommitLands, callVars, HonestAt
<1>3. ASSUME UNCHANGED <<callVars, out, landed>> PROVE HonestAt(u)'
  BY <1>1, <1>3, HonestKept DEF callVars
<1>4. ASSUME NEW reason, TransitionStart(reason) PROVE HonestAt(u)'
  BY <1>3, <1>4 DEF TransitionStart, vaultVars
<1>5. CASE TransitionInvalidates
  <2>1. job' = job /\ out' = out /\ landed' = landed
    BY <1>5 DEF TransitionInvalidates, vaultVars
  <2>2. CASE ~Tracked(transition.account)
    BY <1>1, <1>5, <2>1, <2>2, HonestKept DEF TransitionInvalidates
  <2>3. CASE Tracked(transition.account)
    <3> DEFINE l == lanes[transition.account]
    <3>1. l \in LaneIds /\ lane[l].queue \in Seq(Tasks)
      BY <1>1, <2>3, LaneFields DEF Tracked, TypeOK
    <3>2. InvalidateLane(l, lane[l]) /\ pc' = Cancelled(lane[l])
      BY <1>5, <2>3 DEF TransitionInvalidates
    <3>3. /\ outcome'[u] = IF u \in QueuedIn(lane[l]) THEN "cancelled" ELSE outcome[u]
          /\ pc'[u] = IF u \in QueuedIn(lane[l]) THEN "done" ELSE pc[u]
      BY <3>2 DEF InvalidateLane, Cancelled
    <3>4. u \in QueuedIn(lane[l]) => pc[u] = "queued"
      BY <3>1 DEF QueuedIn, IInv, QueueInv
    <3> QED
      BY <1>1, <2>1, <3>3, <3>4, HonestKept DEF MarkerAt, Unissued
  <2> QED
    BY <2>2, <2>3
<1>6. ASSUME NEW a, NEW opens, TransitionSettles(a, opens) PROVE HonestAt(u)'
  BY <1>3, <1>6 DEF TransitionSettles, vaultVars
<1>7. CASE TransitionAdmits
  BY <1>3, <1>7 DEF TransitionAdmits, vaultVars
<1>8. CASE UnlockSettles
  BY <1>3, <1>8 DEF UnlockSettles, vaultVars
<1>9. ASSUME NEW a, Restart(a) PROVE HonestAt(u)'
  <2>1. /\ pc'[u] = IF pc[u] = "idle" THEN "idle" ELSE "done"
        /\ outcome'[u] = IF pc[u] \in {"idle", "done"} THEN outcome[u] ELSE "lost"
        /\ job' = job /\ out' = out /\ landed' = landed
    BY <1>9 DEF Restart, writeVars
  <2> QED
    BY <1>1, <2>1 DEF HonestAt, MutationTurn
<1> QED
  BY <1>2, <1>4, <1>5, <1>6, <1>7, <1>8, <1>9 DEF Environment

-----------------------------------------------------------------------------
(* The lanes implement the write-ahead promise.  A step that leaves the    *)
(* marker and the writes alone is none of the promise's; what the server   *)
(* sent is not part of it either.                                          *)
LEMMA Stutters ==
  ASSUME durable' = durable, UNCHANGED writeVars
  PROVE  [Abstract!Next]_(Abstract!avars)
  BY DEF Abstract!avars, writeVars

(* A copy that is published follows every unseen write of the account.     *)
LEMMA PublishedRefreshes ==
  ASSUME IInv, NEW t \in Tasks, NEW ok \in BOOLEAN, Published(t, ok),
         job[t].account \in Accounts, MarkerAt(t), ok => pc[t] \in {"fetched", "refetched"}
  PROVE  [Abstract!Next]_(Abstract!avars)
<1>1. CASE ~ok
  BY <1>1, Stutters DEF Published, writeVars
<1>2. CASE ok
  <2>1. PICK a \in Accounts : a = job[t].account
    OBVIOUS
  <2>2. unseen[a] \ read[t] = {}
    BY <1>2, <2>1 DEF MarkerAt
  <2>3. unseen' = [unseen EXCEPT ![a] = {}]
    BY <1>2, <2>1, <2>2 DEF Published
  <2>4. Abstract!Refresh(a)
    BY <1>2, <2>3 DEF Published, Abstract!Refresh
  <2> QED
    BY <2>4 DEF Abstract!Next
<1> QED
  BY <1>1, <1>2

LEMMA TurnImplements ==
  ASSUME IInv, NEW t \in Tasks, TurnStep(t)
  PROVE  [Abstract!Next]_(Abstract!avars)
<1>1. HoldsTurn(t)
  BY TurnHolds DEF IInv
<1>2. PICK a \in Accounts : a = job[t].account
  BY <1>1 DEF HoldsTurn
<1>3. MarkerAt(t) /\ TypeOK
  BY DEF IInv, MarkerInv
<1>4. ASSUME NEW ok \in BOOLEAN, SyncReturns(t, ok)
      PROVE  [Abstract!Next]_(Abstract!avars)
  BY <1>2, <1>3, <1>4, PublishedRefreshes DEF SyncReturns
<1>5. ASSUME NEW ok \in BOOLEAN, ReconcileReturns(t, ok)
      PROVE  [Abstract!Next]_(Abstract!avars)
  BY <1>2, <1>3, <1>5, PublishedRefreshes DEF ReconcileReturns
<1>6. ASSUME UNCHANGED vaultVars PROVE [Abstract!Next]_(Abstract!avars)
  BY <1>6, Stutters DEF vaultVars, writeVars
<1>7. CASE ServerAnswers(t)
  BY <1>7, Stutters DEF ServerAnswers
<1>8. CASE MarkerWritten(t)
  <2>1. Abstract!Mark(a)
    BY <1>2, <1>8 DEF MarkerWritten, writeVars, Abstract!Mark
  <2> QED
    BY <2>1 DEF Abstract!Next
<1>9. CASE BeginCommit(t)
  <2>1. CASE UNCHANGED writeVars
    BY <1>9, <2>1, Stutters DEF BeginCommit
  <2>2. CASE Issues(t)
    <3>1. pc[t] = "marked" /\ durable' = durable
      BY <1>9 DEF BeginCommit
    <3>2. t \notin out \cup landed /\ a \in durable /\ unseen[a] = {}
      BY <1>2, <1>3, <3>1 DEF MarkerAt, Unissued, Covered
    <3>3. unseen' = [unseen EXCEPT ![a] = {t}]
      BY <1>2, <2>2, <3>2 DEF Issues
    <3>4. Abstract!Issue(a, t)
      BY <2>2, <3>1, <3>2, <3>3 DEF Issues, Abstract!Issue
    <3> QED
      BY <3>4 DEF Abstract!Next
  <2> QED
    BY <1>9, <2>1, <2>2 DEF BeginCommit
<1>10. ASSUME NEW o \in {"not_committed", "conflict", "outcome_unknown"}, CommitFails(t, o)
       PROVE  [Abstract!Next]_(Abstract!avars)
  <2>1. CASE UNCHANGED writeVars
    BY <1>10, <2>1, Stutters DEF CommitFails
  <2>2. CASE RuledOut(t)
    <3>1. Abstract!RuleOut(a, t)
      BY <1>2, <1>10, <2>2 DEF CommitFails, RuledOut, Abstract!RuleOut
    <3> QED
      BY <3>1 DEF Abstract!Next
  <2> QED
    BY <1>10, <2>1, <2>2 DEF CommitFails
<1>11. CASE MarkerCleared(t)
  <2>1. unseen[a] = {}
    BY <1>2, <1>3, <1>11 DEF MarkerCleared, MarkerAt, Covered
  <2>2. Abstract!Unmark(a)
    BY <1>2, <1>11, <2>1 DEF MarkerCleared, writeVars, Abstract!Unmark
  <2> QED
    BY <2>2 DEF Abstract!Next
<1> QED
  BY <1>4, <1>5, <1>6, <1>7, <1>8, <1>9, <1>10, <1>11
  DEF TurnStep, ClearReturns, UnmarkReturns, CheckDirty, MarkFails, CommitSucceeds,
      CommitTerminal, PreflightFails, TerminalReturns

(* Every other step leaves the marker and the writes alone, except that a  *)
(* write takes effect: at any time after it was issued.                    *)
LEMMA OthersImplement ==
  ASSUME \/ \E t \in Tasks : Call(t)
         \/ \E l \in LaneIds : LaneStep(l)
         \/ Environment
  PROVE  [Abstract!Next]_(Abstract!avars)
<1>1. ASSUME UNCHANGED vaultVars PROVE [Abstract!Next]_(Abstract!avars)
  BY <1>1, Stutters DEF vaultVars, writeVars
<1>2. ASSUME NEW t \in Tasks, Call(t) PROVE [Abstract!Next]_(Abstract!avars)
  BY <1>1, <1>2 DEF Call, Refuse, Enqueue, JoinSync, RequiresReconcile
<1>3. ASSUME NEW l \in LaneIds, LaneStep(l) PROVE [Abstract!Next]_(Abstract!avars)
  BY <1>1, <1>3 DEF LaneStep, DrainStart, DrainNext, LoadSettles
<1>4. ASSUME NEW t \in Tasks, CommitLands(t) PROVE [Abstract!Next]_(Abstract!avars)
  <2>1. Abstract!Land(t)
    BY <1>4 DEF CommitLands, Abstract!Land
  <2> QED
    BY <2>1 DEF Abstract!Next
<1>5. ASSUME NEW a, Restart(a) PROVE [Abstract!Next]_(Abstract!avars)
  BY <1>5, Stutters DEF Restart
<1>6. CASE Environment
  BY <1>1, <1>4, <1>5, <1>6
  DEF Environment, TransitionStart, TransitionInvalidates, TransitionSettles,
      TransitionAdmits, UnlockSettles
<1> QED
  BY <1>2, <1>3, <1>6

(* Every behaviour of the lanes, with failures, writes that take effect    *)
(* late, invalidations, lane deletions and restarts, is one of the write-  *)
(* ahead promise: marker first, none issued over a write that no published *)
(* copy follows, marker kept until one does (executeMutation, requestSync, *)
(* markDirty, clearDirty).                                                 *)
THEOREM Implements == Spec => ImplementsWriteAhead
<1>1. Init => Abstract!Init
  BY DEF Init, Abstract!Init
<1>2. IInv /\ [Next]_vars => [Abstract!Next]_(Abstract!avars)
  <2> SUFFICES ASSUME IInv, [Next]_vars PROVE [Abstract!Next]_(Abstract!avars)
    OBVIOUS
  <2>1. CASE UNCHANGED vars
    BY <2>1 DEF vars, Abstract!avars
  <2>2. ASSUME NEW t \in Tasks, TurnStep(t) PROVE [Abstract!Next]_(Abstract!avars)
    BY <2>2, TurnImplements
  <2> QED
    BY <2>1, <2>2, OthersImplement DEF Next
<1> QED
  BY <1>1, <1>2, Invariance, PTL DEF Spec, ImplementsWriteAhead, Abstract!Spec

(* The write-ahead promise keeps the durable marker over every issued      *)
(* write until a refresh follows it or it is ruled out, and never has two  *)
(* such writes of one account, for any accounts and writes, although every *)
(* write may take effect at any time after it was issued.                  *)
THEOREM AbstractMarkerCovers == Abstract!Spec => []Abstract!MarkerCovers
<1>1. Abstract!Init => Abstract!MarkerCovers /\ unseen \in [Accounts -> SUBSET Tasks]
  BY DEF Abstract!Init, Abstract!MarkerCovers
<1>2. Abstract!MarkerCovers /\ unseen \in [Accounts -> SUBSET Tasks]
        /\ [Abstract!Next]_(Abstract!avars)
      => (Abstract!MarkerCovers /\ unseen \in [Accounts -> SUBSET Tasks])'
  <2> SUFFICES ASSUME Abstract!MarkerCovers, unseen \in [Accounts -> SUBSET Tasks],
                      [Abstract!Next]_(Abstract!avars)
               PROVE  Abstract!MarkerCovers' /\ unseen' \in [Accounts -> SUBSET Tasks]
    OBVIOUS
  <2> USE DEF Abstract!MarkerCovers
  <2>1. ASSUME NEW a \in Accounts, Abstract!Mark(a)
        PROVE  Abstract!MarkerCovers' /\ unseen' \in [Accounts -> SUBSET Tasks]
    BY <2>1 DEF Abstract!Mark
  <2>2. ASSUME NEW a \in Accounts, Abstract!Unmark(a)
        PROVE  Abstract!MarkerCovers' /\ unseen' \in [Accounts -> SUBSET Tasks]
    BY <2>2 DEF Abstract!Unmark
  <2>3. ASSUME NEW a \in Accounts, NEW w \in Tasks, Abstract!Issue(a, w)
        PROVE  Abstract!MarkerCovers' /\ unseen' \in [Accounts -> SUBSET Tasks]
    BY <2>3 DEF Abstract!Issue
  <2>4. ASSUME NEW w \in Tasks, Abstract!Land(w)
        PROVE  Abstract!MarkerCovers' /\ unseen' \in [Accounts -> SUBSET Tasks]
    BY <2>4 DEF Abstract!Land
  <2>5. ASSUME NEW a \in Accounts, NEW w \in Tasks, Abstract!RuleOut(a, w)
        PROVE  Abstract!MarkerCovers' /\ unseen' \in [Accounts -> SUBSET Tasks]
    BY <2>5 DEF Abstract!RuleOut
  <2>6. ASSUME NEW a \in Accounts, Abstract!Refresh(a)
        PROVE  Abstract!MarkerCovers' /\ unseen' \in [Accounts -> SUBSET Tasks]
    BY <2>6 DEF Abstract!Refresh
  <2>7. CASE UNCHANGED Abstract!avars
    BY <2>7 DEF Abstract!avars
  <2> QED
    BY <2>1, <2>2, <2>3, <2>4, <2>5, <2>6, <2>7 DEF Abstract!Next
<1> QED
  BY <1>1, <1>2, PTL DEF Abstract!Spec

(* So the marker on disk covers every write that was issued and that no    *)
(* published copy of the vault follows, across lost answers and worker     *)
(* restarts (executeMutation).                                             *)
THEOREM MarkerCoversWrites == Spec => []Abstract!MarkerCovers
  BY Implements, AbstractMarkerCovers, PTL DEF ImplementsWriteAhead

-----------------------------------------------------------------------------
(* The lanes in the map.                                                   *)

(* A step that rewrites lane l and may delete it: what becomes of lane l   *)
(* is all there is to check.                                               *)
LEMMA ShapeFrame ==
  ASSUME TypeOK, MapInv, FitInv, HeldInv, WaitInv,
         NEW l \in LaneIds, NEW r, lane' = [lane EXCEPT ![l] = r],
         job' = job, r.account = lane[l].account,
         lanes' = lanes \/ ReleaseIfIdle(l, r),
         \A u \in Tasks : pc'[u] = "queued" =>
           pc[u] = "queued" /\ (job[u].lane = l => u \in QueuedIn(r)),
         \A u \in Tasks : pc'[u] = "terminal" =>
           IF job[u].lane = l THEN r.terminal = "committed_active" ELSE pc[u] = "terminal",
         \A u \in Tasks : pc[u] \in SyncTurn \cup {"terminal"} /\ job[u].lane # l =>
           pc'[u] = pc[u],
         \A b \in Accounts : lanes[b] # l /\ Held(b) => Held(b)',
         \A b \in Accounts : lanes'[b] = l => Fit(l, r, pc', job),
         \A b \in Accounts : lanes'[b] = l /\ r.terminal # "none" /\ ~r.retireOnIdle => Held(b)'
  PROVE  FitInv' /\ HeldInv' /\ WaitInv'
<1>1. lane'[l] = r /\ \A m \in LaneIds : m # l => lane'[m] = lane[m]
  BY DEF TypeOK
<1>2. \A b \in Accounts : lanes'[b] = lanes[b] \/ (lanes'[b] = NoLane /\ lanes[b] = l /\ r.queue = <<>>)
  BY DEF ReleaseIfIdle, Deletable, TypeOK
<1>3. ASSUME NEW b \in Accounts, lanes'[b] # NoLane, lanes'[b] # l
      PROVE  /\ lanes'[b] = lanes[b] /\ lanes[b] \in LaneIds /\ lanes[b] # l
             /\ lane'[lanes[b]] = lane[lanes[b]] /\ lane[lanes[b]] \in LaneRec
             /\ lane[lanes[b]].active \in Tasks \cup {NoTask}
  BY <1>1, <1>2, <1>3 DEF TypeOK, LaneRec
<1>4. ASSUME NEW b \in Accounts, lanes'[b] # NoLane
      PROVE  Fit(lanes'[b], lane'[lanes'[b]], pc', job')
  <2>1. CASE lanes'[b] = l
    BY <1>1, <2>1
  <2>2. CASE lanes'[b] # l
    <3> DEFINE s == lane[lanes[b]]
    <3>1. Fit(lanes[b], s, pc, job)
      BY <1>3, <1>4, <2>2 DEF FitInv
    <3>2. s.active \in Tasks \cup {NoTask} /\ s.activeSync \in Tasks \cup {NoTask}
      BY <1>3, <1>4, <2>2 DEF LaneRec
    <3>3. lanes[b] # l /\ lanes'[b] = lanes[b] /\ lane'[lanes'[b]] = s
      BY <1>3, <1>4, <2>2
    <3> HIDE DEF s
    <3>4. Fit(lanes[b], s, pc', job)
      BY <3>1, <3>2, <3>3 DEF Fit, SyncTurn
    <3> QED
      BY <3>3, <3>4
  <2> QED
    BY <2>1, <2>2
<1>5. FitInv'
  BY <1>4 DEF FitInv
<1>6. HeldInv'
  <2> SUFFICES ASSUME NEW b \in Accounts, lanes'[b] # NoLane,
                      lane'[lanes'[b]].terminal # "none", ~lane'[lanes'[b]].retireOnIdle
               PROVE  Held(b)'
    BY DEF HeldInv, Barring
  <2> QED
    BY <1>1, <1>3 DEF HeldInv, Barring
<1>7. WaitInv'
  <2> SUFFICES ASSUME NEW u \in Tasks PROVE WaitsIn(u)'
    BY DEF WaitInv
  <2>1. WaitsIn(u)
    BY DEF WaitInv
  <2>2. ASSUME pc'[u] = "queued"
        PROVE  /\ job[u].account \in Accounts /\ job[u].lane \in LaneIds
               /\ lanes'[job[u].account] = job[u].lane
               /\ u \in QueuedIn(lane'[job[u].lane])
    <3>1. /\ job[u].account \in Accounts /\ job[u].lane \in LaneIds
          /\ lanes[job[u].account] = job[u].lane /\ u \in QueuedIn(lane[job[u].lane])
      BY <2>1, <2>2 DEF WaitsIn
    <3>2. u \in QueuedIn(lane'[job[u].lane])
      BY <1>1, <2>2, <3>1
    <3>3. job[u].lane = l => r.queue # <<>>
      BY <1>1, <3>2 DEF QueuedIn
    <3>4. lanes'[job[u].account] = job[u].lane
      BY <1>2, <3>1, <3>3
    <3> QED
      BY <3>1, <3>2, <3>4
  <2>3. ASSUME pc'[u] = "terminal"
        PROVE  job[u].lane \in LaneIds /\ lane'[job[u].lane].terminal = "committed_active"
    <3>1. CASE job[u].lane = l
      BY <1>1, <2>3, <3>1
    <3>2. CASE job[u].lane # l
      BY <1>1, <2>1, <2>3, <3>2 DEF WaitsIn
    <3> QED
      BY <3>1, <3>2
  <2> QED
    BY <2>2, <2>3 DEF WaitsIn
<1> QED
  BY <1>5, <1>6, <1>7

(* A step of the turn of t that is no terminal operation: its lane changes *)
(* at most in what it knows and in the slot of the sync that runs.         *)
SameShape(s, r) ==
    /\ s.account = r.account /\ s.suspended = r.suspended /\ s.queue = r.queue
    /\ s.tailSync = r.tailSync /\ s.active = r.active /\ s.terminal = r.terminal
    /\ s.retireOnIdle = r.retireOnIdle /\ s.dirtyLoad = r.dirtyLoad

LEMMA ShapeTurn ==
  ASSUME IInv, FitInv, HeldInv, WaitInv, RotationInv, NEW t \in Tasks, HoldsTurn(t),
         pc[t] \in Running \ {"terminal"},
         NEW p \in Running \ {"terminal"}, pc' = [pc EXCEPT ![t] = p],
         NEW s \in LaneRec, SetLane(t, s), SameShape(s, MyLane(t)),
         UNCHANGED <<lanes, job, gateVars>>,
         \/ s.activeSync = NoTask
         \/ s.activeSync = MyLane(t).activeSync /\ (pc[t] \in SyncTurn => p \in SyncTurn)
  PROVE  FitInv' /\ HeldInv' /\ WaitInv' /\ RotationInv'
<1> DEFINE l == job[t].lane
<1>1. /\ TypeOK /\ MapInv /\ QueueInv /\ l \in LaneIds /\ job[t].account \in Accounts
      /\ lanes[job[t].account] = l /\ lane[l].active = t /\ MyLane(t) = lane[l]
  BY DEF IInv, HoldsTurn, MyLane
<1>2. \A u \in Tasks : pc'[u] = IF u = t THEN p ELSE pc[u]
  BY <1>1 DEF TypeOK
<1>3. p # "queued" /\ p # "terminal" /\ pc[t] # "queued"
  BY DEF Running, MutationTurn
<1>4. \A u \in Tasks : pc'[u] = "queued" =>
        pc[u] = "queued" /\ (job[u].lane = l => u \in QueuedIn(s))
  BY <1>1, <1>2, <1>3 DEF WaitInv, WaitsIn, QueuedIn, SameShape
<1>5. \A u \in Tasks : pc'[u] = "terminal" =>
        IF job[u].lane = l THEN s.terminal = "committed_active" ELSE pc[u] = "terminal"
  BY <1>1, <1>2, <1>3 DEF WaitInv, WaitsIn, SameShape
<1>6. Fit(l, lane[l], pc, job)
  BY <1>1, NoneAssumption DEF FitInv
<1>7. Fit(l, s, pc', job)
  <2>1. s.activeSync # NoTask => s.activeSync = t /\ pc'[t] \in SyncTurn
    BY <1>1, <1>2, <1>6 DEF Fit
  <2>2. s.terminal # "committed_active"
    BY <1>1, <1>6 DEF Fit, SameShape
  <2>3. s.active = t /\ t # NoTask
    BY <1>1, NoneAssumption DEF SameShape
  <2> QED
    BY <1>1, <1>6, <2>1, <2>2, <2>3 DEF Fit, SameShape
<1>9. \A b \in Accounts : lanes[b] = l /\ s.terminal # "none" /\ ~s.retireOnIdle => Held(b)
  BY <1>1, NoneAssumption DEF HeldInv, Barring, SameShape
<1>10. \A b : Held(b)' <=> Held(b)
  BY DEF Held, gateVars
<1>11. lane' = [lane EXCEPT ![l] = s] /\ s.account = lane[l].account
  BY <1>1 DEF SetLane, SameShape
<1>12. lanes' = lanes /\ job' = job
  OBVIOUS
<1>13. FitInv' /\ HeldInv' /\ WaitInv'
  <2>1. \A u \in Tasks : pc[u] \in SyncTurn \cup {"terminal"} /\ job[u].lane # l => pc'[u] = pc[u]
    BY <1>2
  <2>2. \A b \in Accounts : lanes[b] # l /\ Held(b) => Held(b)'
    BY <1>10
  <2>3. \A b \in Accounts : lanes'[b] = l => Fit(l, s, pc', job)
    BY <1>7
  <2>4. \A b \in Accounts : lanes'[b] = l /\ s.terminal # "none" /\ ~s.retireOnIdle => Held(b)'
    BY <1>9, <1>10, <1>12
  <2> HIDE DEF l
  <2> QED
    BY <1>1, <1>4, <1>5, <1>11, <1>12, <2>1, <2>2, <2>3, <2>4, ShapeFrame
<1>14. RotationInv'
  BY DEF RotationInv, gateVars
<1> QED
  BY <1>13, <1>14

LEMMA AdmitTurn ==
  ASSUME IInv, HonestInv, AdmitInv, NEW t \in Tasks, TurnStep(t)
  PROVE  AdmitInv'
<1> DEFINE l == job[t].lane
<1>1. pc[t] \in Running /\ HoldsTurn(t) /\ MyLane(t) \in LaneRec /\ TypeOK
  BY TurnHolds DEF IInv
<1>2. /\ l \in LaneIds /\ job[t].account \in Accounts /\ lanes[job[t].account] = l
      /\ MyLane(t) = lane[l] /\ lane[l].active = t /\ t # NoTask
      /\ lane[l].account = job[t].account
  BY <1>1, NoneAssumption DEF HoldsTurn, MyLane
<1>3. Fit(l, lane[l], pc, job)
  BY <1>2, NoneAssumption DEF AdmitInv, FitInv
<1> HIDE DEF l
<1>4. ASSUME NEW p \in Running \ {"terminal"}, pc[t] # "terminal", pc' = [pc EXCEPT ![t] = p],
             UNCHANGED <<laneVars, job, gateVars>>, pc[t] \in SyncTurn => p \in SyncTurn
      PROVE  AdmitInv'
  <2>1. SetLane(t, MyLane(t)) /\ SameShape(MyLane(t), MyLane(t))
    BY <1>1, <1>4 DEF SetLane, MyLane, SameShape, laneVars, TypeOK
  <2> QED
    BY <1>1, <1>4, <2>1, ShapeTurn DEF AdmitInv, laneVars
<1>5. ASSUME NEW s \in LaneRec, SetLane(t, s), SameShape(s, MyLane(t)), pc[t] # "terminal",
             NEW p \in Running \ {"terminal"}, pc' = [pc EXCEPT ![t] = p],
             UNCHANGED <<lanes, job, gateVars>>,
             \/ s.activeSync = NoTask
             \/ s.activeSync = MyLane(t).activeSync /\ (pc[t] \in SyncTurn => p \in SyncTurn)
      PROVE  AdmitInv'
  BY <1>1, <1>5, ShapeTurn DEF AdmitInv
<1>6. ASSUME NEW s \in LaneRec, SameShape(s, MyLane(t)), s.activeSync = MyLane(t).activeSync
      PROVE  /\ SlotFreed(t, s) \in LaneRec /\ SameShape(SlotFreed(t, s), MyLane(t))
             /\ SlotFreed(t, s).activeSync = NoTask
  <2>1. s.activeSync \in {t, NoTask}
    BY <1>2, <1>3, <1>6 DEF Fit
  <2>2. SlotFreed(t, s) = [s EXCEPT !.activeSync = NoTask]
    BY <1>6, <2>1 DEF SlotFreed, LaneRec
  <2> HIDE DEF SlotFreed
  <2> QED
    BY <1>6, <2>2 DEF LaneRec, SameShape
<1>7. SameShape(MyLane(t), MyLane(t))
  BY DEF SameShape
<1>8. ASSUME NEW s, \/ s = MyLane(t)
                    \/ \E d \in BOOLEAN :
                         s = [MyLane(t) EXCEPT !.dirtyLoaded = TRUE, !.needsReconcile = d]
      PROVE  s \in LaneRec /\ SameShape(s, MyLane(t)) /\ s.activeSync = MyLane(t).activeSync
  <2> DEFINE r == MyLane(t)
  <2>1. r \in LaneRec
    BY <1>1
  <2>2. s = r \/ \E d \in BOOLEAN : s = [r EXCEPT !.dirtyLoaded = TRUE, !.needsReconcile = d]
    BY <1>8
  <2> HIDE DEF r
  <2>3. s \in LaneRec /\ SameShape(s, r) /\ s.activeSync = r.activeSync
    BY <2>1, <2>2 DEF SameShape, LaneRec
  <2> QED
    BY <2>3 DEF r
<1> USE DEF Running, MutationTurn, SyncTurn, Move, Return
<1>9. ASSUME NEW ok \in BOOLEAN, SyncReturns(t, ok) PROVE AdmitInv'
  <2>1. CASE pc' = [pc EXCEPT ![t] = "clearing"] /\ UNCHANGED lane
    BY <1>4, <1>9, <2>1 DEF SyncReturns, laneVars
  <2>2. CASE pc' = [pc EXCEPT ![t] = "returning"] /\ SetLane(t, SlotFreed(t, MyLane(t)))
    BY <1>1, <1>5, <1>6, <1>7, <1>9, <2>2 DEF SyncReturns
  <2> QED
    BY <1>9, <2>1, <2>2 DEF SyncReturns
<1>10. ASSUME NEW ok \in BOOLEAN, ReconcileReturns(t, ok) PROVE AdmitInv'
  BY <1>4, <1>10 DEF ReconcileReturns
<1>11. ASSUME NEW ok \in BOOLEAN, ClearReturns(t, ok) PROVE AdmitInv'
  <2> DEFINE s == IF ok THEN [MyLane(t) EXCEPT !.dirtyLoaded = TRUE, !.needsReconcile = FALSE]
                  ELSE MyLane(t)
  <2>1. /\ SetLane(t, SlotFreed(t, s)) /\ pc' = [pc EXCEPT ![t] = "returning"]
        /\ UNCHANGED <<lanes, job, gateVars>> /\ pc[t] \in {"clearing", "cleared"}
    BY <1>11 DEF ClearReturns
  <2>2. s \in LaneRec /\ SameShape(s, MyLane(t)) /\ s.activeSync = MyLane(t).activeSync
    BY <1>8
  <2> HIDE DEF s
  <2>3. /\ SlotFreed(t, s) \in LaneRec /\ SameShape(SlotFreed(t, s), MyLane(t))
        /\ SlotFreed(t, s).activeSync = NoTask
    BY <1>6, <2>2
  <2> QED
    BY <1>5, <2>1, <2>3
<1>12. ASSUME NEW ok \in BOOLEAN, UnmarkReturns(t, ok) PROVE AdmitInv'
  <2> DEFINE s == IF ok THEN [MyLane(t) EXCEPT !.dirtyLoaded = TRUE, !.needsReconcile = FALSE]
                  ELSE MyLane(t)
  <2>1. /\ SetLane(t, s) /\ pc' = [pc EXCEPT ![t] = "returning"]
        /\ UNCHANGED <<lanes, job, gateVars>> /\ pc[t] \in {"unmarking", "unmarked"}
    BY <1>12 DEF UnmarkReturns
  <2>2. s \in LaneRec /\ SameShape(s, MyLane(t)) /\ s.activeSync = MyLane(t).activeSync
    BY <1>8
  <2> HIDE DEF s
  <2> QED
    BY <1>5, <2>1, <2>2
<1>13. CASE CheckDirty(t)
  BY <1>4, <1>13 DEF CheckDirty
<1>14. CASE MarkerWritten(t)
  BY <1>4, <1>14 DEF MarkerWritten
<1>15. CASE MarkFails(t)
  BY <1>4, <1>15 DEF MarkFails
<1>16. CASE BeginCommit(t)
  <2> DEFINE s == [MyLane(t) EXCEPT !.dirtyLoaded = TRUE, !.needsReconcile = TRUE]
  <2>1. /\ SetLane(t, s) /\ UNCHANGED <<lanes, job, gateVars>> /\ pc[t] = "marked"
        /\ \E p \in {"committing", "unmarking"} : pc' = [pc EXCEPT ![t] = p]
    BY <1>16 DEF BeginCommit
  <2>2. s \in LaneRec /\ SameShape(s, MyLane(t)) /\ s.activeSync = MyLane(t).activeSync
    BY <1>8
  <2> HIDE DEF s
  <2> QED
    BY <1>5, <2>1, <2>2
<1>17. CASE CommitSucceeds(t)
  BY <1>4, <1>17 DEF CommitSucceeds
<1>18. ASSUME NEW o \in {"not_committed", "conflict", "outcome_unknown"}, CommitFails(t, o)
       PROVE  AdmitInv'
  BY <1>4, <1>18 DEF CommitFails
<1>19. CASE MarkerCleared(t)
  BY <1>4, <1>19 DEF MarkerCleared
<1>26. CASE ServerAnswers(t)
  BY <1>4, <1>26 DEF ServerAnswers
<1>20. CASE PreflightFails(t)
  BY <1>4, <1>20 DEF PreflightFails
<1>21. CASE CommitTerminal(t)
  <2> DEFINE q == [lane[l] EXCEPT !.terminal = "committed_active",
                           !.terminalLease = job[t].lease, !.retireOnIdle = FALSE]
             s == Invalidated(q)
  <2>1. /\ pc' = [Cancelled(lane[l]) EXCEPT ![t] = "terminal"] /\ pc[t] = "preflight"
        /\ InvalidateLane(l, q) /\ job' = job /\ IsCurrent(t)
        /\ transition.phase = "idle" /\ ~blocked /\ blocked' = TRUE
        /\ UNCHANGED <<gate, transition>>
    BY <1>2, <1>21 DEF CommitTerminal, l
  <2>2. /\ q \in LaneRec /\ q.account = lane[l].account /\ q.active = t
        /\ q.dirtyLoad = lane[l].dirtyLoad /\ q.activeSync = lane[l].activeSync
        /\ q.terminal = "committed_active" /\ ~q.retireOnIdle
    <3>1. job[t].lease \in Nat /\ lane[l] \in LaneRec
      BY <1>1, <1>2 DEF TypeOK, JobRec
    <3> QED
      BY <1>2, <3>1 DEF LaneRec
  <2> HIDE DEF q
  <2>3. /\ s \in LaneRec /\ s.account = lane[l].account /\ s.active = t /\ s.queue = <<>>
        /\ s.suspended /\ s.tailSync = NoTask /\ s.terminal = "committed_active"
        /\ ~s.retireOnIdle /\ s.activeSync = lane[l].activeSync
    <3>1. s \in LaneRec /\ s.account = q.account /\ s.active = q.active /\ s.queue = <<>>
      BY <2>2, InvalidatedType
    <3> QED
      BY <2>2, <3>1 DEF Invalidated, LaneRec
  <2>4. lane' = [lane EXCEPT ![l] = s] /\ ReleaseIfIdle(l, s)
    BY <2>1 DEF InvalidateLane
  <2> HIDE DEF s
  <2>5. \A u \in QueuedIn(lane[l]) : pc[u] = "queued" /\ job[u].lane = l
    BY <1>2 DEF QueuedIn, IInv, QueueInv
  <2>6. \A u \in Tasks : pc'[u] = IF u = t THEN "terminal"
                                  ELSE IF u \in QueuedIn(lane[l]) THEN "done" ELSE pc[u]
    BY <2>1 DEF Cancelled
  <2>7. \A u \in Tasks : pc'[u] = "queued" => pc[u] = "queued" /\ job[u].lane # l
    BY <1>2, <2>6 DEF AdmitInv, WaitInv, WaitsIn
  <2>8. lane[l].terminal # "committed_active" /\ lane[l].activeSync = NoTask
    BY <1>2, <1>3, <2>1 DEF Fit
  <2>9. \A u \in Tasks : pc'[u] = "terminal" =>
          IF job[u].lane = l THEN s.terminal = "committed_active" ELSE pc[u] = "terminal"
    BY <2>3, <2>6 DEF l
  <2>10. \A u \in Tasks : pc[u] \in SyncTurn \cup {"terminal"} /\ job[u].lane # l => pc'[u] = pc[u]
    BY <2>5, <2>6 DEF l
  <2>11. Fit(l, s, pc', job)
    BY <1>2, <2>3, <2>6, <2>8 DEF Fit, l
  <2>12. \A b \in Accounts : lanes[b] = l => b = job[t].account
    BY <1>2, NoneAssumption DEF IInv, MapInv
  <2>13. \A b \in Accounts : ~Held(b)
    BY <2>1 DEF Held
  <2>14. \A b : b = job[t].account => Held(b)'
    BY <2>1 DEF Held, IsCurrent, CurrentIn, LeaseHolds
  <2>15. \A b \in Accounts : lanes'[b] = l => lanes[b] = l
    BY <1>1, <1>2, <2>4, NoneAssumption DEF ReleaseIfIdle, Deletable, TypeOK
  <2>16. \A b \in Accounts : lanes'[b] = l /\ s.terminal # "none" /\ ~s.retireOnIdle => Held(b)'
    BY <2>12, <2>14, <2>15
  <2>17. FitInv' /\ HeldInv' /\ WaitInv'
    <3>1. TypeOK /\ MapInv /\ FitInv /\ HeldInv /\ WaitInv
      BY DEF IInv, AdmitInv
    <3>2. lane' = [lane EXCEPT ![l] = s] /\ job' = job /\ s.account = lane[l].account
          /\ ReleaseIfIdle(l, s)
      BY <2>1, <2>3, <2>4
    <3>3. \A b \in Accounts : lanes[b] # l /\ Held(b) => Held(b)'
      BY <2>13
    <3>4. \A b \in Accounts : lanes'[b] = l => Fit(l, s, pc', job)
      BY <2>11
    <3>5. \A u \in Tasks : pc'[u] = "queued" =>
            pc[u] = "queued" /\ (job[u].lane = l => u \in QueuedIn(s))
      BY <2>7
    <3> QED
      BY <1>2, <2>9, <2>10, <2>16, <3>1, <3>2, <3>3, <3>4, <3>5, ShapeFrame
  <2>18. RotationInv'
    BY <2>1 DEF RotationInv
  <2> QED
    BY <2>17, <2>18 DEF AdmitInv
<1>22. ASSUME NEW o \in {"ok", "outcome_unknown"}, TerminalReturns(t, o) PROVE AdmitInv'
  <2> DEFINE s == [lane[l] EXCEPT !.terminal = "sealed"]
  <2>1. /\ pc' = [pc EXCEPT ![t] = "returning"] /\ pc[t] = "terminal"
        /\ lane' = [lane EXCEPT ![l] = s] /\ UNCHANGED <<lanes, job, gateVars>>
    BY <1>2, <1>22 DEF TerminalReturns, SetLane, l
  <2>2. lane[l].terminal = "committed_active" /\ lane[l].activeSync = NoTask
    BY <1>2, <1>3, <2>1 DEF AdmitInv, WaitInv, WaitsIn, Fit, l
  <2>3. SameShape([s EXCEPT !.terminal = "committed_active"], lane[l]) /\ s.terminal = "sealed"
        /\ s.account = lane[l].account /\ s.queue = lane[l].queue /\ s.active = t
        /\ s.suspended = lane[l].suspended /\ s.tailSync = lane[l].tailSync
        /\ s.activeSync = NoTask /\ s.retireOnIdle = lane[l].retireOnIdle
    BY <1>1, <1>2, <2>2 DEF SameShape, LaneRec
  <2> HIDE DEF s
  <2>4. \A u \in Tasks : pc'[u] = IF u = t THEN "returning" ELSE pc[u]
    BY <1>1, <2>1 DEF TypeOK
  <2>5. \A u \in Tasks : pc'[u] = "queued" =>
          pc[u] = "queued" /\ (job[u].lane = l => u \in QueuedIn(s))
    BY <2>3, <2>4 DEF AdmitInv, WaitInv, WaitsIn, QueuedIn
  <2>6. \A u \in Tasks : pc'[u] = "terminal" => job[u].lane # l /\ pc[u] = "terminal"
    <3> SUFFICES ASSUME NEW u \in Tasks, u # t, pc[u] = "terminal", job[u].lane = l PROVE FALSE
      BY <2>4
    <3> QED
      BY <1>2 DEF IInv, TurnInv, HoldsTurn
  <2>7. Fit(l, s, pc', job)
    BY <1>2, <1>3, <2>2, <2>3 DEF Fit
  <2>8. \A b : Held(b)' <=> Held(b)
    BY <2>1 DEF Held, gateVars
  <2>9. \A b \in Accounts : lanes'[b] = l /\ s.terminal # "none" /\ ~s.retireOnIdle => Held(b)'
    BY <1>2, <2>1, <2>2, <2>3, <2>8, NoneAssumption DEF AdmitInv, HeldInv, Barring
  <2>10. FitInv' /\ HeldInv' /\ WaitInv'
    <3>1. TypeOK /\ MapInv /\ FitInv /\ HeldInv /\ WaitInv
      BY DEF IInv, AdmitInv
    <3>2. lane' = [lane EXCEPT ![l] = s] /\ job' = job /\ s.account = lane[l].account
          /\ lanes' = lanes
      BY <2>1, <2>3
    <3>3. \A b \in Accounts : lanes[b] # l /\ Held(b) => Held(b)'
      BY <2>8
    <3>4. \A b \in Accounts : lanes'[b] = l => Fit(l, s, pc', job)
      BY <2>7
    <3>5. \A u \in Tasks : pc[u] \in SyncTurn \cup {"terminal"} /\ job[u].lane # l =>
            pc'[u] = pc[u]
      BY <2>4 DEF l
    <3>6. \A u \in Tasks : pc'[u] = "terminal" =>
            IF job[u].lane = l THEN s.terminal = "committed_active" ELSE pc[u] = "terminal"
      BY <2>6
    <3> QED
      BY <1>2, <2>5, <2>9, <3>1, <3>2, <3>3, <3>4, <3>5, <3>6, ShapeFrame
  <2>11. RotationInv'
    BY <2>1 DEF RotationInv, AdmitInv, gateVars
  <2> QED
    BY <2>10, <2>11 DEF AdmitInv
<1> QED
  BY <1>26, <1>9, <1>10, <1>11, <1>12, <1>13, <1>14, <1>15, <1>16, <1>17, <1>18, <1>19, <1>20,
     <1>21, <1>22 DEF TurnStep

(* An idle suspended lane that stays in the map bars other calls.          *)
LEMMA IdleReleased ==
  ASSUME NEW l \in LaneIds, NEW r \in LaneRec, ReleaseIfIdle(l, r),
         lanes \in [Accounts -> LaneIds \cup {NoLane}],
         NEW b \in Accounts, lanes[b] = l, lanes'[b] = l, r.account = b,
         r.suspended, r.queue = <<>>, r.tailSync = NoTask, r.activeSync = NoTask,
         r.active = NoTask, ~r.dirtyLoad, r.terminal # "committed_active"
  PROVE  r.terminal # "none" /\ ~r.retireOnIdle
<1>1. ~Deletable(l, r)
  BY NoneAssumption DEF ReleaseIfIdle
<1>2. r.terminal \in {"none", "committed_active", "sealed"}
  BY DEF LaneRec
<1> QED
  BY <1>1, <1>2 DEF Deletable

LEMMA StaysMapped ==
  ASSUME TypeOK, NEW l \in LaneIds, NEW r, lanes' = lanes \/ ReleaseIfIdle(l, r),
         NEW b \in Accounts, lanes'[b] = l
  PROVE  lanes[b] = l
  BY NoneAssumption DEF TypeOK, ReleaseIfIdle, Deletable

LEMMA TailOf ==
  ASSUME NEW q \in Seq(Tasks), q # <<>>
  PROVE  /\ Tail(q) \in Seq(Tasks) /\ Len(q) \in Nat /\ Len(q) >= 1
         /\ Len(Tail(q)) = Len(q) - 1
         /\ \A i \in 1 .. Len(q) - 1 : Tail(q)[i] = q[i + 1]
  OBVIOUS

LEMMA AdmitDrain ==
  ASSUME IInv, AdmitInv, NEW l \in LaneIds, NEW r \in LaneRec, NEW settled,
         DrainOn(l, r, settled), UNCHANGED <<job, gateVars>>,
         SameShape([r EXCEPT !.active = lane[l].active], lane[l]), r.active = NoTask,
         r.activeSync = lane[l].activeSync,
         \A u \in Tasks : u \in settled => pc[u] = "returning",
         lane[l].active = NoTask \/ (lane[l].active \in Tasks /\ pc[lane[l].active] = "returning")
  PROVE  AdmitInv'
<1>1. /\ TypeOK /\ MapInv /\ FitInv /\ HeldInv /\ WaitInv /\ lane[l] \in LaneRec
      /\ pc \in [Tasks -> Positions]
  BY LaneFields DEF IInv, AdmitInv, TypeOK
<1>2. /\ r.account = lane[l].account /\ r.suspended = lane[l].suspended
      /\ r.queue = lane[l].queue /\ r.tailSync = lane[l].tailSync
      /\ r.terminal = lane[l].terminal /\ r.retireOnIdle = lane[l].retireOnIdle
      /\ r.dirtyLoad = lane[l].dirtyLoad /\ r.queue \in Seq(Tasks)
  BY <1>1 DEF SameShape, LaneRec
<1>3. ASSUME NEW b \in Accounts, lanes[b] = l
      PROVE  /\ lane[l].account = b /\ Fit(l, lane[l], pc, job)
             /\ r.activeSync = NoTask /\ r.terminal # "committed_active"
  <2>1. lane[l].account = b /\ Fit(l, lane[l], pc, job)
    BY <1>1, <1>3, NoneAssumption DEF MapInv, FitInv
  <2> QED
    BY <1>2, <2>1 DEF Fit, SyncTurn
<1>4. \A b : Held(b)' <=> Held(b)
  BY DEF Held, gateVars
<1>5. \A b \in Accounts : lanes[b] = l /\ r.terminal # "none" /\ ~r.retireOnIdle => Held(b)
  BY <1>1, <1>2, NoneAssumption DEF HeldInv, Barring
<1>6. CASE r.queue = <<>>
  <2> DEFINE s == [r EXCEPT !.draining = FALSE]
  <2>1. /\ s \in LaneRec /\ SameShape(s, r) /\ s.activeSync = r.activeSync
        /\ s.needsReconcile = r.needsReconcile
    BY DEF LaneRec, SameShape
  <2>2. lane' = [lane EXCEPT ![l] = s] /\ ReleaseIfIdle(l, r)
    BY <1>6 DEF DrainOn
  <2>3. \A u \in Tasks : pc'[u] = IF u \in settled THEN "done" ELSE pc[u]
    BY <1>6 DEF DrainOn
  <2> HIDE DEF s
  <2>4. ReleaseIfIdle(l, s)
    <3>1. Deletable(l, r) <=> Deletable(l, s)
      BY <2>1 DEF Deletable, SameShape
    <3> QED
      BY <2>1, <2>2, <3>1 DEF ReleaseIfIdle, SameShape
  <2>5. ASSUME NEW b \in Accounts, lanes'[b] = l PROVE Fit(l, s, pc', job)
    <3>1. lanes[b] = l
      BY <1>1, <2>2, <2>5, StaysMapped
    <3>2. Fit(l, lane[l], pc, job) /\ s.activeSync = NoTask /\ s.terminal # "committed_active"
          /\ s.account = b
      BY <1>2, <1>3, <2>1, <3>1 DEF SameShape
    <3>3. /\ s.suspended = lane[l].suspended /\ s.queue = lane[l].queue
          /\ s.tailSync = lane[l].tailSync /\ s.terminal = lane[l].terminal
          /\ s.retireOnIdle = lane[l].retireOnIdle /\ s.active = NoTask
      BY <1>2, <2>1 DEF SameShape
    <3>4. s.suspended /\ ~s.dirtyLoad => s.terminal # "none" /\ ~s.retireOnIdle
      BY <1>1, <2>1, <2>4, <2>5, <3>1, <3>2, <3>3, IdleReleased DEF TypeOK, Fit
    <3> QED
      BY <3>2, <3>3, <3>4 DEF Fit
  <2>6. FitInv' /\ HeldInv' /\ WaitInv'
    <3>1. \A u \in Tasks : pc'[u] = "queued" =>
            pc[u] = "queued" /\ (job[u].lane = l => u \in QueuedIn(s))
      BY <1>1, <1>2, <2>1, <2>3 DEF WaitInv, WaitsIn, QueuedIn, SameShape
    <3>2. \A u \in Tasks : pc'[u] = "terminal" =>
            IF job[u].lane = l THEN s.terminal = "committed_active" ELSE pc[u] = "terminal"
      BY <1>1, <1>2, <2>1, <2>3 DEF WaitInv, WaitsIn, SameShape
    <3>3. \A u \in Tasks : pc[u] \in SyncTurn \cup {"terminal"} /\ job[u].lane # l => pc'[u] = pc[u]
      BY <2>3 DEF SyncTurn
    <3>4. \A b \in Accounts : lanes[b] # l /\ Held(b) => Held(b)'
      BY <1>4
    <3>5. \A b \in Accounts : lanes'[b] = l => Fit(l, s, pc', job)
      BY <2>5
    <3>6. \A b \in Accounts : lanes'[b] = l /\ s.terminal # "none" /\ ~s.retireOnIdle => Held(b)'
      BY <1>1, <1>4, <1>5, <2>1, <2>2, StaysMapped DEF SameShape
    <3>7. job' = job /\ s.account = lane[l].account
      BY <1>2, <2>1 DEF SameShape
    <3> QED
      BY <1>1, <2>2, <2>4, <3>1, <3>2, <3>3, <3>4, <3>5, <3>6, <3>7, ShapeFrame
  <2> QED
    BY <2>6 DEF AdmitInv, RotationInv, gateVars
<1>7. CASE r.queue # <<>>
  <2> DEFINE h == Head(r.queue)
             q == r.queue
             s == TurnStarted(r)
  <2>1. q \in Seq(Tasks) /\ q # <<>> /\ h = q[1] /\ 1 \in DOMAIN q /\ h \in Tasks
        /\ Len(q) \in Nat /\ Len(q) >= 1 /\ q = lane[l].queue
    BY <1>2, <1>7
  <2>2. /\ pc[h] = "queued" /\ job[h].lane = l /\ lane[l].account \in Accounts
        /\ lanes[lane[l].account] = l /\ \A i \in DOMAIN q : q[i] = h => i = 1
    BY <2>1 DEF IInv, QueueInv
  <2>3. Fit(l, lane[l], pc, job) /\ r.activeSync = NoTask
    BY <1>3, <2>2
  <2>4. ~r.suspended /\ r.terminal = "none" /\ ~r.retireOnIdle
    BY <1>2, <1>7, <2>3 DEF Fit, LaneRec
  <2>5. s \in LaneRec
    BY <1>1, <1>7, TurnStartedType
  <2>6. /\ s.account = lane[l].account /\ s.active = h /\ s.queue = Tail(q)
        /\ s.tailSync = (IF r.tailSync = h THEN NoTask ELSE r.tailSync)
        /\ s.activeSync = (IF job[h].kind = "sync" /\ StartsCurrent(r) THEN h ELSE NoTask)
        /\ ~s.suspended /\ s.terminal = "none" /\ ~s.retireOnIdle
    BY <1>2, <2>3, <2>4 DEF TurnStarted, LaneRec
  <2>7. /\ lane' = [lane EXCEPT ![l] = s] /\ lanes' = lanes
        /\ \A u \in Tasks : pc'[u] = IF u \in settled THEN "done"
                                     ELSE IF u = h THEN FirstPosition(r) ELSE pc[u]
    BY <1>7 DEF DrainOn
  <2> HIDE DEF s
  <2>8. h \notin settled /\ pc'[h] = FirstPosition(r)
    BY <2>1, <2>2, <2>7
  <2>9. FirstPosition(r) \in {"returning", "syncing", "preflight", "loaded", "awaiting"}
    BY DEF FirstPosition
  <2>10. s.activeSync # NoTask => s.activeSync = h /\ FirstPosition(r) = "syncing"
    BY <2>6 DEF FirstPosition
  <2>11. s.tailSync # NoTask => Tail(q) # <<>> /\ s.tailSync = Tail(q)[Len(Tail(q))]
    <3> SUFFICES ASSUME s.tailSync # NoTask
                 PROVE  Tail(q) # <<>> /\ s.tailSync = Tail(q)[Len(Tail(q))]
      OBVIOUS
    <3>1. s.tailSync = q[Len(q)] /\ q[Len(q)] # h
      BY <1>2, <2>3, <2>6 DEF Fit
    <3>2. Len(q) # 1
      BY <2>1, <3>1
    <3> DEFINE n == Len(q) - 1
    <3>3. n \in Nat /\ n >= 1 /\ n + 1 = Len(q)
      <4> DEFINE m == Len(q)
      <4>1. m \in Nat /\ m >= 1 /\ m # 1
        BY <2>1, <3>2
      <4> HIDE DEF m
      <4>2. m - 1 \in Nat /\ m - 1 >= 1 /\ (m - 1) + 1 = m
        BY <4>1
      <4> QED
        BY <4>2 DEF m
    <3>4. /\ Tail(q) \in Seq(Tasks) /\ Len(Tail(q)) = n
          /\ \A i \in 1 .. n : Tail(q)[i] = q[i + 1]
      BY <2>1, TailOf
    <3> HIDE DEF n
    <3>5. Tail(q)[n] = q[Len(q)]
      BY <3>3, <3>4
    <3>6. Tail(q) # <<>>
      BY <3>3, <3>4, EmptySeq
    <3> QED
      BY <3>1, <3>4, <3>5, <3>6
  <2>12. Fit(l, s, pc', job)
    BY <2>2, <2>6, <2>8, <2>10, <2>11 DEF Fit, SyncTurn
  <2>13. \A u \in Tasks : pc'[u] = "queued" =>
            pc[u] = "queued" /\ (job[u].lane = l => u \in QueuedIn(s))
    <3> SUFFICES ASSUME NEW u \in Tasks, pc'[u] = "queued", job[u].lane = l
                 PROVE  u \in QueuedIn(s)
      BY <2>7, <2>9
    <3>1. u # h /\ pc[u] = "queued"
      BY <2>7, <2>8, <2>9
    <3>2. u \in QueuedIn(lane[l])
      BY <1>1, <3>1 DEF WaitInv, WaitsIn
    <3>3. PICK i \in DOMAIN q : q[i] = u
      BY <2>1, <3>2 DEF QueuedIn
    <3>4. i # 1
      BY <2>1, <3>1, <3>3
    <3> DEFINE n == i - 1
    <3>5. /\ Tail(q) \in Seq(Tasks) /\ Len(Tail(q)) = Len(q) - 1 /\ i \in 1 .. Len(q)
          /\ \A k \in 1 .. Len(q) - 1 : Tail(q)[k] = q[k + 1]
      BY <2>1, <3>3, TailOf
    <3>6. n \in 1 .. Len(q) - 1 /\ n + 1 = i
      BY <2>1, <3>4, <3>5
    <3>7. Tail(q)[n] = u /\ n \in DOMAIN Tail(q)
      BY <3>3, <3>5, <3>6
    <3> QED
      BY <2>6, <3>7 DEF QueuedIn
  <2>14. \A u \in Tasks : pc'[u] = "terminal" => pc[u] = "terminal" /\ job[u].lane # l
    BY <1>1, <1>2, <2>4, <2>7, <2>9 DEF WaitInv, WaitsIn
  <2>15. FitInv' /\ HeldInv' /\ WaitInv'
    <3>1. \A u \in Tasks : pc'[u] = "terminal" =>
            IF job[u].lane = l THEN s.terminal = "committed_active" ELSE pc[u] = "terminal"
      BY <2>14
    <3>2. \A u \in Tasks : pc[u] \in SyncTurn \cup {"terminal"} /\ job[u].lane # l => pc'[u] = pc[u]
      BY <2>2, <2>7 DEF SyncTurn
    <3>3. \A b \in Accounts : lanes[b] # l /\ Held(b) => Held(b)'
      BY <1>4
    <3>4. \A b \in Accounts : lanes'[b] = l => Fit(l, s, pc', job)
      BY <2>12
    <3>5. \A b \in Accounts : lanes'[b] = l /\ s.terminal # "none" /\ ~s.retireOnIdle => Held(b)'
      BY <2>6
    <3>6. job' = job
      OBVIOUS
    <3> QED
      BY <1>1, <2>6, <2>7, <2>13, <3>1, <3>2, <3>3, <3>4, <3>5, <3>6, ShapeFrame
  <2> QED
    BY <2>15 DEF AdmitInv, RotationInv, gateVars
<1> QED
  BY <1>6, <1>7

LEMMA AdmitLane ==
  ASSUME IInv, AdmitInv, NEW l \in LaneIds, LaneStep(l)
  PROVE  AdmitInv'
<1>1. /\ TypeOK /\ MapInv /\ FitInv /\ HeldInv /\ WaitInv /\ lane[l] \in LaneRec
  BY LaneFields DEF IInv, AdmitInv
<1>2. CASE DrainStart(l)
  <2>1. /\ DrainOn(l, lane[l], {}) /\ UNCHANGED <<job, gateVars>> /\ lane[l].active = NoTask
    BY <1>2 DEF DrainStart
  <2>2. SameShape([lane[l] EXCEPT !.active = lane[l].active], lane[l])
    BY <1>1 DEF SameShape, LaneRec
  <2> QED
    BY <1>1, <2>1, <2>2, AdmitDrain
<1>3. CASE DrainNext(l)
  <2> DEFINE r == [lane[l] EXCEPT !.active = NoTask]
  <2>1. /\ DrainOn(l, r, {lane[l].active}) /\ pc[lane[l].active] = "returning"
        /\ UNCHANGED <<job, gateVars>> /\ lane[l].active # NoTask
    BY <1>3 DEF DrainNext
  <2>2. /\ r \in LaneRec /\ SameShape([r EXCEPT !.active = lane[l].active], lane[l])
        /\ r.active = NoTask /\ r.activeSync = lane[l].activeSync
        /\ lane[l].active \in Tasks \cup {NoTask}
    BY <1>1 DEF SameShape, LaneRec
  <2> HIDE DEF r
  <2> QED
    BY <2>1, <2>2, AdmitDrain
<1>4. ASSUME NEW ok \in BOOLEAN, LoadSettles(l, ok) PROVE AdmitInv'
  <2> DEFINE r == [lane[l] EXCEPT
                   !.dirtyLoad = FALSE,
                   !.dirtyLoaded = IF ok THEN TRUE ELSE @,
                   !.needsReconcile =
                     IF ok /\ lane[l].account \in durable THEN TRUE ELSE @]
  <2>1. /\ r \in LaneRec /\ r.account = lane[l].account /\ r.active = lane[l].active
        /\ r.queue = lane[l].queue /\ r.suspended = lane[l].suspended
        /\ r.tailSync = lane[l].tailSync /\ r.activeSync = lane[l].activeSync
        /\ r.terminal = lane[l].terminal /\ r.retireOnIdle = lane[l].retireOnIdle
        /\ ~r.dirtyLoad
    <3>1. /\ lane[l] \in LaneRec /\ lane[l].dirtyLoaded \in BOOLEAN
          /\ lane[l].needsReconcile \in BOOLEAN
      BY <1>1 DEF LaneRec
    <3>2. \A x, y \in BOOLEAN :
            [lane[l] EXCEPT !.dirtyLoad = FALSE, !.dirtyLoaded = x, !.needsReconcile = y]
              \in LaneRec
      BY <3>1 DEF LaneRec
    <3>3. r \in LaneRec
      BY <3>1, <3>2
    <3> QED BY <3>1, <3>3 DEF LaneRec
  <2>2. /\ lane' = [lane EXCEPT ![l] = r] /\ ReleaseIfIdle(l, r)
        /\ UNCHANGED <<job, gateVars>>
    BY <1>4 DEF LoadSettles
  <2> HIDE DEF r
  <2>3. \A u \in Tasks :
           \/ pc'[u] = pc[u]
           \/ pc[u] \in {"querying", "awaiting"} /\ pc'[u] \in {"done", "returning", "loaded"}
    BY <1>4 DEF LoadSettles
  <2>4. \A b : Held(b)' <=> Held(b)
    BY <2>2 DEF Held, gateVars
  <2>5. ASSUME NEW b \in Accounts, lanes'[b] = l
        PROVE  Fit(l, r, pc', job) /\ (r.terminal # "none" /\ ~r.retireOnIdle => Held(b))
    <3>1. lanes[b] = l /\ lane[l].account = b
      BY <1>1, <2>2, <2>5, StaysMapped, NoneAssumption DEF MapInv
    <3>2. Fit(l, lane[l], pc, job)
      BY <1>1, <3>1, NoneAssumption DEF FitInv
    <3>3. lane[l].active \in Tasks \cup {NoTask}
      BY <1>1, LaneFields
    <3>4. \A u \in Tasks : pc[u] \in SyncTurn \cup {"terminal"} => pc'[u] = pc[u]
      BY <2>3 DEF SyncTurn
    <3>5. r.suspended /\ r.active = NoTask => r.terminal # "none" /\ ~r.retireOnIdle
      <4> SUFFICES ASSUME r.suspended, r.active = NoTask
                   PROVE  r.terminal # "none" /\ ~r.retireOnIdle
        OBVIOUS
      <4>1. /\ r.queue = <<>> /\ r.tailSync = NoTask /\ r.activeSync = NoTask
            /\ r.terminal # "committed_active" /\ r.account = b
        BY <2>1, <3>1, <3>2 DEF Fit
      <4> QED
        BY <1>1, <2>1, <2>2, <2>5, <3>1, <4>1, IdleReleased DEF TypeOK
    <3>6. Fit(l, r, pc', job)
      BY <2>1, <3>2, <3>3, <3>4, <3>5 DEF Fit
    <3> QED
      BY <1>1, <2>1, <3>1, <3>6, NoneAssumption DEF HeldInv, Barring
  <2>6. FitInv' /\ HeldInv' /\ WaitInv'
    <3>1. \A u \in Tasks : pc'[u] = "queued" =>
            pc[u] = "queued" /\ (job[u].lane = l => u \in QueuedIn(r))
      BY <1>1, <2>1, <2>3 DEF WaitInv, WaitsIn, QueuedIn
    <3>2. \A u \in Tasks : pc'[u] = "terminal" =>
            IF job[u].lane = l THEN r.terminal = "committed_active" ELSE pc[u] = "terminal"
      BY <1>1, <2>1, <2>3 DEF WaitInv, WaitsIn
    <3>3. \A u \in Tasks : pc[u] \in SyncTurn \cup {"terminal"} /\ job[u].lane # l => pc'[u] = pc[u]
      BY <2>3 DEF SyncTurn
    <3>4. \A b \in Accounts : lanes[b] # l /\ Held(b) => Held(b)'
      BY <2>4
    <3>5. \A b \in Accounts : lanes'[b] = l => Fit(l, r, pc', job)
      BY <2>5
    <3>6. \A b \in Accounts : lanes'[b] = l /\ r.terminal # "none" /\ ~r.retireOnIdle => Held(b)'
      BY <2>4, <2>5
    <3>7. job' = job /\ r.account = lane[l].account
      BY <2>1, <2>2
    <3> QED
      BY <1>1, <2>2, <3>1, <3>2, <3>3, <3>4, <3>5, <3>6, <3>7, ShapeFrame
  <2> QED
    BY <2>2, <2>6 DEF AdmitInv, RotationInv, gateVars
<1> QED
  BY <1>2, <1>3, <1>4 DEF LaneStep

(* A step that leaves the lanes alone and moves only calls that hold no    *)
(* turn and no place in a queue.                                           *)
LEMMA AdmitQuiet ==
  ASSUME TypeOK, FitInv, HeldInv, WaitInv, UNCHANGED laneVars,
         \A u \in Tasks : pc[u] \in Running \cup {"queued"} => pc'[u] = pc[u] /\ job'[u] = job[u],
         \A u \in Tasks : pc'[u] \in Running \cup {"queued"} => pc'[u] = pc[u],
         \A b \in Accounts : Held(b) => Held(b)'
  PROVE  FitInv' /\ HeldInv' /\ WaitInv'
<1> USE DEF Running, MutationTurn, SyncTurn
<1>1. ASSUME NEW b \in Accounts, lanes[b] # NoLane PROVE Fit(lanes[b], lane[lanes[b]], pc', job')
  <2> DEFINE s == lane[lanes[b]]
  <2>1. /\ s.active \in Tasks \cup {NoTask} /\ s.activeSync \in Tasks \cup {NoTask}
        /\ Fit(lanes[b], s, pc, job)
    BY <1>1, LaneFields DEF FitInv, TypeOK, LaneRec
  <2> HIDE DEF s
  <2>2. ASSUME s.activeSync # NoTask \/ (s.terminal = "committed_active" /\ s.active # NoTask)
        PROVE  pc'[s.active] = pc[s.active] /\ job'[s.active] = job[s.active]
    <3>1. s.active \in Tasks /\ pc[s.active] \in SyncTurn \cup {"terminal"}
      BY <2>1, <2>2 DEF Fit
    <3> QED
      BY <3>1
  <2>3. s.activeSync # NoTask =>
          s.active = s.activeSync /\ job'[s.active].lane = lanes[b] /\ pc'[s.active] \in SyncTurn
    BY <2>1, <2>2 DEF Fit
  <2>4. s.terminal = "committed_active" =>
          s.active # NoTask /\ job'[s.active].lane = lanes[b] /\ pc'[s.active] = "terminal"
    BY <2>1, <2>2 DEF Fit
  <2>5. Fit(lanes[b], s, pc', job')
    BY <2>1, <2>3, <2>4 DEF Fit
  <2> QED
    BY <2>5 DEF s
<1>2. FitInv'
  BY <1>1 DEF FitInv, laneVars
<1>3. HeldInv'
  BY DEF HeldInv, Barring, laneVars
<1>4. WaitInv'
  BY DEF WaitInv, WaitsIn, QueuedIn, laneVars
<1> QED
  BY <1>2, <1>3, <1>4

(* A call that enters the queue of the lane of its account, or waits for   *)
(* the marker load of that lane; the lane may be a fresh one.              *)
LEMMA AdmitEntered ==
  ASSUME IInv, AdmitInv, NEW t \in Tasks, pc[t] = "idle", NEW a \in Accounts,
         NEW l \in LanesFor(a), NEW r, r = FieldsFor(a, l), NEW e \in LaneRec,
         NEW j, NEW p \in {"queued", "querying"},
         lane' = [lane EXCEPT ![l] = e], lanes' = [lanes EXCEPT ![a] = l],
         job' = [job EXCEPT ![t] = j], pc' = [pc EXCEPT ![t] = p], UNCHANGED gateVars,
         e.terminal = r.terminal, e.retireOnIdle = r.retireOnIdle, e.active = r.active,
         QueuedIn(r) \subseteq QueuedIn(e),
         p = "queued" => t \in QueuedIn(e) /\ j.lane = l /\ j.account = a,
         Fit(l, r, pc, job) => Fit(l, e, pc, job)
  PROVE  AdmitInv'
<1>1. /\ TypeOK /\ MapInv /\ FitInv /\ HeldInv /\ WaitInv /\ l \in LaneIds
      /\ pc \in [Tasks -> Positions] /\ job \in [Tasks -> JobRec] /\ l # NoLane
  BY LanesForType, NoneAssumption DEF IInv, AdmitInv, TypeOK
<1>2. /\ pc'[t] = p /\ job'[t] = j
      /\ \A u \in Tasks : u # t => pc'[u] = pc[u] /\ job'[u] = job[u]
  BY <1>1
<1>3. lane'[l] = e /\ \A m \in LaneIds : m # l => lane'[m] = lane[m]
  BY <1>1 DEF TypeOK
<1>4. lanes'[a] = l /\ \A b \in Accounts : b # a => lanes'[b] = lanes[b]
  BY <1>1 DEF TypeOK
<1>5. \A b \in Accounts : b # a => lanes[b] # l
  BY <1>1, OwnLane, LanesForCases DEF Unused
<1>6. lanes[a] # NoLane => lanes[a] = l /\ r = lane[l]
  BY LanesForCases DEF FieldsFor
<1>7. lanes[a] = NoLane => /\ r = NewLane(a)
                           /\ \A u \in Tasks : job[u].lane = l => pc[u] \in {"done", "joined"}
  BY LanesForCases DEF FieldsFor, Unused
<1>8. NewLane(a) \in LaneRec /\ Fit(l, NewLane(a), pc, job) /\ NewLane(a).terminal = "none"
      /\ NewLane(a).active = NoTask
  BY <1>1, NewLaneType DEF NewLane, Fit
<1>9. Fit(l, e, pc, job) /\ e.active \in Tasks \cup {NoTask}
      /\ e.activeSync \in Tasks \cup {NoTask}
  BY <1>1, <1>6, <1>7, <1>8 DEF FitInv, LaneRec
<1>10. Fit(l, e, pc', job')
  BY <1>2, <1>9 DEF Fit, SyncTurn
<1>11. ASSUME NEW b \in Accounts, lanes'[b] # NoLane
       PROVE  Fit(lanes'[b], lane'[lanes'[b]], pc', job')
  <2>1. CASE b = a
    BY <1>3, <1>4, <1>10, <2>1
  <2>2. CASE b # a
    <3> DEFINE s == lane[lanes[b]]
    <3>1. lanes[b] \in LaneIds /\ lanes[b] # l /\ lanes'[b] = lanes[b]
      BY <1>1, <1>4, <1>5, <1>11, <2>2 DEF TypeOK
    <3>2. /\ lane'[lanes[b]] = s /\ Fit(lanes[b], s, pc, job) /\ s \in LaneRec
      BY <1>1, <1>3, <1>11, <3>1 DEF FitInv, TypeOK
    <3>3. s.active \in Tasks \cup {NoTask} /\ s.activeSync \in Tasks \cup {NoTask}
      BY <3>2 DEF LaneRec
    <3> HIDE DEF s
    <3>4. Fit(lanes[b], s, pc', job')
      BY <1>2, <3>2, <3>3 DEF Fit, SyncTurn
    <3> QED
      BY <3>1, <3>2, <3>4
  <2> QED
    BY <2>1, <2>2
<1>12. FitInv'
  BY <1>11 DEF FitInv
<1>13. HeldInv'
  <2> SUFFICES ASSUME NEW b \in Accounts, lanes'[b] # NoLane,
                      lane'[lanes'[b]].terminal # "none", ~lane'[lanes'[b]].retireOnIdle
               PROVE  Held(b)'
    BY DEF HeldInv, Barring
  <2>1. Held(b)
    <3>1. CASE b = a
      BY <1>1, <1>3, <1>4, <1>6, <1>7, <1>8, <3>1 DEF HeldInv, Barring
    <3>2. CASE b # a
      BY <1>1, <1>3, <1>4, <1>5, <3>2 DEF HeldInv, Barring, TypeOK
    <3> QED
      BY <3>1, <3>2
  <2> QED
    BY <2>1 DEF Held, gateVars
<1>14. WaitInv'
  <2> SUFFICES ASSUME NEW u \in Tasks PROVE WaitsIn(u)'
    BY DEF WaitInv
  <2>1. CASE u = t
    BY <1>1, <1>2, <1>3, <1>4, <2>1 DEF WaitsIn, QueuedIn
  <2>2. CASE u # t
    <3>1. WaitsIn(u) /\ pc'[u] = pc[u] /\ job'[u] = job[u]
      BY <1>1, <1>2, <2>2 DEF WaitInv
    <3>2. ASSUME pc[u] = "queued"
          PROVE  /\ job[u].account \in Accounts /\ job[u].lane \in LaneIds
                 /\ lanes'[job[u].account] = job[u].lane /\ u \in QueuedIn(lane'[job[u].lane])
      <4>1. /\ job[u].account \in Accounts /\ job[u].lane \in LaneIds
            /\ lanes[job[u].account] = job[u].lane /\ u \in QueuedIn(lane[job[u].lane])
        BY <3>1, <3>2 DEF WaitsIn
      <4>2. CASE job[u].account = a
        <5>1. lanes[a] # NoLane
          BY <4>1, <4>2, NoneAssumption
        <5> QED
          BY <1>3, <1>4, <1>6, <4>1, <4>2, <5>1
      <4>3. CASE job[u].account # a
        BY <1>3, <1>4, <1>5, <4>1, <4>3
      <4> QED
        BY <4>2, <4>3
    <3>3. ASSUME pc[u] = "terminal"
          PROVE  job[u].lane \in LaneIds /\ lane'[job[u].lane].terminal = "committed_active"
      <4>1. job[u].lane \in LaneIds /\ lane[job[u].lane].terminal = "committed_active"
        BY <3>1, <3>3 DEF WaitsIn
      <4>2. CASE job[u].lane = l
        BY <1>3, <1>6, <1>7, <3>3, <4>1, <4>2
      <4>3. CASE job[u].lane # l
        BY <1>3, <4>1, <4>3
      <4> QED
        BY <4>2, <4>3
    <3> QED
      BY <3>1, <3>2, <3>3 DEF WaitsIn
  <2> QED
    BY <2>1, <2>2
<1> QED
  BY <1>12, <1>13, <1>14 DEF AdmitInv, RotationInv, gateVars

LEMMA AppendTo ==
  ASSUME NEW q \in Seq(Tasks), NEW t \in Tasks
  PROVE  /\ Append(q, t) \in Seq(Tasks) /\ Append(q, t) # <<>>
         /\ Append(q, t)[Len(Append(q, t))] = t
         /\ DOMAIN q \subseteq DOMAIN Append(q, t) /\ \A i \in DOMAIN q : Append(q, t)[i] = q[i]
         /\ Len(Append(q, t)) \in DOMAIN Append(q, t)
  OBVIOUS

LEMMA AdmitCall ==
  ASSUME IInv, AdmitInv, NEW t \in Tasks, Call(t)
  PROVE  AdmitInv'
<1>1. /\ TypeOK /\ MapInv /\ FitInv /\ HeldInv /\ WaitInv /\ RotationInv
      /\ pc \in [Tasks -> Positions] /\ job \in [Tasks -> JobRec]
  BY DEF IInv, AdmitInv, TypeOK
<1>2. ASSUME pc[t] = "idle", UNCHANGED <<laneVars, gateVars>>,
             NEW p \in {"done", "joined"}, pc' = [pc EXCEPT ![t] = p],
             job' = job \/ \E j : job' = [job EXCEPT ![t] = j]
      PROVE  AdmitInv'
  <2>1. pc'[t] = p /\ \A u \in Tasks : u # t => pc'[u] = pc[u] /\ job'[u] = job[u]
    BY <1>1, <1>2
  <2>2. \A b \in Accounts : Held(b) => Held(b)'
    BY <1>2 DEF Held, gateVars
  <2>3. FitInv' /\ HeldInv' /\ WaitInv'
    BY <1>1, <1>2, <2>1, <2>2, AdmitQuiet DEF Running, MutationTurn
  <2> QED
    BY <1>1, <1>2, <2>3 DEF AdmitInv, RotationInv, gateVars
<1>3. ASSUME NEW a \in Accounts, NEW k \in Kinds,
             NEW policy \in {"none", "coalesce", "force"}, Refuse(t, k, a, policy)
      PROVE  AdmitInv'
  BY <1>2, <1>3 DEF Refuse, Answer
<1>4. ASSUME NEW a \in Accounts, NEW policy \in {"coalesce", "force"}, JoinSync(t, a, policy)
      PROVE  AdmitInv'
  BY <1>2, <1>4 DEF JoinSync
<1>5. ASSUME NEW a \in Accounts, NEW k \in Kinds,
             NEW policy \in {"none", "coalesce", "force"}, Enqueue(t, k, a, policy)
      PROVE  AdmitInv'
  <2>1. PICK l \in LanesFor(a) :
          LET r == FieldsFor(a, l) IN
          /\ lanes' = [lanes EXCEPT ![a] = l]
          /\ lane' = [lane EXCEPT ![l] =
                       [r EXCEPT !.queue = Append(@, t), !.draining = TRUE,
                                 !.tailSync = TailAfter(k, t, r)]]
          /\ job' = [job EXCEPT ![t] =
                      Entry(k, a, l, r.epoch, gate.generation, policy, NoTask)]
    BY <1>5 DEF Enqueue
  <2> DEFINE r == FieldsFor(a, l)
             e == [r EXCEPT !.queue = Append(@, t), !.draining = TRUE,
                            !.tailSync = TailAfter(k, t, r)]
             j == Entry(k, a, l, r.epoch, gate.generation, policy, NoTask)
  <2>2. l \in LaneIds /\ r \in LaneRec /\ r.queue \in Seq(Tasks)
    BY <1>1, <2>1, LanesForType DEF LaneRec
  <2>3. ~r.suspended
    BY <1>5, <2>1, LanesForCases DEF Enqueue, Suspended, FieldsFor, NewLane
  <2>4. pc[t] = "idle" /\ pc' = [pc EXCEPT ![t] = "queued"] /\ UNCHANGED gateVars
    BY <1>5 DEF Enqueue
  <2>5. lane' = [lane EXCEPT ![l] = e] /\ job' = [job EXCEPT ![t] = j] /\ j.lane = l /\ j.account = a
    BY <2>1 DEF Entry
  <2> HIDE DEF r
  <2>6. TailAfter(k, t, r) \in {t, NoTask}
    BY DEF TailAfter
  <2>7. Append(r.queue, t) \in Seq(Tasks) /\ Append(r.queue, t) # <<>>
    BY <2>2, AppendTo
  <2>8. /\ e \in LaneRec /\ e.queue = Append(r.queue, t) /\ e.tailSync \in {t, NoTask}
        /\ e.terminal = r.terminal /\ e.retireOnIdle = r.retireOnIdle /\ e.active = r.active
        /\ e.activeSync = r.activeSync /\ ~e.suspended
    BY <2>2, <2>3, <2>6, <2>7 DEF LaneRec
  <2> HIDE DEF e, j
  <2>9. QueuedIn(r) \subseteq QueuedIn(e) /\ t \in QueuedIn(e)
    BY <2>2, <2>8, AppendTo DEF QueuedIn
  <2>10. e.queue # <<>> /\ e.queue[Len(e.queue)] = t
    BY <2>2, <2>8, AppendTo
  <2>11. Fit(l, r, pc, job) => Fit(l, e, pc, job)
    BY <2>3, <2>8, <2>10 DEF Fit
  <2>12. r = FieldsFor(a, l) /\ e.terminal = r.terminal /\ e.retireOnIdle = r.retireOnIdle
         /\ e.active = r.active /\ QueuedIn(r) \subseteq QueuedIn(e)
    BY <2>8, <2>9 DEF r
  <2>13. lanes' = [lanes EXCEPT ![a] = l]
    BY <2>1
  <2>14. "queued" = "queued" => t \in QueuedIn(e) /\ j.lane = l /\ j.account = a
    BY <2>5, <2>9
  <2> QED
    BY <2>4, <2>5, <2>8, <2>11, <2>12, <2>13, <2>14, AdmitEntered
<1>6. ASSUME NEW a \in Accounts, RequiresReconcile(t, a) PROVE AdmitInv'
  <2>1. PICK l \in LanesFor(a) :
          LET r == FieldsFor(a, l) IN
         \/ /\ lanes[a] = NoLane /\ ~HasCapacity(a)
            /\ Answer(t, "rejected")
            /\ UNCHANGED <<laneVars, job>>
         \/ /\ r.dirtyLoaded
            /\ Answer(t, DirtyAnswer(r))
            /\ ReleaseIfIdle(l, r)
            /\ UNCHANGED <<lane, job>>
         \/ /\ lanes[a] # NoLane \/ HasCapacity(a)
            /\ ~r.dirtyLoaded
            /\ pc' = [pc EXCEPT ![t] = "querying"]
            /\ job' = [job EXCEPT ![t] = Entry("query", a, l, 0, 0, "none", NoTask)]
            /\ lanes' = [lanes EXCEPT ![a] = l]
            /\ lane' = [lane EXCEPT ![l] = [r EXCEPT !.dirtyLoad = TRUE]]
            /\ UNCHANGED outcome
    BY <1>6 DEF RequiresReconcile
  <2> DEFINE r == FieldsFor(a, l)
  <2>2. l \in LaneIds /\ r \in LaneRec
    BY <1>1, <2>1, LanesForType
  <2>3. UNCHANGED gateVars /\ pc[t] = "idle"
    BY <1>6 DEF RequiresReconcile
  <2>4. CASE UNCHANGED <<laneVars, job>> /\ Answer(t, "rejected")
    BY <1>2, <2>3, <2>4 DEF Answer
  <2>5. CASE /\ r.dirtyLoaded
             /\ Answer(t, DirtyAnswer(r))
             /\ ReleaseIfIdle(l, r)
             /\ UNCHANGED <<lane, job>>
    <3>1. l = lanes[a] /\ r = lane[l] /\ lane' = [lane EXCEPT ![l] = r]
      BY <1>1, <2>2, <2>5, LanesForCases DEF FieldsFor, NewLane, TypeOK
    <3>2. \A u \in Tasks : pc'[u] = IF u = t THEN "done" ELSE pc[u]
      BY <1>1, <2>5 DEF Answer
    <3>3. /\ r.account = a /\ Fit(l, r, pc, job) /\ r.active \in Tasks \cup {NoTask}
          /\ r.activeSync \in Tasks \cup {NoTask}
          /\ (r.terminal # "none" /\ ~r.retireOnIdle => Held(a))
      BY <1>1, <2>2, <3>1, NoneAssumption DEF MapInv, FitInv, LaneRec, HeldInv, Barring
    <3>4. /\ job' = job /\ r.account = lane[l].account /\ ReleaseIfIdle(l, r)
          /\ lane' = [lane EXCEPT ![l] = r] /\ lanes[a] = l
      BY <2>5, <3>1
    <3>15. r = lane[l]
      BY <3>1
    <3> HIDE DEF r
    <3>5. Fit(l, r, pc', job)
      BY <2>3, <3>2, <3>3 DEF Fit, SyncTurn
    <3>6. \A u \in Tasks : pc'[u] = "queued" =>
            pc[u] = "queued" /\ (job[u].lane = l => u \in QueuedIn(r))
      BY <1>1, <3>2, <3>4, <3>15 DEF WaitInv, WaitsIn, QueuedIn
    <3>7. \A u \in Tasks : pc'[u] = "terminal" =>
            IF job[u].lane = l THEN r.terminal = "committed_active" ELSE pc[u] = "terminal"
      BY <1>1, <3>2, <3>4, <3>15 DEF WaitInv, WaitsIn
    <3>8. \A u \in Tasks : pc[u] \in SyncTurn \cup {"terminal"} /\ job[u].lane # l => pc'[u] = pc[u]
      BY <2>3, <3>2 DEF SyncTurn
    <3>9. \A b : Held(b)' <=> Held(b)
      BY <2>3 DEF Held, gateVars
    <3>10. \A b \in Accounts : lanes[b] # l /\ Held(b) => Held(b)'
      BY <3>9
    <3>11. \A b \in Accounts : lanes'[b] = l => Fit(l, r, pc', job)
      BY <3>5
    <3>12. \A b \in Accounts : lanes'[b] = l => lanes[b] = l /\ b = a
      BY <1>1, <2>2, <3>4, StaysMapped, OwnLane, NoneAssumption
    <3>13. \A b \in Accounts : lanes'[b] = l /\ r.terminal # "none" /\ ~r.retireOnIdle => Held(b)'
      BY <3>3, <3>9, <3>12
    <3>14. FitInv' /\ HeldInv' /\ WaitInv'
      <4>1. lanes' = lanes \/ ReleaseIfIdle(l, r)
        BY <3>4
      <4> QED
      BY <1>1, <2>2, <3>4, <4>1, <3>6, <3>7, <3>8, <3>10, <3>11, <3>13, ShapeFrame
    <3> QED
      BY <1>1, <2>3, <3>14 DEF AdmitInv, RotationInv, gateVars
  <2>6. CASE /\ pc' = [pc EXCEPT ![t] = "querying"]
             /\ job' = [job EXCEPT ![t] = Entry("query", a, l, 0, 0, "none", NoTask)]
             /\ lanes' = [lanes EXCEPT ![a] = l]
             /\ lane' = [lane EXCEPT ![l] = [r EXCEPT !.dirtyLoad = TRUE]]
    <3> DEFINE e == [r EXCEPT !.dirtyLoad = TRUE]
               j == Entry("query", a, l, 0, 0, "none", NoTask)
    <3>1. r = FieldsFor(a, l)
      OBVIOUS
    <3>2. lane' = [lane EXCEPT ![l] = e] /\ job' = [job EXCEPT ![t] = j]
      BY <2>6
    <3> HIDE DEF r
    <3>3. e \in LaneRec /\ SameShape([e EXCEPT !.dirtyLoad = r.dirtyLoad], r) /\ e.dirtyLoad
          /\ e.terminal = r.terminal /\ e.retireOnIdle = r.retireOnIdle /\ e.active = r.active
          /\ e.activeSync = r.activeSync /\ e.queue = r.queue /\ e.suspended = r.suspended
          /\ e.tailSync = r.tailSync
      BY <2>2 DEF LaneRec, SameShape
    <3> HIDE DEF e, j
    <3>4. Fit(l, r, pc, job) => Fit(l, e, pc, job)
      BY <3>3 DEF Fit
    <3>5. QueuedIn(r) \subseteq QueuedIn(e)
      BY <3>3 DEF QueuedIn
    <3>6. lanes' = [lanes EXCEPT ![a] = l] /\ pc' = [pc EXCEPT ![t] = "querying"]
      BY <2>6
    <3> QED
      BY <2>1, <2>3, <3>1, <3>2, <3>3, <3>4, <3>5, <3>6, AdmitEntered
  <2> QED
    BY <2>1, <2>4, <2>5, <2>6
<1> QED
  BY <1>3, <1>4, <1>5, <1>6 DEF Call

(* Readmission rewrites a lane of the map and may delete it: the lane is   *)
(* open again, or was retired and stays until it is idle.                  *)
LEMMA AdmitReadmit ==
  ASSUME IInv, AdmitInv, NEW a \in Accounts, lanes[a] # NoLane, NEW r \in LaneRec,
         Readmit(a, r), UNCHANGED <<pc, job>>,
         NEW s, s = lane[lanes[a]],
         r.account = s.account, r.active = s.active, r.queue = s.queue,
         r.tailSync = s.tailSync, r.activeSync = s.activeSync, r.dirtyLoad = s.dirtyLoad,
         r.suspended => s.suspended, r.terminal # "none" => r.suspended,
         r.terminal = s.terminal \/ (r.terminal = "none" /\ s.terminal # "committed_active"),
         r.retireOnIdle => r.terminal # "none",
         \A b \in Accounts : b # a /\ Held(b) => Held(b)',
         r.terminal # "none" /\ ~r.retireOnIdle => Held(a)'
  PROVE  FitInv' /\ HeldInv' /\ WaitInv'
<1> DEFINE l == lanes[a]
<1>1. /\ TypeOK /\ MapInv /\ FitInv /\ HeldInv /\ WaitInv /\ l \in LaneIds /\ s \in LaneRec
      /\ lanes \in [Accounts -> LaneIds \cup {NoLane}]
  BY LaneFields DEF IInv, AdmitInv, TypeOK
<1>2. /\ lane' = [lane EXCEPT ![l] = r] /\ ReleaseIfIdle(l, r) /\ job' = job /\ pc' = pc
      /\ r.account = lane[l].account
  BY DEF Readmit
<1>3. \A b \in Accounts : lanes'[b] = l => lanes[b] = l /\ b = a
  BY <1>1, <1>2, StaysMapped, OwnLane, NoneAssumption
<1>4. Fit(l, s, pc, job) /\ s = lane[l] /\ s.account = a
  BY <1>1 DEF FitInv, MapInv
<1>5. \A u \in Tasks : pc'[u] = "queued" =>
        pc[u] = "queued" /\ (job[u].lane = l => u \in QueuedIn(r))
  BY <1>1, <1>2, <1>4 DEF WaitInv, WaitsIn, QueuedIn
<1>6. \A u \in Tasks : pc'[u] = "terminal" =>
        IF job[u].lane = l THEN r.terminal = "committed_active" ELSE pc[u] = "terminal"
  BY <1>1, <1>2, <1>4 DEF WaitInv, WaitsIn
<1>7. \A u \in Tasks : pc[u] \in SyncTurn \cup {"terminal"} /\ job[u].lane # l => pc'[u] = pc[u]
  BY <1>2
<1>8. \A b \in Accounts : lanes[b] # l /\ Held(b) => Held(b)'
  OBVIOUS
<1> HIDE DEF l
<1>9. ASSUME NEW b \in Accounts, lanes'[b] = l PROVE Fit(l, r, pc', job)
  <2>1. lanes[b] = l /\ r.account = b
    BY <1>3, <1>4, <1>9
  <2>2. r.suspended /\ r.active = NoTask /\ ~r.dirtyLoad => r.terminal # "none" /\ ~r.retireOnIdle
    <3> SUFFICES ASSUME r.suspended, r.active = NoTask, ~r.dirtyLoad
                 PROVE  r.terminal # "none" /\ ~r.retireOnIdle
      OBVIOUS
    <3>1. /\ r.queue = <<>> /\ r.tailSync = NoTask /\ r.activeSync = NoTask
          /\ r.terminal # "committed_active"
      <4>1. s.suspended /\ s.active = NoTask
        OBVIOUS
      <4>2. s.queue = <<>> /\ s.tailSync = NoTask
        BY <1>4, <4>1 DEF Fit
      <4>3. s.activeSync = NoTask
        BY <1>4, <4>1 DEF Fit
      <4>4. s.terminal # "committed_active"
        BY <1>4, <4>1 DEF Fit
      <4> QED
        BY <4>2, <4>3, <4>4
    <3> QED
      BY <1>1, <1>2, <1>9, <2>1, <3>1, IdleReleased
  <2>3. r.terminal = "committed_active" => s.terminal = "committed_active"
    OBVIOUS
  <2>4. /\ r.suspended => r.queue = <<>> /\ r.tailSync = NoTask
        /\ r.tailSync # NoTask => r.queue # <<>> /\ r.tailSync = r.queue[Len(r.queue)]
        /\ r.activeSync # NoTask =>
             r.active = r.activeSync /\ job[r.active].lane = l /\ pc'[r.active] \in SyncTurn
        /\ r.terminal = "committed_active" =>
             r.active # NoTask /\ job[r.active].lane = l /\ pc'[r.active] = "terminal"
    BY <1>2, <1>4, <2>3 DEF Fit
  <2> QED
    BY <2>2, <2>4 DEF Fit
<1>10. \A b \in Accounts : lanes'[b] = l => Fit(l, r, pc', job)
  BY <1>9
<1>11. \A b \in Accounts : lanes'[b] = l /\ r.terminal # "none" /\ ~r.retireOnIdle => Held(b)'
  <2>1. \A b \in Accounts : lanes'[b] = l => b = a
    BY <1>3
  <2>2. r.terminal # "none" /\ ~r.retireOnIdle => \A b : b = a => Held(b)'
    OBVIOUS
  <2> QED
    BY <2>1, <2>2
<1>12. lanes' = lanes \/ ReleaseIfIdle(l, r)
  BY <1>2
<1>13. /\ lane' = [lane EXCEPT ![l] = r] /\ job' = job /\ r.account = lane[l].account
  BY <1>2
<1>14. TypeOK /\ MapInv /\ FitInv /\ HeldInv /\ WaitInv /\ l \in LaneIds
  BY <1>1
<1>15. \A b \in Accounts : lanes[b] # l /\ Held(b) => Held(b)'
  BY <1>8 DEF l
<1> QED
  BY <1>5, <1>6, <1>7, <1>10, <1>11, <1>12, <1>13, <1>14, <1>15, ShapeFrame

(* A settled transition, or an unlock, opens the lane of the account again *)
(* when no rotation holds any lane back.                                   *)
LEMMA AdmitResume ==
  ASSUME IInv, AdmitInv, NEW a, ResumeAccount(a), UNCHANGED <<pc, job>>, ~blocked
  PROVE  FitInv' /\ HeldInv' /\ WaitInv'
<1>1. TypeOK /\ FitInv /\ HeldInv /\ WaitInv /\ \A b : ~Held(b)
  BY DEF IInv, AdmitInv, Held
<1>2. CASE Resumable(a)
  <2> DEFINE s == lane[lanes[a]]
             r == Resumed(s)
  <2>1. a \in Accounts /\ lanes[a] # NoLane /\ s \in LaneRec /\ s.terminal = "none"
    BY <1>1, <1>2 DEF Resumable, Tracked, TypeOK
  <2>2. Readmit(a, r)
    BY <1>2 DEF ResumeAccount
  <2>3. Fit(lanes[a], s, pc, job)
    BY <1>1, <2>1 DEF FitInv
  <2> HIDE DEF s
  <2>4. r \in LaneRec /\ r.account = s.account /\ r.active = s.active /\ r.queue = s.queue
    BY <2>1, ReopenedType
  <2>5. /\ r.tailSync = s.tailSync /\ r.activeSync = s.activeSync /\ r.dirtyLoad = s.dirtyLoad
        /\ ~r.suspended /\ r.terminal = s.terminal /\ r.retireOnIdle = s.retireOnIdle
    BY <2>1 DEF Resumed, LaneRec
  <2>6. ~r.retireOnIdle /\ s = lane[lanes[a]]
    BY <2>1, <2>3, <2>5 DEF Fit, s
  <2> HIDE DEF r
  <2> QED
    BY <1>1, <2>1, <2>2, <2>4, <2>5, <2>6, AdmitReadmit
<1>3. CASE ~Resumable(a)
  <2>1. UNCHANGED laneVars
    BY <1>3 DEF ResumeAccount
  <2> QED
    BY <1>1, <2>1, AdmitQuiet
<1> QED
  BY <1>2, <1>3

LEMMA AdmitSettled ==
  ASSUME IInv, AdmitInv, TransitionAdmits
  PROVE  AdmitInv'
<1>1. /\ TypeOK /\ FitInv /\ HeldInv /\ WaitInv /\ RotationInv
      /\ transition.phase = "settled" /\ UNCHANGED <<pc, job, gate>>
      /\ transition' = NoTransition
      /\ blocked' = IF transition.reason = "keyRotation" THEN FALSE ELSE blocked
      /\ SettleAdmission(transition.reason, transition.account, transition.opens)
  BY DEF IInv, AdmitInv, TransitionAdmits, callVars
<1>2. RotationInv'
  BY <1>1 DEF RotationInv, NoTransition
<1>3. CASE transition.reason = "keyRotation"
  <2> DEFINE a == transition.account
             s == lane[lanes[a]]
             r == [s EXCEPT !.retireOnIdle = TRUE]
  <2>1. gate.account = NoAccount /\ \A b : Held(b) => b = a
    BY <1>1, <1>3 DEF RotationInv, Held
  <2>2. CASE Retirable(a)
    <3>1. a \in Accounts /\ lanes[a] # NoLane /\ s \in LaneRec
      BY <1>1, <2>2 DEF Retirable, Tracked, TypeOK
    <3>2. Readmit(a, r)
      BY <1>1, <1>3, <2>2 DEF SettleAdmission
    <3>3. s.terminal # "none" /\ s.suspended /\ s = lane[lanes[a]]
      BY <2>2 DEF Retirable
    <3> HIDE DEF s
    <3>4. /\ r \in LaneRec /\ r.account = s.account /\ r.active = s.active /\ r.queue = s.queue
          /\ r.tailSync = s.tailSync /\ r.activeSync = s.activeSync /\ r.dirtyLoad = s.dirtyLoad
          /\ r.suspended /\ r.terminal = s.terminal /\ r.retireOnIdle
      BY <3>1, <3>3 DEF LaneRec
    <3> HIDE DEF r
    <3>5. \A b \in Accounts : b # a /\ Held(b) => Held(b)'
      BY <2>1
    <3> HIDE DEF a
    <3>6. FitInv' /\ HeldInv' /\ WaitInv'
      BY <1>1, <3>1, <3>2, <3>3, <3>4, <3>5, AdmitReadmit
    <3> QED
      BY <1>2, <3>6 DEF AdmitInv
  <2>3. CASE ~Retirable(a)
    <3>1. UNCHANGED laneVars
      BY <1>1, <1>3, <2>3 DEF SettleAdmission
    <3>2. ASSUME NEW b \in Accounts, lanes[b] # NoLane, lane[lanes[b]].terminal # "none",
                 ~lane[lanes[b]].retireOnIdle
          PROVE  FALSE
      <4>1. b = a /\ Fit(lanes[b], lane[lanes[b]], pc, job)
        BY <1>1, <2>1, <3>2 DEF HeldInv, Barring, FitInv
      <4>2. lane[lanes[b]].suspended
        BY <3>2, <4>1 DEF Fit
      <4>3. gate.account # b
        BY <2>1, NoneAssumption
      <4> QED
        BY <2>3, <3>2, <4>1, <4>2, <4>3 DEF Retirable, Tracked, LeaseHolds
    <3>3. FitInv' /\ WaitInv'
      BY <1>1, <3>1 DEF FitInv, WaitInv, WaitsIn, laneVars
    <3>4. HeldInv'
      BY <3>1, <3>2 DEF HeldInv, Barring, laneVars
    <3> QED
      BY <1>2, <3>3, <3>4 DEF AdmitInv
  <2> QED
    BY <2>2, <2>3
<1>4. CASE transition.reason # "keyRotation"
  <2>1. ~blocked /\ ~blocked' /\ \A b : ~Held(b)
    BY <1>1, <1>4 DEF RotationInv, Held
  <2>2. CASE UNCHANGED laneVars
    <3>1. FitInv' /\ HeldInv' /\ WaitInv'
      BY <1>1, <2>1, <2>2, AdmitQuiet
    <3> QED
      BY <1>2, <3>1 DEF AdmitInv
  <2>3. CASE ResumeAccount(gate.account)
    <3>1. FitInv' /\ HeldInv' /\ WaitInv'
      BY <1>1, <2>1, <2>3, AdmitResume
    <3> QED
      BY <1>2, <3>1 DEF AdmitInv
  <2>4. CASE /\ Resettable(gate.account)
             /\ Readmit(gate.account, Reset(lane[lanes[gate.account]]))
    <3> DEFINE a == gate.account
               s == lane[lanes[a]]
               r == Reset(s)
    <3>1. a \in Accounts /\ lanes[a] # NoLane /\ s \in LaneRec /\ s.terminal = "sealed"
      BY <1>1, <2>4 DEF Resettable, Tracked, TypeOK
    <3>2. Readmit(a, r) /\ s = lane[lanes[a]]
      BY <2>4
    <3> HIDE DEF s
    <3>3. r \in LaneRec /\ r.account = s.account /\ r.active = s.active /\ r.queue = s.queue
      BY <3>1, ReopenedType
    <3>4. /\ r.tailSync = s.tailSync /\ r.activeSync = s.activeSync /\ r.dirtyLoad = s.dirtyLoad
          /\ ~r.suspended /\ r.terminal = "none" /\ ~r.retireOnIdle
      BY <3>1 DEF Reset, LaneRec
    <3> HIDE DEF r, a
    <3>5. FitInv' /\ HeldInv' /\ WaitInv'
      BY <1>1, <2>1, <3>1, <3>2, <3>3, <3>4, AdmitReadmit
    <3> QED
      BY <1>2, <3>5 DEF AdmitInv
  <2> QED
    BY <1>1, <1>4, <2>2, <2>3, <2>4 DEF SettleAdmission
<1> QED
  BY <1>3, <1>4

(* The account that was open loses its lane's queue; a lane that is idle   *)
(* by then goes, unless it bars other calls.                               *)
LEMMA AdmitInvalidated ==
  ASSUME IInv, AdmitInv, TransitionInvalidates
  PROVE  AdmitInv'
<1>1. /\ TypeOK /\ MapInv /\ FitInv /\ HeldInv /\ WaitInv /\ RotationInv
      /\ transition.phase = "closed" /\ UNCHANGED <<job, gate, blocked>>
      /\ transition' = [transition EXCEPT !.phase = "moving"]
      /\ lanes \in [Accounts -> LaneIds \cup {NoLane}]
  BY DEF IInv, AdmitInv, TransitionInvalidates, TypeOK
<1>2. /\ transition'.phase = "moving" /\ transition'.account = transition.account
      /\ transition'.reason = transition.reason
  BY <1>1 DEF TypeOK
<1>3. RotationInv' /\ \A b : Held(b)' <=> Held(b)
  BY <1>1, <1>2 DEF RotationInv, Held
<1>4. CASE ~Tracked(transition.account)
  <2>1. UNCHANGED <<laneVars, pc>>
    BY <1>4 DEF TransitionInvalidates
  <2>2. FitInv' /\ HeldInv' /\ WaitInv'
    BY <1>1, <1>3, <2>1, AdmitQuiet
  <2> QED
    BY <1>3, <2>2 DEF AdmitInv
<1>5. CASE Tracked(transition.account)
  <2> DEFINE a == transition.account
             l == lanes[a]
             s == lane[l]
             r == Invalidated(s)
  <2>1. a \in Accounts /\ l # NoLane /\ l \in LaneIds /\ s \in LaneRec
    BY <1>1, <1>5 DEF Tracked, TypeOK
  <2>2. InvalidateLane(l, s) /\ pc' = Cancelled(s)
    BY <1>5 DEF TransitionInvalidates
  <2>3. Fit(l, s, pc, job) /\ s.account = a
        /\ (s.terminal # "none" /\ ~s.retireOnIdle => Held(a))
    BY <1>1, <2>1 DEF FitInv, MapInv, HeldInv, Barring
  <2>4. s = lane[l] /\ \A b \in Accounts : lanes[b] = l => b = a
    BY <1>1, <2>1, OwnLane
  <2>5. \A u \in QueuedIn(s) : pc[u] = "queued" /\ job[u].lane = l
    BY <2>1 DEF QueuedIn, IInv, QueueInv
  <2>6. \A u \in Tasks : pc'[u] = IF u \in QueuedIn(s) THEN "done" ELSE pc[u]
    BY <2>2 DEF Cancelled
  <2> HIDE DEF s, l
  <2>7. lane' = [lane EXCEPT ![l] = r] /\ ReleaseIfIdle(l, r)
    BY <2>2 DEF InvalidateLane
  <2>8. r \in LaneRec /\ r.account = s.account /\ r.active = s.active /\ r.queue = <<>>
    BY <2>1, InvalidatedType
  <2>9. /\ r.suspended /\ r.tailSync = NoTask /\ r.terminal = s.terminal
        /\ r.retireOnIdle = s.retireOnIdle /\ r.activeSync = s.activeSync
    BY <2>1 DEF Invalidated, LaneRec
  <2> HIDE DEF r
  <2>10. ASSUME NEW b \in Accounts, lanes'[b] = l PROVE Fit(l, r, pc', job)
    <3>1. lanes[b] = l /\ r.account = b
      BY <1>1, <2>1, <2>3, <2>4, <2>7, <2>8, <2>10, StaysMapped
    <3>2. s.activeSync # NoTask =>
             s.active = s.activeSync /\ job[s.active].lane = l /\ pc'[s.active] \in SyncTurn
      <4> SUFFICES ASSUME s.activeSync # NoTask
                   PROVE  s.active = s.activeSync /\ job[s.active].lane = l
                          /\ pc'[s.active] \in SyncTurn
        OBVIOUS
      <4>1. s.active = s.activeSync /\ job[s.active].lane = l /\ pc[s.active] \in SyncTurn
            /\ s.active \in Tasks
        BY <2>1, <2>3 DEF Fit, LaneRec
      <4> QED
        BY <2>5, <2>6, <4>1 DEF SyncTurn
    <3>3. s.terminal = "committed_active" =>
             s.active # NoTask /\ job[s.active].lane = l /\ pc'[s.active] = "terminal"
      <4> SUFFICES ASSUME s.terminal = "committed_active"
                   PROVE  s.active # NoTask /\ job[s.active].lane = l
                          /\ pc'[s.active] = "terminal"
        OBVIOUS
      <4>1. s.active # NoTask /\ job[s.active].lane = l /\ pc[s.active] = "terminal"
            /\ s.active \in Tasks
        BY <2>1, <2>3 DEF Fit, LaneRec
      <4> QED
        BY <2>5, <2>6, <4>1
    <3>4. r.active = NoTask => r.activeSync = NoTask /\ r.terminal # "committed_active"
      BY <2>8, <2>9, <3>2, <3>3
    <3>5. r.active = NoTask /\ ~r.dirtyLoad => r.terminal # "none" /\ ~r.retireOnIdle
      BY <1>1, <2>1, <2>7, <2>8, <2>9, <2>10, <3>1, <3>4, IdleReleased
    <3>6. r.retireOnIdle => r.terminal # "none"
      BY <2>3, <2>9 DEF Fit
    <3> QED
      BY <2>8, <2>9, <3>2, <3>3, <3>5, <3>6 DEF Fit
  <2>11. \A u \in Tasks : pc'[u] = "queued" =>
           pc[u] = "queued" /\ (job[u].lane = l => u \in QueuedIn(r))
    <3> SUFFICES ASSUME NEW u \in Tasks, pc'[u] = "queued" PROVE pc[u] = "queued" /\ job[u].lane # l
      OBVIOUS
    <3>1. pc[u] = "queued" /\ u \notin QueuedIn(s)
      BY <2>6
    <3>2. job[u].lane = l => u \in QueuedIn(s)
      BY <1>1, <2>4, <3>1 DEF WaitInv, WaitsIn
    <3> QED
      BY <3>1, <3>2
  <2>12. \A u \in Tasks : pc'[u] = "terminal" =>
           IF job[u].lane = l THEN r.terminal = "committed_active" ELSE pc[u] = "terminal"
    BY <1>1, <2>4, <2>6, <2>9 DEF WaitInv, WaitsIn
  <2>13. \A u \in Tasks : pc[u] \in SyncTurn \cup {"terminal"} /\ job[u].lane # l => pc'[u] = pc[u]
    BY <2>5, <2>6
  <2>14. \A b \in Accounts : lanes[b] # l /\ Held(b) => Held(b)'
    BY <1>3
  <2>15. \A b \in Accounts : lanes'[b] = l => Fit(l, r, pc', job)
    BY <2>10
  <2>16. \A b \in Accounts : lanes'[b] = l /\ r.terminal # "none" /\ ~r.retireOnIdle => Held(b)'
    BY <1>1, <1>3, <2>1, <2>3, <2>4, <2>7, <2>9, StaysMapped
  <2>17. lanes' = lanes \/ ReleaseIfIdle(l, r)
    BY <2>7
  <2>18. lane' = [lane EXCEPT ![l] = r] /\ job' = job /\ r.account = lane[l].account
    BY <1>1, <2>4, <2>7, <2>8
  <2>19. TypeOK /\ MapInv /\ FitInv /\ HeldInv /\ WaitInv /\ l \in LaneIds
    BY <1>1, <2>1
  <2>20. FitInv' /\ HeldInv' /\ WaitInv'
    BY <2>11, <2>12, <2>13, <2>14, <2>15, <2>16, <2>17, <2>18, <2>19, ShapeFrame
  <2> QED
    BY <1>3, <2>20 DEF AdmitInv
<1> QED
  BY <1>4, <1>5

LEMMA AdmitEnvironment ==
  ASSUME IInv, AdmitInv, Environment
  PROVE  AdmitInv'
<1>1. TypeOK /\ FitInv /\ HeldInv /\ WaitInv /\ RotationInv
  BY DEF IInv, AdmitInv
<1>2. ASSUME UNCHANGED <<laneVars, pc, job>>, \A b \in Accounts : Held(b) => Held(b)', RotationInv'
      PROVE  AdmitInv'
  <2>1. FitInv' /\ HeldInv' /\ WaitInv'
    BY <1>1, <1>2, AdmitQuiet
  <2> QED
    BY <1>2, <2>1 DEF AdmitInv
<1>3. ASSUME NEW t \in Tasks, CommitLands(t) PROVE AdmitInv'
  <2>1. UNCHANGED <<laneVars, pc, job, gateVars>>
    BY <1>3 DEF CommitLands, callVars
  <2> QED
    BY <1>1, <1>2, <2>1 DEF Held, RotationInv, gateVars
<1>4. ASSUME NEW reason \in {"login", "other", "keyRotation"}, TransitionStart(reason)
      PROVE  AdmitInv'
  <2>1. /\ UNCHANGED <<laneVars, pc, job, blocked>> /\ transition.phase = "idle"
        /\ blocked => reason = "keyRotation"
        /\ gate' = [generation |-> gate.generation + 1, account |-> NoAccount]
        /\ transition' = [phase |-> "closed", reason |-> reason,
                          account |-> gate.account, opens |-> FALSE]
    BY <1>4 DEF TransitionStart, callVars
  <2> QED
    BY <1>2, <2>1 DEF Held, RotationInv
<1>5. ASSUME NEW a \in Accounts \cup {NoAccount}, NEW opens \in BOOLEAN,
             TransitionSettles(a, opens)
      PROVE  AdmitInv'
  <2>1. /\ UNCHANGED <<laneVars, pc, job, blocked>> /\ transition.phase = "moving"
        /\ transition.reason = "keyRotation" => a = NoAccount
        /\ gate' = [gate EXCEPT !.account = a]
        /\ transition' = [transition EXCEPT !.phase = "settled", !.opens = opens]
    BY <1>5 DEF TransitionSettles, callVars
  <2>2. /\ gate'.account = a /\ transition'.phase = "settled"
        /\ transition'.account = transition.account /\ transition'.reason = transition.reason
    BY <1>1, <2>1 DEF TypeOK
  <2> QED
    BY <1>1, <1>2, <2>1, <2>2 DEF Held, RotationInv
<1>6. CASE UnlockSettles
  <2>1. ~blocked /\ ResumeAccount(gate.account) /\ UNCHANGED <<pc, job>> /\ UNCHANGED gateVars
    BY <1>6 DEF UnlockSettles, callVars
  <2>2. FitInv' /\ HeldInv' /\ WaitInv'
    BY <2>1, AdmitResume
  <2> QED
    BY <1>1, <2>1, <2>2 DEF AdmitInv, RotationInv, gateVars
<1>7. ASSUME NEW a \in Accounts \cup {NoAccount}, Restart(a) PROVE AdmitInv'
  <2>1. /\ lanes' = [b \in Accounts |-> NoLane] /\ transition' = NoTransition
        /\ pc' = [t \in Tasks |-> IF pc[t] = "idle" THEN "idle" ELSE "done"]
    BY <1>7 DEF Restart
  <2>2. \A t \in Tasks : pc'[t] \in {"idle", "done"}
    BY <2>1
  <2>3. FitInv' /\ HeldInv' /\ RotationInv'
    BY <2>1 DEF FitInv, HeldInv, Barring, RotationInv, NoTransition
  <2>4. WaitInv'
    BY <2>2 DEF WaitInv, WaitsIn
  <2> QED
    BY <2>3, <2>4 DEF AdmitInv
<1> QED
  BY <1>3, <1>4, <1>5, <1>6, <1>7, AdmitInvalidated, AdmitSettled DEF Environment

LEMMA AdmitInit ==
  ASSUME Init
  PROVE  AdmitInv /\ HonestInv
BY DEF Init, AdmitInv, FitInv, HeldInv, Barring, WaitInv, WaitsIn, RotationInv, NoTransition,
       HonestInv, HonestAt, MutationTurn, NoJob, Entry

-----------------------------------------------------------------------------
(* The barrier of a committed terminal operation.                          *)

(* A lane that bars stays in the map: what clears the way is readmission,  *)
(* which waits until the account gate has moved on.                        *)
LEMMA BarrierFrame ==
  ASSUME TypeOK, BarrierInv, gate'.generation \in Nat, gate'.generation >= gate.generation,
         \A u \in Tasks : job'[u] = job[u] \/ job'[u].lease <= gate'.generation,
         \A u \in Tasks : Barred(u)' => Barred(u) /\ job'[u] = job[u],
         \A u \in Tasks : pc'[u] = "queued" =>
           \/ pc[u] = "queued" /\ job'[u] = job[u]
           \/ job'[u].lease = gate.generation /\ ~Barring(job'[u].account),
         \/ /\ gate'.generation = gate.generation /\ transition'.phase = transition.phase
            /\ \A b \in Accounts : Barring(b) => Barring(b)'
         \/ \A u \in Tasks : Barred(u) => job[u].lease # gate'.generation
  PROVE  BarrierInv'
<1>1. job \in [Tasks -> JobRec] /\ gate.generation \in Nat
  BY DEF TypeOK
<1>2. \A u \in Tasks : job[u].lease \in Nat /\ job[u].lease <= gate.generation
  BY <1>1 DEF JobRec, BarrierInv
<1>3. \A u \in Tasks : job'[u].lease <= gate'.generation
  <2> SUFFICES ASSUME NEW u \in Tasks, job'[u] = job[u] PROVE job'[u].lease <= gate'.generation
    OBVIOUS
  <2> QED
    BY <1>1, <1>2
<1>4. ASSUME NEW t \in Tasks, Barred(t)' PROVE Bars(t)'
  <2>1. Barred(t) /\ job'[t] = job[t] /\ Bars(t)
    BY <1>4 DEF BarrierInv
  <2>2. job[t].account \in Accounts
    BY <2>1 DEF Bars
  <2>3. ASSUME gate'.generation = job[t].lease
        PROVE  transition'.phase = "idle" /\ \A b \in Accounts : b = job[t].account => Barring(b)'
    <3>1. gate.generation = job[t].lease
      BY <1>1, <1>2, <2>3
    <3>2. transition.phase = "idle" /\ Barring(job[t].account)
      BY <2>1, <3>1 DEF Bars
    <3>3. /\ gate'.generation = gate.generation /\ transition'.phase = transition.phase
          /\ \A b \in Accounts : Barring(b) => Barring(b)'
      BY <2>1, <2>3
    <3> QED
      BY <3>2, <3>3
  <2>4. ASSUME NEW u \in Tasks, pc'[u] = "queued", job'[u].account = job[t].account
        PROVE  job'[u].lease # job[t].lease
    <3>1. CASE pc[u] = "queued" /\ job'[u] = job[u]
      BY <2>1, <2>4, <3>1 DEF Bars
    <3>2. CASE job'[u].lease = gate.generation /\ ~Barring(job'[u].account)
      BY <2>1, <2>4, <3>2 DEF Bars
    <3> QED
      BY <2>4, <3>1, <3>2
  <2>5. \A b \in Accounts : b = job'[t].account => (gate'.generation = job'[t].lease => Barring(b)')
    BY <2>1, <2>3
  <2>6. gate'.generation = job'[t].lease => Barring(job[t].account)'
    <3> DEFINE b == job'[t].account
    <3>1. b \in Accounts /\ b = job[t].account
      BY <2>1, <2>2
    <3>2. gate'.generation = job'[t].lease =>
             /\ lanes'[b] # NoLane /\ lane'[lanes'[b]].terminal # "none"
             /\ ~lane'[lanes'[b]].retireOnIdle
      BY <2>5, <3>1 DEF Barring
    <3> QED
      BY <3>2 DEF Barring
  <2> QED
    BY <2>1, <2>2, <2>3, <2>4, <2>6 DEF Bars
<1> QED
  BY <1>3, <1>4 DEF BarrierInv

(* A step of a turn: only a terminal operation is answered as one.         *)
LEMMA BarrierTurn ==
  ASSUME IInv, HonestInv, AdmitInv, BarrierInv, NEW t \in Tasks, TurnStep(t)
  PROVE  BarrierInv'
<1> DEFINE l == job[t].lane
<1>1. /\ pc[t] \in Running /\ HoldsTurn(t) /\ MyLane(t) \in LaneRec /\ TypeOK /\ HonestAt(t)
      /\ pc \in [Tasks -> Positions] /\ outcome \in [Tasks -> Outcomes]
      /\ lane \in [LaneIds -> LaneRec] /\ gate.generation \in Nat /\ t # NoTask
  BY TurnHolds, NoneAssumption DEF IInv, HonestInv, TypeOK
<1>2. /\ l \in LaneIds /\ job[t].account \in Accounts /\ lanes[job[t].account] = l
      /\ MyLane(t) = lane[l] /\ lane[l].active = t /\ l # NoLane
  BY <1>1, NoneAssumption DEF HoldsTurn, MyLane
<1> HIDE DEF l
<1>3. ASSUME UNCHANGED <<job, gateVars>>, \A b \in Accounts : Barring(b) => Barring(b)',
             \A u \in Tasks : pc'[u] = "queued" => pc[u] = "queued",
             \A u \in Tasks : Barred(u)' => Barred(u)
      PROVE  BarrierInv'
  <2>1. gate' = gate /\ transition' = transition /\ job' = job
    BY <1>3 DEF gateVars
  <2>2. \A u \in Tasks : job'[u] = job[u]
    BY <2>1
  <2>3. gate'.generation \in Nat /\ gate'.generation >= gate.generation
    BY <1>1, <2>1
  <2> QED
    BY <1>1, <1>3, <2>1, <2>2, <2>3, BarrierFrame
<1>4. ASSUME NEW p \in Running \ {"terminal"}, pc' = [pc EXCEPT ![t] = p],
             UNCHANGED <<lanes, job, gateVars>>,
             NEW o \in Outcomes, outcome' = outcome \/ outcome' = [outcome EXCEPT ![t] = o],
             o \in {"ok", "outcome_unknown"} /\ job[t].kind = "terminal" => pc[t] = "terminal",
             NEW s \in LaneRec, lane' = lane \/ SetLane(t, s),
             s.retireOnIdle = MyLane(t).retireOnIdle,
             s.terminal = MyLane(t).terminal \/ s.terminal = "sealed"
      PROVE  BarrierInv'
  <2>1. \A b \in Accounts : Barring(b) => Barring(b)'
    <3>1. ASSUME NEW m \in LaneIds, lane[m].terminal # "none", ~lane[m].retireOnIdle
          PROVE  lane'[m].terminal # "none" /\ ~lane'[m].retireOnIdle
      <4>1. lane'[m] = lane[m] \/ (m = l /\ lane'[m] = s)
        BY <1>1, <1>2, <1>4 DEF SetLane, l
      <4> QED
        BY <1>2, <1>4, <3>1, <4>1
    <3>2. \A b \in Accounts : lanes'[b] = lanes[b] /\ lanes[b] \in LaneIds \cup {NoLane}
      BY <1>1, <1>4 DEF TypeOK
    <3> QED
      BY <3>1, <3>2 DEF Barring
  <2>2. p # "queued"
    BY DEF Running, MutationTurn
  <2>3. \A u \in Tasks : pc'[u] = (IF u = t THEN p ELSE pc[u])
                         /\ outcome'[u] \in (IF u = t THEN {outcome[u], o} ELSE {outcome[u]})
    BY <1>1, <1>4
  <2>4. job' = job /\ UNCHANGED gateVars
    BY <1>4
  <2>5. \A u \in Tasks : Barred(u)' => Barred(u)
    BY <1>4, <2>3, <2>4 DEF Barred
  <2> QED
    BY <1>3, <2>1, <2>2, <2>3, <2>4, <2>5
<1>5. ASSUME NEW s, \/ s = MyLane(t)
                    \/ \E d \in BOOLEAN :
                         s = [MyLane(t) EXCEPT !.dirtyLoaded = TRUE, !.needsReconcile = d]
      PROVE  /\ s \in LaneRec /\ s.retireOnIdle = MyLane(t).retireOnIdle
             /\ s.terminal = MyLane(t).terminal
  <2> DEFINE r == MyLane(t)
  <2>1. r \in LaneRec
    BY <1>1
  <2>2. s = r \/ \E d \in BOOLEAN : s = [r EXCEPT !.dirtyLoaded = TRUE, !.needsReconcile = d]
    BY <1>5
  <2> HIDE DEF r
  <2>3. s \in LaneRec /\ s.retireOnIdle = r.retireOnIdle /\ s.terminal = r.terminal
    BY <2>1, <2>2 DEF LaneRec
  <2> QED
    BY <2>3 DEF r
<1>6. ASSUME NEW s \in LaneRec
      PROVE  /\ SlotFreed(t, s) \in LaneRec /\ SlotFreed(t, s).retireOnIdle = s.retireOnIdle
             /\ SlotFreed(t, s).terminal = s.terminal
  BY DEF SlotFreed, LaneRec
<1>7. ASSUME NEW p \in Running \ {"terminal"}, pc' = [pc EXCEPT ![t] = p],
             UNCHANGED <<laneVars, job, gateVars>>,
             NEW o \in Outcomes, outcome' = outcome \/ outcome' = [outcome EXCEPT ![t] = o],
             o \in {"ok", "outcome_unknown"} /\ job[t].kind = "terminal" => pc[t] = "terminal"
      PROVE  BarrierInv'
  BY <1>1, <1>4, <1>7 DEF laneVars
<1> USE DEF Running, MutationTurn, Move, Return, Outcomes
<1>8. "none" \in Outcomes
  OBVIOUS
<1>9. ASSUME NEW ok \in BOOLEAN, SyncReturns(t, ok) PROVE BarrierInv'
  <2>1. /\ SlotFreed(t, MyLane(t)) \in LaneRec
        /\ SlotFreed(t, MyLane(t)).retireOnIdle = MyLane(t).retireOnIdle
        /\ SlotFreed(t, MyLane(t)).terminal = MyLane(t).terminal
    BY <1>1, <1>6
  <2>2. CASE pc' = [pc EXCEPT ![t] = "clearing"] /\ outcome' = outcome /\ UNCHANGED lane
    BY <1>7, <1>8, <1>9, <2>2 DEF SyncReturns, laneVars
  <2>3. CASE /\ pc' = [pc EXCEPT ![t] = "returning"] /\ SetLane(t, SlotFreed(t, MyLane(t)))
             /\ outcome' = [outcome EXCEPT ![t] = "rejected"]
    BY <1>4, <1>9, <2>1, <2>3 DEF SyncReturns
  <2> QED
    BY <1>9, <2>2, <2>3 DEF SyncReturns
<1>10. ASSUME NEW ok \in BOOLEAN, ReconcileReturns(t, ok) PROVE BarrierInv'
  BY <1>7, <1>8, <1>10 DEF ReconcileReturns
<1>11. ASSUME NEW ok \in BOOLEAN, ClearReturns(t, ok) PROVE BarrierInv'
  <2> DEFINE s == IF ok THEN [MyLane(t) EXCEPT !.dirtyLoaded = TRUE, !.needsReconcile = FALSE]
                  ELSE MyLane(t)
             o == IF job[t].kind = "sync" THEN IF ok /\ IsCurrent(t) THEN "ok" ELSE "rejected"
                  ELSE IF ok /\ IsCurrent(t) THEN "committed" ELSE "committed_unsynced"
  <2>1. /\ SetLane(t, SlotFreed(t, s)) /\ pc' = [pc EXCEPT ![t] = "returning"]
        /\ UNCHANGED <<lanes, job, gateVars>> /\ outcome' = [outcome EXCEPT ![t] = o]
    BY <1>11 DEF ClearReturns
  <2>2. o \in Outcomes /\ (o \in {"ok", "outcome_unknown"} => job[t].kind = "sync")
    OBVIOUS
  <2>3. s \in LaneRec /\ s.retireOnIdle = MyLane(t).retireOnIdle /\ s.terminal = MyLane(t).terminal
    BY <1>5
  <2> HIDE DEF s, o
  <2>4. /\ SlotFreed(t, s) \in LaneRec /\ SlotFreed(t, s).retireOnIdle = MyLane(t).retireOnIdle
        /\ SlotFreed(t, s).terminal = MyLane(t).terminal
    BY <1>6, <2>3
  <2>5. o \in {"ok", "outcome_unknown"} /\ job[t].kind = "terminal" => pc[t] = "terminal"
    BY <2>2
  <2> QED
    BY <1>4, <2>1, <2>2, <2>4, <2>5
<1>12. ASSUME NEW ok \in BOOLEAN, UnmarkReturns(t, ok) PROVE BarrierInv'
  <2> DEFINE s == IF ok THEN [MyLane(t) EXCEPT !.dirtyLoaded = TRUE, !.needsReconcile = FALSE]
                  ELSE MyLane(t)
  <2>1. /\ SetLane(t, s) /\ pc' = [pc EXCEPT ![t] = "returning"]
        /\ UNCHANGED <<lanes, job, gateVars>>
        /\ outcome' = [outcome EXCEPT ![t] = "not_committed"]
    BY <1>12 DEF UnmarkReturns
  <2>2. s \in LaneRec /\ s.retireOnIdle = MyLane(t).retireOnIdle /\ s.terminal = MyLane(t).terminal
    BY <1>5
  <2> HIDE DEF s
  <2> QED
    BY <1>4, <2>1, <2>2
<1>13. CASE CheckDirty(t)
  BY <1>7, <1>8, <1>13 DEF CheckDirty
<1>14. CASE MarkerWritten(t)
  BY <1>7, <1>8, <1>14 DEF MarkerWritten
<1>15. CASE MarkFails(t)
  BY <1>7, <1>15 DEF MarkFails
<1>16. CASE BeginCommit(t)
  <2> DEFINE s == [MyLane(t) EXCEPT !.dirtyLoaded = TRUE, !.needsReconcile = TRUE]
  <2>1. /\ SetLane(t, s) /\ UNCHANGED <<lanes, job, gateVars>> /\ outcome' = outcome
        /\ \E p \in {"committing", "unmarking"} : pc' = [pc EXCEPT ![t] = p]
    BY <1>16 DEF BeginCommit
  <2>2. s \in LaneRec /\ s.retireOnIdle = MyLane(t).retireOnIdle /\ s.terminal = MyLane(t).terminal
    BY <1>5
  <2> HIDE DEF s
  <2> QED
    BY <1>4, <1>8, <2>1, <2>2
<1>17. CASE CommitSucceeds(t)
  BY <1>7, <1>8, <1>17 DEF CommitSucceeds
<1>18. ASSUME NEW o \in {"not_committed", "conflict", "outcome_unknown"}, CommitFails(t, o)
       PROVE  BarrierInv'
  <2>1. job[t].kind = "mutation"
    BY <1>1, <1>18 DEF CommitFails, HonestAt
  <2> QED
    BY <1>7, <1>8, <1>18, <2>1 DEF CommitFails
<1>19. CASE MarkerCleared(t)
  BY <1>7, <1>8, <1>19 DEF MarkerCleared
<1>20. CASE PreflightFails(t)
  BY <1>7, <1>20 DEF PreflightFails
<1>21. CASE CommitTerminal(t)
  <2> DEFINE q == [lane[l] EXCEPT !.terminal = "committed_active",
                           !.terminalLease = job[t].lease, !.retireOnIdle = FALSE]
             s == Invalidated(q)
  <2>1. /\ pc' = [Cancelled(lane[l]) EXCEPT ![t] = "terminal"] /\ pc[t] = "preflight"
        /\ InvalidateLane(l, q) /\ job' = job /\ IsCurrent(t)
        /\ transition.phase = "idle" /\ UNCHANGED <<gate, transition>>
    BY <1>2, <1>21 DEF CommitTerminal, l
  <2>2. q \in LaneRec /\ q.active = t /\ q.terminal = "committed_active" /\ ~q.retireOnIdle
        /\ q.queue = lane[l].queue
    <3>1. job[t].lease \in Nat
      BY <1>1 DEF TypeOK, JobRec
    <3> QED
      BY <1>1, <1>2, <3>1 DEF LaneRec
  <2> HIDE DEF q
  <2>3. s.active = t /\ s.terminal = "committed_active" /\ ~s.retireOnIdle
    BY <2>2, InvalidatedType DEF Invalidated, LaneRec
  <2>4. lane' = [lane EXCEPT ![l] = s] /\ ReleaseIfIdle(l, s)
        /\ \A u \in Tasks : outcome'[u] = IF u \in QueuedIn(lane[l]) THEN "cancelled" ELSE outcome[u]
    BY <2>1, <2>2 DEF InvalidateLane, QueuedIn
  <2> HIDE DEF s
  <2>5. lanes' = lanes
    BY <1>1, <2>3, <2>4 DEF ReleaseIfIdle, Deletable
  <2>6. \A b \in Accounts : Barring(b) => Barring(b)'
    BY <1>1, <1>2, <2>3, <2>4, <2>5 DEF Barring
  <2>7. \A b \in Accounts : b = job[t].account => Barring(b)'
    BY <1>1, <1>2, <2>3, <2>4, <2>5 DEF Barring
  <2>8. \A u \in Tasks : pc'[u] = IF u = t THEN "terminal"
                                  ELSE IF u \in QueuedIn(lane[l]) THEN "done" ELSE pc[u]
    BY <2>1 DEF Cancelled
  <2>9. \A u \in Tasks : pc'[u] = "queued" => pc[u] = "queued" /\ job[u].account # job[t].account
    <3> SUFFICES ASSUME NEW u \in Tasks, pc'[u] = "queued", job[u].account = job[t].account
                 PROVE  FALSE
      BY <2>8
    <3>1. pc[u] = "queued" /\ u \notin QueuedIn(lane[l])
      BY <2>8
    <3> QED
      BY <1>2, <3>1 DEF AdmitInv, WaitInv, WaitsIn
  <2>10. gate.account = job[t].account /\ gate.generation = job[t].lease
    BY <2>1 DEF IsCurrent, CurrentIn, LeaseHolds
  <2>11. \A u \in Tasks : u # t => (Barred(u)' => Barred(u))
    <3>1. \A u \in QueuedIn(lane[l]) : pc[u] = "queued"
      BY <1>2 DEF QueuedIn, IInv, QueueInv
    <3> QED
      BY <2>1, <2>4, <2>8, <3>1 DEF Barred
  <2>12. Bars(t)'
    <3>1. Barring(job[t].account)'
      <4> DEFINE b == job[t].account
      <4>1. lanes'[b] # NoLane /\ lane'[lanes'[b]].terminal # "none" /\ ~lane'[lanes'[b]].retireOnIdle
        BY <1>1, <1>2, <2>3, <2>4, <2>5
      <4> QED
        BY <2>1, <4>1 DEF Barring
    <3> QED
      BY <1>2, <2>1, <2>9, <3>1 DEF Bars
  <2>13. ASSUME NEW u \in Tasks, u # t, Barred(u)' PROVE Bars(u)'
    <3>1. Bars(u)
      BY <2>11, <2>13 DEF BarrierInv
    <3>2. gate.generation = job[u].lease => Barring(job[u].account)'
      <4> SUFFICES ASSUME gate.generation = job[u].lease PROVE Barring(job[u].account)'
        OBVIOUS
      <4> DEFINE b == job[u].account
      <4>1. b \in Accounts /\ Barring(b)
        BY <3>1 DEF Bars
      <4>2. lanes'[b] # NoLane /\ lane'[lanes'[b]].terminal # "none" /\ ~lane'[lanes'[b]].retireOnIdle
        BY <2>6, <4>1 DEF Barring
      <4> QED
        BY <2>1, <4>2 DEF Barring
    <3> QED
      BY <2>1, <2>9, <3>1, <3>2 DEF Bars
  <2>14. \A u \in Tasks : job'[u].lease <= gate'.generation
    BY <2>1 DEF BarrierInv
  <2> QED
    BY <2>12, <2>13, <2>14 DEF BarrierInv
<1>22. ASSUME NEW o \in {"ok", "outcome_unknown"}, TerminalReturns(t, o) PROVE BarrierInv'
  <2> DEFINE s == [MyLane(t) EXCEPT !.terminal = "sealed"]
  <2>1. s \in LaneRec /\ s.retireOnIdle = MyLane(t).retireOnIdle /\ s.terminal = "sealed"
    BY <1>1 DEF LaneRec
  <2>2. /\ pc[t] = "terminal" /\ SetLane(t, s) /\ pc' = [pc EXCEPT ![t] = "returning"]
        /\ outcome' = [outcome EXCEPT ![t] = o] /\ UNCHANGED <<lanes, job, gateVars>>
    BY <1>22 DEF TerminalReturns
  <2> HIDE DEF s
  <2> QED
    BY <1>4, <2>1, <2>2
<1>26. CASE ServerAnswers(t)
  BY <1>7, <1>8, <1>26 DEF ServerAnswers
<1> QED
  BY <1>26, <1>9, <1>10, <1>11, <1>12, <1>13, <1>14, <1>15, <1>16, <1>17, <1>18, <1>19, <1>20,
     <1>21, <1>22 DEF TurnStep

(* A drain pass or a settled marker load deletes no lane that bars.        *)
LEMMA BarringStays ==
  ASSUME TypeOK, FitInv, NEW l \in LaneIds, NEW r, lane' = [lane EXCEPT ![l] = r],
         NEW s, lanes' = lanes \/ ReleaseIfIdle(l, s),
         s.terminal = lane[l].terminal, s.retireOnIdle = lane[l].retireOnIdle,
         s.suspended = lane[l].suspended, s.account = lane[l].account,
         r.terminal = lane[l].terminal, r.retireOnIdle = lane[l].retireOnIdle
  PROVE  \A b \in Accounts : Barring(b) => Barring(b)'
<1> SUFFICES ASSUME NEW b \in Accounts, Barring(b) PROVE Barring(b)'
  OBVIOUS
<1>1. lanes[b] \in LaneIds /\ Fit(lanes[b], lane[lanes[b]], pc, job)
  BY DEF Barring, TypeOK, FitInv
<1>2. lanes'[b] = lanes[b]
  <2>1. CASE lanes[b] = l
    <3>1. s.terminal # "none" /\ ~s.retireOnIdle /\ s.suspended
      BY <1>1, <2>1 DEF Barring, Fit
    <3>2. ~Deletable(l, s)
      BY <3>1 DEF Deletable
    <3> QED
      BY <3>2 DEF ReleaseIfIdle
  <2>2. CASE lanes[b] # l
    BY <2>2 DEF ReleaseIfIdle, Deletable, TypeOK
  <2> QED
    BY <2>1, <2>2
<1>3. lane'[lanes[b]] = IF lanes[b] = l THEN r ELSE lane[lanes[b]]
  BY <1>1 DEF TypeOK
<1> QED
  BY <1>1, <1>2, <1>3 DEF Barring

LEMMA BarrierDrain ==
  ASSUME IInv, HonestInv, AdmitInv, BarrierInv, NEW l \in LaneIds, NEW r \in LaneRec,
         NEW settled, DrainOn(l, r, settled), UNCHANGED <<job, gateVars>>,
         r.account = lane[l].account, r.suspended = lane[l].suspended,
         r.queue = lane[l].queue, r.terminal = lane[l].terminal,
         r.retireOnIdle = lane[l].retireOnIdle,
         \A u \in Tasks : u \in settled => pc[u] = "returning"
  PROVE  BarrierInv'
<1>1. /\ TypeOK /\ FitInv /\ lane[l] \in LaneRec /\ gate.generation \in Nat
      /\ outcome \in [Tasks -> Outcomes]
  BY LaneFields DEF IInv, AdmitInv, TypeOK
<1>2. job' = job /\ gate' = gate /\ transition' = transition
  BY DEF gateVars
<1>3. CASE r.queue = <<>>
  <2> DEFINE e == [r EXCEPT !.draining = FALSE]
  <2>1. e.terminal = r.terminal /\ e.retireOnIdle = r.retireOnIdle
    BY DEF LaneRec
  <2>2. /\ lane' = [lane EXCEPT ![l] = e] /\ ReleaseIfIdle(l, r) /\ outcome' = outcome
        /\ \A u \in Tasks : pc'[u] = IF u \in settled THEN "done" ELSE pc[u]
    BY <1>3 DEF DrainOn
  <2> HIDE DEF e
  <2>3. lanes' = lanes \/ ReleaseIfIdle(l, r)
    BY <2>2
  <2>4. e.terminal = lane[l].terminal /\ e.retireOnIdle = lane[l].retireOnIdle
    BY <2>1
  <2>5. \A b \in Accounts : Barring(b) => Barring(b)'
    BY <1>1, <2>2, <2>3, <2>4, BarringStays
  <2>6. \A u \in Tasks : Barred(u)' => Barred(u)
    BY <1>2, <2>2 DEF Barred
  <2>7. \A u \in Tasks : (pc'[u] = "queued" => pc[u] = "queued") /\ job'[u] = job[u]
    BY <1>2, <2>2
  <2>8. gate'.generation \in Nat /\ gate'.generation >= gate.generation
    BY <1>1, <1>2
  <2> QED
    BY <1>1, <1>2, <2>5, <2>6, <2>7, <2>8, BarrierFrame
<1>4. CASE r.queue # <<>>
  <2> DEFINE e == TurnStarted(r)
             h == Head(r.queue)
  <2>1. r.queue \in Seq(Tasks) /\ h \in Tasks /\ 1 \in DOMAIN r.queue /\ h = r.queue[1]
    BY <1>4 DEF LaneRec
  <2>2. pc[h] = "queued"
    BY <2>1 DEF IInv, QueueInv
  <2>3. e.terminal = lane[l].terminal /\ e.retireOnIdle = lane[l].retireOnIdle
    BY DEF TurnStarted, LaneRec
  <2>4. /\ lane' = [lane EXCEPT ![l] = e] /\ lanes' = lanes
        /\ outcome' = [outcome EXCEPT ![h] = FirstOutcome(r)]
        /\ \A u \in Tasks : pc'[u] = IF u \in settled THEN "done"
                                     ELSE IF u = h THEN FirstPosition(r) ELSE pc[u]
    BY <1>4 DEF DrainOn
  <2> HIDE DEF e, h
  <2>5. lanes' = lanes \/ ReleaseIfIdle(l, r)
    BY <2>4
  <2>6. \A b \in Accounts : Barring(b) => Barring(b)'
    BY <1>1, <2>3, <2>4, <2>5, BarringStays
  <2>7. /\ FirstPosition(r) \in {"returning", "syncing", "preflight", "loaded", "awaiting"}
        /\ FirstOutcome(r) \in {"none", "not_committed", "rejected"}
    BY DEF FirstPosition, FirstOutcome
  <2>8. \A u \in Tasks : outcome'[u] = IF u = h THEN FirstOutcome(r) ELSE outcome[u]
    BY <1>1, <2>4
  <2>9. \A u \in Tasks : Barred(u)' => Barred(u)
    BY <1>2, <2>4, <2>7, <2>8 DEF Barred
  <2>10. \A u \in Tasks : (pc'[u] = "queued" => pc[u] = "queued") /\ job'[u] = job[u]
    BY <1>2, <2>4, <2>7
  <2>11. gate'.generation \in Nat /\ gate'.generation >= gate.generation
    BY <1>1, <1>2
  <2> QED
    BY <1>1, <1>2, <2>6, <2>9, <2>10, <2>11, BarrierFrame
<1> QED
  BY <1>3, <1>4

LEMMA BarrierLane ==
  ASSUME IInv, HonestInv, AdmitInv, BarrierInv, NEW l \in LaneIds, LaneStep(l)
  PROVE  BarrierInv'
<1>1. TypeOK /\ FitInv /\ lane[l] \in LaneRec /\ gate.generation \in Nat
  BY LaneFields DEF IInv, AdmitInv, TypeOK
<1>2. CASE DrainStart(l)
  <2>1. DrainOn(l, lane[l], {}) /\ UNCHANGED <<job, gateVars>>
    BY <1>2 DEF DrainStart
  <2> QED
    BY <1>1, <2>1, BarrierDrain
<1>3. CASE DrainNext(l)
  <2> DEFINE r == [lane[l] EXCEPT !.active = NoTask]
  <2>1. /\ r \in LaneRec /\ r.account = lane[l].account /\ r.suspended = lane[l].suspended
        /\ r.queue = lane[l].queue /\ r.terminal = lane[l].terminal
        /\ r.retireOnIdle = lane[l].retireOnIdle
    BY <1>1 DEF LaneRec
  <2>2. /\ DrainOn(l, r, {lane[l].active}) /\ pc[lane[l].active] = "returning"
        /\ UNCHANGED <<job, gateVars>>
    BY <1>3 DEF DrainNext
  <2> HIDE DEF r
  <2> QED
    BY <2>1, <2>2, BarrierDrain
<1>4. ASSUME NEW ok \in BOOLEAN, LoadSettles(l, ok) PROVE BarrierInv'
  <2> DEFINE r == [lane[l] EXCEPT
                   !.dirtyLoad = FALSE,
                   !.dirtyLoaded = IF ok THEN TRUE ELSE @,
                   !.needsReconcile =
                     IF ok /\ lane[l].account \in durable THEN TRUE ELSE @]
  <2>1. /\ r.account = lane[l].account /\ r.suspended = lane[l].suspended
        /\ r.terminal = lane[l].terminal /\ r.retireOnIdle = lane[l].retireOnIdle
    BY <1>1 DEF LaneRec
  <2>2. /\ lane' = [lane EXCEPT ![l] = r] /\ ReleaseIfIdle(l, r)
        /\ job' = job /\ gate' = gate /\ transition' = transition
    BY <1>4 DEF LoadSettles, gateVars
  <2>3. \A u \in Tasks :
          \/ pc'[u] = pc[u] /\ outcome'[u] = outcome[u]
          \/ pc[u] = "querying" /\ pc'[u] = "done" /\ outcome'[u] \in {"dirty", "clean", "rejected"}
          \/ pc[u] = "awaiting" /\ pc'[u] = "loaded" /\ outcome'[u] = outcome[u]
          \/ pc[u] = "awaiting" /\ pc'[u] = "returning" /\ outcome'[u] = "not_committed"
    BY <1>4 DEF LoadSettles, DirtyAnswer
  <2> HIDE DEF r
  <2>4. lanes' = lanes \/ ReleaseIfIdle(l, r)
    BY <2>2
  <2>5. \A b \in Accounts : Barring(b) => Barring(b)'
    BY <1>1, <2>1, <2>2, <2>4, BarringStays
  <2>6. \A u \in Tasks : Barred(u)' => Barred(u)
    BY <2>2, <2>3 DEF Barred
  <2>7. \A u \in Tasks : (pc'[u] = "queued" => pc[u] = "queued") /\ job'[u] = job[u]
    BY <2>2, <2>3
  <2>8. gate'.generation \in Nat /\ gate'.generation >= gate.generation
    BY <1>1, <2>2
  <2> QED
    BY <1>1, <2>2, <2>5, <2>6, <2>7, <2>8, BarrierFrame
<1> QED
  BY <1>2, <1>3, <1>4 DEF LaneStep

LEMMA BarrierCall ==
  ASSUME IInv, HonestInv, AdmitInv, BarrierInv, NEW t \in Tasks, Call(t)
  PROVE  BarrierInv'
<1>1. /\ TypeOK /\ MapInv /\ FitInv /\ gate.generation \in Nat
      /\ pc \in [Tasks -> Positions] /\ outcome \in [Tasks -> Outcomes]
      /\ job \in [Tasks -> JobRec] /\ HonestAt(t)
      /\ lanes \in [Accounts -> LaneIds \cup {NoLane}] /\ lane \in [LaneIds -> LaneRec]
  BY DEF IInv, AdmitInv, TypeOK, HonestInv
(* Only call t moves, from "idle": it is not barred before or after.       *)
<1>2. ASSUME pc[t] = "idle", UNCHANGED gateVars, NEW p \in {"queued", "joined", "querying", "done"},
             pc' = [pc EXCEPT ![t] = p],
             NEW o \in Outcomes \ {"ok", "outcome_unknown"},
             outcome' = outcome \/ outcome' = [outcome EXCEPT ![t] = o],
             NEW j, job' = job \/ (job' = [job EXCEPT ![t] = j] /\ j.lease <= gate.generation),
             p = "queued" => /\ job' = [job EXCEPT ![t] = j]
                             /\ j.lease = gate.generation /\ ~Barring(j.account),
             \A b \in Accounts : Barring(b) => Barring(b)'
      PROVE  BarrierInv'
  <2>1. gate' = gate /\ transition' = transition
    BY <1>2 DEF gateVars
  <2>2. gate'.generation \in Nat /\ gate'.generation >= gate.generation
    BY <1>1, <2>1
  <2>3. \A u \in Tasks : u # t => pc'[u] = pc[u] /\ job'[u] = job[u] /\ outcome'[u] = outcome[u]
    BY <1>1, <1>2
  <2>4. pc'[t] = p /\ outcome'[t] \in {outcome[t], o} /\ outcome[t] = "none"
    BY <1>1, <1>2 DEF HonestAt
  <2>5. job'[t] = job[t] \/ (job'[t] = j /\ j.lease <= gate.generation)
    BY <1>1, <1>2
  <2>6. \A u \in Tasks : Barred(u)' => Barred(u) /\ job'[u] = job[u]
    BY <1>2, <2>3, <2>4 DEF Barred
  <2>7. \A u \in Tasks : pc'[u] = "queued" =>
          \/ pc[u] = "queued" /\ job'[u] = job[u]
          \/ job'[u].lease = gate.generation /\ ~Barring(job'[u].account)
    BY <1>1, <1>2, <2>3, <2>4
  <2>8. \A u \in Tasks : job'[u] = job[u] \/ job'[u].lease <= gate'.generation
    BY <2>1, <2>3, <2>5
  <2>9. gate'.generation = gate.generation /\ transition'.phase = transition.phase
    BY <2>1
  <2> QED
    BY <1>1, <1>2, <2>2, <2>6, <2>7, <2>8, <2>9, BarrierFrame
<1>3. ASSUME UNCHANGED laneVars PROVE \A b \in Accounts : Barring(b) => Barring(b)'
  BY <1>3 DEF Barring, laneVars
<1>4. ASSUME NEW a \in Accounts, NEW l \in LanesFor(a), NEW e,
             lanes' = [lanes EXCEPT ![a] = l], lane' = [lane EXCEPT ![l] = e],
             Barring(a) => e.terminal # "none" /\ ~e.retireOnIdle
      PROVE  \A b \in Accounts : Barring(b) => Barring(b)'
  <2> SUFFICES ASSUME NEW b \in Accounts, Barring(b) PROVE Barring(b)'
    OBVIOUS
  <2>1. l \in LaneIds /\ lanes'[a] = l /\ lane'[l] = e
    BY <1>1, <1>4, LanesForType
  <2>2. CASE b = a
    BY <1>4, <2>1, <2>2, NoneAssumption DEF Barring
  <2>3. CASE b # a
    <3>1. lanes[b] # l
      BY <1>1, <2>3, OwnLane, LanesForCases DEF Unused, Barring
    <3>2. lanes'[b] = lanes[b] /\ lane'[lanes[b]] = lane[lanes[b]]
      BY <1>1, <1>4, <2>3, <3>1 DEF Barring
    <3> QED
      BY <3>2 DEF Barring
  <2> QED
    BY <2>2, <2>3
<1>5. ASSUME NEW a \in Accounts, NEW k \in Kinds,
             NEW policy \in {"none", "coalesce", "force"}, Refuse(t, k, a, policy)
      PROVE  BarrierInv'
  <2>1. /\ pc[t] = "idle" /\ UNCHANGED gateVars /\ UNCHANGED laneVars /\ job' = job
        /\ pc' = [pc EXCEPT ![t] = "done"]
        /\ \E o \in {"not_committed", "rejected"} : outcome' = [outcome EXCEPT ![t] = o]
    BY <1>5 DEF Refuse, Answer
  <2> QED
    BY <1>2, <1>3, <2>1 DEF Outcomes
<1>6. ASSUME NEW a \in Accounts, NEW policy \in {"coalesce", "force"}, JoinSync(t, a, policy)
      PROVE  BarrierInv'
  <2>1. PICK s \in Joinable(a, policy) :
          job' = [job EXCEPT ![t] = Entry("sync", a, NoLane, 0, gate.generation, policy, s)]
    BY <1>6 DEF JoinSync
  <2> DEFINE j == Entry("sync", a, NoLane, 0, gate.generation, policy, s)
  <2>2. /\ pc[t] = "idle" /\ UNCHANGED gateVars /\ UNCHANGED laneVars /\ outcome' = outcome
        /\ pc' = [pc EXCEPT ![t] = "joined"]
    BY <1>6 DEF JoinSync
  <2>3. job' = [job EXCEPT ![t] = j] /\ j.lease <= gate.generation
    BY <1>1, <2>1 DEF Entry
  <2>4. "none" \in Outcomes \ {"ok", "outcome_unknown"}
    BY DEF Outcomes
  <2> HIDE DEF j
  <2> QED
    BY <1>2, <1>3, <2>2, <2>3, <2>4
<1>7. ASSUME NEW a \in Accounts, NEW k \in Kinds,
             NEW policy \in {"none", "coalesce", "force"}, Enqueue(t, k, a, policy)
      PROVE  BarrierInv'
  <2>1. PICK l \in LanesFor(a) :
          LET r == FieldsFor(a, l) IN
          /\ lanes' = [lanes EXCEPT ![a] = l]
          /\ lane' = [lane EXCEPT ![l] =
                       [r EXCEPT !.queue = Append(@, t), !.draining = TRUE,
                                 !.tailSync = TailAfter(k, t, r)]]
          /\ job' = [job EXCEPT ![t] =
                      Entry(k, a, l, r.epoch, gate.generation, policy, NoTask)]
    BY <1>7 DEF Enqueue
  <2> DEFINE r == FieldsFor(a, l)
             e == [r EXCEPT !.queue = Append(@, t), !.draining = TRUE,
                            !.tailSync = TailAfter(k, t, r)]
             j == Entry(k, a, l, r.epoch, gate.generation, policy, NoTask)
  <2>2. /\ pc[t] = "idle" /\ UNCHANGED gateVars /\ outcome' = outcome
        /\ pc' = [pc EXCEPT ![t] = "queued"]
    BY <1>7 DEF Enqueue
  <2>3. ~Barring(a)
    <3> SUFFICES ASSUME Barring(a) PROVE FALSE
      OBVIOUS
    <3>1. lanes[a] # NoLane /\ lane[lanes[a]].terminal # "none"
      BY DEF Barring
    <3>2. Fit(lanes[a], lane[lanes[a]], pc, job)
      BY <1>1, <3>1 DEF FitInv
    <3>3. Suspended(a)
      BY <3>1, <3>2 DEF Fit, Suspended
    <3> QED
      BY <1>7, <3>3 DEF Enqueue
  <2>4. /\ lanes' = [lanes EXCEPT ![a] = l] /\ lane' = [lane EXCEPT ![l] = e]
        /\ job' = [job EXCEPT ![t] = j]
    BY <2>1
  <2>5. j.lease = gate.generation /\ j.account = a
    BY DEF Entry
  <2> HIDE DEF e, j
  <2>6. \A b \in Accounts : Barring(b) => Barring(b)'
    BY <1>4, <2>3, <2>4
  <2>7. j.lease <= gate.generation /\ ~Barring(j.account)
    BY <1>1, <2>3, <2>5
  <2>8. "none" \in Outcomes \ {"ok", "outcome_unknown"}
    BY DEF Outcomes
  <2> QED
    BY <1>2, <2>2, <2>4, <2>5, <2>6, <2>7, <2>8
<1>8. ASSUME NEW a \in Accounts, RequiresReconcile(t, a) PROVE BarrierInv'
  <2>1. PICK l \in LanesFor(a) :
          LET r == FieldsFor(a, l) IN
         \/ /\ lanes[a] = NoLane /\ ~HasCapacity(a)
            /\ Answer(t, "rejected")
            /\ UNCHANGED <<laneVars, job>>
         \/ /\ r.dirtyLoaded
            /\ Answer(t, DirtyAnswer(r))
            /\ ReleaseIfIdle(l, r)
            /\ UNCHANGED <<lane, job>>
         \/ /\ lanes[a] # NoLane \/ HasCapacity(a)
            /\ ~r.dirtyLoaded
            /\ pc' = [pc EXCEPT ![t] = "querying"]
            /\ job' = [job EXCEPT ![t] = Entry("query", a, l, 0, 0, "none", NoTask)]
            /\ lanes' = [lanes EXCEPT ![a] = l]
            /\ lane' = [lane EXCEPT ![l] = [r EXCEPT !.dirtyLoad = TRUE]]
            /\ UNCHANGED outcome
    BY <1>8 DEF RequiresReconcile
  <2> DEFINE r == FieldsFor(a, l)
  <2>2. l \in LaneIds /\ r \in LaneRec
    BY <1>1, <2>1, LanesForType
  <2>3. UNCHANGED gateVars /\ pc[t] = "idle"
    BY <1>8 DEF RequiresReconcile
  <2>4. "none" \in Outcomes \ {"ok", "outcome_unknown"}
        /\ {"rejected", "dirty", "clean"} \subseteq Outcomes \ {"ok", "outcome_unknown"}
    BY DEF Outcomes
  <2>5. CASE UNCHANGED <<laneVars, job>> /\ Answer(t, "rejected")
    <3>1. /\ pc' = [pc EXCEPT ![t] = "done"] /\ outcome' = [outcome EXCEPT ![t] = "rejected"]
          /\ UNCHANGED laneVars /\ job' = job
      BY <2>5 DEF Answer
    <3> QED
      BY <1>2, <1>3, <2>3, <2>4, <3>1
  <2>6. CASE /\ r.dirtyLoaded
             /\ Answer(t, DirtyAnswer(r))
             /\ ReleaseIfIdle(l, r)
             /\ UNCHANGED <<lane, job>>
    <3>1. r = lane[l] /\ lane' = [lane EXCEPT ![l] = r]
      BY <1>1, <2>2, <2>6 DEF FieldsFor, NewLane
    <3>2. /\ pc' = [pc EXCEPT ![t] = "done"] /\ job' = job
          /\ \E o \in {"dirty", "clean"} : outcome' = [outcome EXCEPT ![t] = o]
      BY <2>6 DEF Answer, DirtyAnswer
    <3>3. lanes' = lanes \/ ReleaseIfIdle(l, r)
      BY <2>6
    <3> HIDE DEF r
    <3>4. \A b \in Accounts : Barring(b) => Barring(b)'
      BY <1>1, <2>2, <3>1, <3>3, BarringStays
    <3> QED
      BY <1>2, <2>3, <2>4, <3>2, <3>4
  <2>7. CASE /\ pc' = [pc EXCEPT ![t] = "querying"]
             /\ job' = [job EXCEPT ![t] = Entry("query", a, l, 0, 0, "none", NoTask)]
             /\ lanes' = [lanes EXCEPT ![a] = l]
             /\ lane' = [lane EXCEPT ![l] = [r EXCEPT !.dirtyLoad = TRUE]]
             /\ UNCHANGED outcome
    <3> DEFINE e == [r EXCEPT !.dirtyLoad = TRUE]
               j == Entry("query", a, l, 0, 0, "none", NoTask)
    <3>1. /\ lanes' = [lanes EXCEPT ![a] = l] /\ lane' = [lane EXCEPT ![l] = e]
          /\ job' = [job EXCEPT ![t] = j] /\ outcome' = outcome
          /\ pc' = [pc EXCEPT ![t] = "querying"]
      BY <2>7
    <3>2. Barring(a) => r = lane[lanes[a]]
      BY LanesForCases DEF Barring, FieldsFor
    <3>3. j.lease <= gate.generation
      BY <1>1 DEF Entry
    <3> HIDE DEF r
    <3>4. e.terminal = r.terminal /\ e.retireOnIdle = r.retireOnIdle
      BY <2>2 DEF LaneRec
    <3> HIDE DEF e, j
    <3>5. \A b \in Accounts : Barring(b) => Barring(b)'
      <4>1. Barring(a) => e.terminal # "none" /\ ~e.retireOnIdle
        BY <3>2, <3>4 DEF Barring
      <4> QED
        BY <1>4, <3>1, <4>1
    <3> QED
      BY <1>2, <2>3, <2>4, <3>1, <3>3, <3>5
  <2> QED
    BY <2>1, <2>5, <2>6, <2>7
<1> QED
  BY <1>5, <1>6, <1>7, <1>8 DEF Call

LEMMA BarrierEnvironment ==
  ASSUME IInv, HonestInv, AdmitInv, BarrierInv, Environment
  PROVE  BarrierInv'
<1>1. /\ TypeOK /\ gate.generation \in Nat /\ job \in [Tasks -> JobRec]
      /\ gate \in [generation : Nat, account : Accounts \cup {NoAccount}]
      /\ \A u \in Tasks : job[u].lease <= gate.generation
  BY DEF IInv, TypeOK, BarrierInv
(* The account gate moved on, or had before this step.                     *)
<1>2. ASSUME job' = job, gate'.generation \in Nat, gate'.generation >= gate.generation,
             \A u \in Tasks : pc'[u] = "queued" => pc[u] = "queued",
             \A u \in Tasks : Barred(u)' => Barred(u),
             \A u \in Tasks : Barred(u) => job[u].lease # gate'.generation
      PROVE  BarrierInv'
  <2>1. \A u \in Tasks : job'[u] = job[u]
    BY <1>2
  <2> QED
    BY <1>1, <1>2, <2>1, BarrierFrame
<1>3. ASSUME UNCHANGED callVars
      PROVE  /\ job' = job /\ \A u \in Tasks : pc'[u] = "queued" => pc[u] = "queued"
             /\ \A u \in Tasks : Barred(u)' => Barred(u)
  BY <1>3 DEF callVars, Barred
<1>4. transition.phase # "idle" => \A u \in Tasks : Barred(u) => job[u].lease # gate.generation
  BY DEF BarrierInv, Bars
<1>5. ASSUME NEW t \in Tasks, CommitLands(t) PROVE BarrierInv'
  <2>1. UNCHANGED callVars /\ gate' = gate /\ transition' = transition /\ UNCHANGED laneVars
    BY <1>5 DEF CommitLands, gateVars
  <2>2. \A b \in Accounts : Barring(b) => Barring(b)'
    BY <2>1 DEF Barring, laneVars
  <2>3. gate'.generation \in Nat /\ gate'.generation >= gate.generation
        /\ gate'.generation = gate.generation /\ transition'.phase = transition.phase
    BY <1>1, <2>1
  <2>4. \A u \in Tasks : job'[u] = job[u]
    BY <1>3, <2>1
  <2> QED
    BY <1>1, <1>3, <2>1, <2>2, <2>3, <2>4, BarrierFrame
<1>6. ASSUME NEW reason, TransitionStart(reason) PROVE BarrierInv'
  <2>1. UNCHANGED callVars /\ gate'.generation = gate.generation + 1
    BY <1>6 DEF TransitionStart
  <2>2. gate'.generation \in Nat /\ gate'.generation >= gate.generation
    BY <1>1, <2>1
  <2>3. \A u \in Tasks : job[u].lease # gate'.generation
    <3> SUFFICES ASSUME NEW u \in Tasks, job[u].lease = gate.generation + 1 PROVE FALSE
      BY <2>1
    <3> QED
      BY <1>1
  <2> QED
    BY <1>2, <1>3, <2>1, <2>2, <2>3
<1>7. CASE TransitionInvalidates
  <2>1. /\ transition.phase = "closed" /\ gate' = gate /\ job' = job
    BY <1>7 DEF TransitionInvalidates
  <2>2. \A u \in Tasks : \/ pc'[u] = pc[u] /\ outcome'[u] = outcome[u]
                         \/ pc'[u] = "done" /\ outcome'[u] = "cancelled"
    <3>1. CASE ~Tracked(transition.account)
      BY <1>7, <3>1 DEF TransitionInvalidates
    <3>2. CASE Tracked(transition.account)
      <4> DEFINE s == lane[lanes[transition.account]]
      <4>1. /\ outcome' = [u \in Tasks |-> IF u \in QueuedIn(s) THEN "cancelled" ELSE outcome[u]]
            /\ pc' = Cancelled(s)
        BY <1>7, <3>2 DEF TransitionInvalidates, InvalidateLane
      <4> QED
        BY <4>1 DEF Cancelled
    <3> QED
      BY <3>1, <3>2
  <2>3. \A u \in Tasks : (pc'[u] = "queued" => pc[u] = "queued") /\ (Barred(u)' => Barred(u))
    BY <2>1, <2>2 DEF Barred
  <2>4. gate'.generation \in Nat /\ gate'.generation >= gate.generation
    BY <1>1, <2>1
  <2> QED
    BY <1>2, <1>4, <2>1, <2>3, <2>4
<1>8. ASSUME NEW a \in Accounts \cup {NoAccount}, NEW opens \in BOOLEAN,
             TransitionSettles(a, opens)
      PROVE  BarrierInv'
  <2>1. /\ UNCHANGED callVars /\ transition.phase # "idle"
        /\ gate'.generation = gate.generation
    BY <1>1, <1>8 DEF TransitionSettles
  <2>2. gate'.generation \in Nat /\ gate'.generation >= gate.generation
    BY <1>1, <2>1
  <2> QED
    BY <1>2, <1>3, <1>4, <2>1, <2>2
<1>9. CASE TransitionAdmits
  <2>1. UNCHANGED callVars /\ transition.phase # "idle" /\ gate' = gate
    BY <1>9 DEF TransitionAdmits
  <2>2. gate'.generation \in Nat /\ gate'.generation >= gate.generation
    BY <1>1, <2>1
  <2> QED
    BY <1>2, <1>3, <1>4, <2>1, <2>2
<1>10. CASE UnlockSettles
  <2>1. UNCHANGED callVars /\ gate' = gate /\ ~blocked
    BY <1>10 DEF UnlockSettles, gateVars
  <2>2. gate'.generation \in Nat /\ gate'.generation >= gate.generation
    BY <1>1, <2>1
  <2>3. \A u \in Tasks : Barred(u) => job[u].lease # gate.generation
    BY <2>1 DEF BarrierInv, Bars, AdmitInv, HeldInv, Held
  <2> QED
    BY <1>2, <1>3, <2>1, <2>2, <2>3
<1>11. ASSUME NEW a \in Accounts \cup {NoAccount}, Restart(a) PROVE BarrierInv'
  <2>1. /\ gate'.generation = gate.generation + 1 /\ job' = job
        /\ \A u \in Tasks :
             /\ pc'[u] \in {"idle", "done"}
             /\ outcome'[u] = outcome[u] \/ outcome'[u] = "lost"
    BY <1>11 DEF Restart
  <2>2. gate'.generation \in Nat /\ gate'.generation >= gate.generation
    BY <1>1, <2>1
  <2>3. \A u \in Tasks : job[u].lease # gate'.generation
    <3> SUFFICES ASSUME NEW u \in Tasks, job[u].lease = gate.generation + 1 PROVE FALSE
      BY <2>1
    <3> QED
      BY <1>1
  <2>4. \A u \in Tasks : (pc'[u] = "queued" => pc[u] = "queued") /\ (Barred(u)' => Barred(u))
    BY <2>1 DEF Barred
  <2> QED
    BY <1>2, <2>1, <2>2, <2>3, <2>4
<1> QED
  BY <1>5, <1>6, <1>7, <1>8, <1>9, <1>10, <1>11 DEF Environment

-----------------------------------------------------------------------------
(* The inductive invariant.                                                *)

LEMMA AnswerInit ==
  ASSUME Init
  PROVE  AnswerInv
<1>1. \A t \in Tasks : ~Barred(t) /\ job[t].lease = 0
  BY DEF Init, Barred, NoJob, Entry
<1>2. BarrierInv
  BY <1>1 DEF BarrierInv, Init
<1> QED
  BY <1>2, InitSafe, AdmitInit DEF AnswerInv

LEMMA AnswerStep ==
  ASSUME AnswerInv, [Next]_vars
  PROVE  AnswerInv'
<1>1. IInv /\ HonestInv /\ AdmitInv /\ BarrierInv /\ IInv'
  BY StepSafe DEF AnswerInv
<1>2. CASE UNCHANGED vars
  <2>1. UNCHANGED <<lanes, lane, pc, job, outcome, gate, transition, blocked, out, landed>>
    BY <1>2 DEF vars
  <2>2. HonestInv'
    BY <1>1, <2>1 DEF HonestInv, HonestAt
  <2>3. FitInv' /\ WaitInv' /\ RotationInv'
    BY <1>1, <2>1 DEF AdmitInv, FitInv, WaitInv, WaitsIn, RotationInv
  <2>4. HeldInv'
    BY <1>1, <2>1 DEF AdmitInv, HeldInv, Barring, Held
  <2>5. BarrierInv'
    BY <1>1, <2>1 DEF BarrierInv, Barred, Bars, Barring
  <2> QED
    BY <1>1, <2>2, <2>3, <2>4, <2>5 DEF AnswerInv, AdmitInv
<1>3. ASSUME NEW t \in Tasks, Call(t) PROVE HonestInv' /\ AdmitInv' /\ BarrierInv'
  BY <1>1, <1>3, HonestCall, AdmitCall, BarrierCall
<1>4. ASSUME NEW t \in Tasks, TurnStep(t) PROVE HonestInv' /\ AdmitInv' /\ BarrierInv'
  BY <1>1, <1>4, HonestTurn, AdmitTurn, BarrierTurn
<1>5. ASSUME NEW l \in LaneIds, LaneStep(l) PROVE HonestInv' /\ AdmitInv' /\ BarrierInv'
  BY <1>1, <1>5, HonestLane, AdmitLane, BarrierLane
<1>6. CASE Environment
  BY <1>1, <1>6, HonestEnvironment, AdmitEnvironment, BarrierEnvironment DEF AnswerInv
<1> QED
  BY <1>1, <1>2, <1>3, <1>4, <1>5, <1>6 DEF Next, AnswerInv

(* Every reachable state satisfies the second inductive invariant, which   *)
(* adds answers, admission and barrier to the first (the coordinator and   *)
(* the account transitions of background/index.ts).                        *)
THEOREM AnswerInvariance == Spec => []AnswerInv
  BY AnswerInit, AnswerStep, PTL DEF Spec

(* A mutation answered as not committed, in conflict or cancelled did not  *)
(* change the server, and one answered as committed did (executeMutation,  *)
(* classifyCommitFailure, cancel).                                         *)
THEOREM HonestAnswers == Spec => []AnswersAreHonest
<1>1. AnswerInv => AnswersAreHonest
  BY DEF AnswerInv, HonestInv, HonestAt, AnswersAreHonest
<1> QED
  BY <1>1, AnswerInvariance, PTL

(* Once an account transition is over, the lane of the open account is     *)
(* never left suspended and idle, unless a key rotation is still blocked   *)
(* (settleVaultAccountAdmission, resumeAccount, deleteLaneIfIdle).         *)
THEOREM LanesReopen == Spec => []NoStuckAdmission
<1>1. AnswerInv => NoStuckAdmission
  <2> SUFFICES ASSUME AnswerInv, NEW a \in Accounts, ~blocked,
                      lanes[a] # NoLane, lane[lanes[a]].active = NoTask,
                      lane[lanes[a]].suspended
               PROVE  lane[lanes[a]].dirtyLoad
    BY DEF NoStuckAdmission
  <2>1. Fit(lanes[a], lane[lanes[a]], pc, job) /\ (Barring(a) => Held(a))
    BY DEF AnswerInv, AdmitInv, FitInv, HeldInv
  <2>2. ~Barring(a)
    BY <2>1 DEF Held
  <2> QED
    BY <2>1, <2>2 DEF Fit, Barring
<1> QED
  BY <1>1, AnswerInvariance, PTL

-----------------------------------------------------------------------------
(* What a step may never do.                                               *)

(* A call that was made keeps what it captured; only a call itself leaves  *)
(* its initial position.                                                   *)
LEMMA JobsStay ==
  ASSUME IInv, [Next]_vars, NEW u \in Tasks
  PROVE  /\ pc[u] # "idle" => job'[u] = job[u]
         /\ pc[u] = "idle" => pc'[u] = "idle" \/ Call(u)
<1>1. /\ TypeOK /\ pc \in [Tasks -> Positions] /\ job \in [Tasks -> JobRec]
      /\ \A l \in LaneIds : \A v \in QueuedIn(lane[l]) : pc[v] = "queued"
  BY DEF IInv, TypeOK, QueueInv, QueuedIn
<1>2. CASE UNCHANGED vars
  BY <1>2 DEF vars
<1>3. ASSUME NEW t \in Tasks, Call(t)
      PROVE  /\ pc[u] # "idle" => job'[u] = job[u]
             /\ pc[u] = "idle" => pc'[u] = "idle" \/ Call(u)
  <2>1. pc[t] = "idle"
    BY <1>3 DEF Call, Refuse, Enqueue, JoinSync, RequiresReconcile
  <2>2. ASSUME NEW a \in Accounts, RequiresReconcile(t, a)
        PROVE  (\E p : pc' = [pc EXCEPT ![t] = p])
               /\ (job' = job \/ \E j : job' = [job EXCEPT ![t] = j])
    BY <2>2 DEF RequiresReconcile, Answer
  <2>3. ASSUME NEW a \in Accounts, NEW k, NEW policy,
               Refuse(t, k, a, policy) \/ Enqueue(t, k, a, policy) \/ JoinSync(t, a, policy)
        PROVE  (\E p : pc' = [pc EXCEPT ![t] = p])
               /\ (job' = job \/ \E j : job' = [job EXCEPT ![t] = j])
    BY <2>3 DEF Refuse, Enqueue, JoinSync, Answer
  <2>4. (\E p : pc' = [pc EXCEPT ![t] = p]) /\ (job' = job \/ \E j : job' = [job EXCEPT ![t] = j])
    BY <1>3, <2>2, <2>3 DEF Call
  <2>5. u # t => pc'[u] = pc[u] /\ job'[u] = job[u]
    BY <1>1, <2>4
  <2> QED
    BY <1>3, <2>1, <2>5
<1>4. ASSUME NEW t \in Tasks, TurnStep(t)
      PROVE  job'[u] = job[u] /\ (pc[u] = "idle" => pc'[u] = "idle")
  <2>1. pc[t] \in Running /\ HoldsTurn(t)
    BY <1>1, <1>4, TurnHolds DEF IInv
  <2>2. CASE CommitTerminal(t)
    <3>1. /\ pc' = [Cancelled(MyLane(t)) EXCEPT ![t] = "terminal"] /\ job' = job
          /\ \A v \in QueuedIn(MyLane(t)) : pc[v] = "queued"
      BY <1>1, <2>1, <2>2 DEF CommitTerminal, HoldsTurn, MyLane
    <3>2. u # t => pc'[u] = IF u \in QueuedIn(MyLane(t)) THEN "done" ELSE pc[u]
      BY <3>1 DEF Cancelled
    <3> QED
      BY <2>1, <3>1, <3>2 DEF Running, MutationTurn
  <2>3. CASE ~CommitTerminal(t)
    <3>1. job' = job /\ \E p : pc' = [pc EXCEPT ![t] = p]
      BY <1>4, <2>3 DEF TurnStep, ServerAnswers, SyncReturns, ReconcileReturns, ClearReturns,
         UnmarkReturns, CheckDirty, MarkerWritten, MarkFails, BeginCommit, CommitSucceeds, CommitFails,
         MarkerCleared, PreflightFails, TerminalReturns, Move, Return
    <3> QED
      BY <1>1, <2>1, <3>1 DEF Running, MutationTurn
  <2> QED
    BY <2>2, <2>3
<1>5. ASSUME NEW l \in LaneIds, LaneStep(l)
      PROVE  job'[u] = job[u] /\ (pc[u] = "idle" => pc'[u] = "idle")
  <2>1. ASSUME NEW r, NEW settled, DrainOn(l, r, settled), r.queue = lane[l].queue,
               u \in settled => pc[u] = "returning", pc[u] = "idle"
        PROVE  pc'[u] = "idle"
    <3>1. CASE r.queue = <<>>
      BY <2>1, <3>1 DEF DrainOn
    <3>2. CASE r.queue # <<>>
      <4>1. lane[l].queue \in Seq(Tasks)
        BY <1>1, LaneFields
      <4>2. Head(r.queue) \in QueuedIn(lane[l])
        BY <2>1, <3>2, <4>1 DEF QueuedIn
      <4>3. Head(r.queue) # u
        BY <1>1, <2>1, <4>2
      <4> QED
        BY <2>1, <3>2, <4>3 DEF DrainOn
    <3> QED
      BY <3>1, <3>2
  <2>2. CASE DrainStart(l)
    BY <2>1, <2>2 DEF DrainStart
  <2>3. CASE DrainNext(l)
    <3> DEFINE r == [lane[l] EXCEPT !.active = NoTask]
    <3>1. r.queue = lane[l].queue
      BY <1>1, LaneFields DEF LaneRec
    <3>2. DrainOn(l, r, {lane[l].active}) /\ pc[lane[l].active] = "returning" /\ job' = job
      BY <2>3 DEF DrainNext
    <3> HIDE DEF r
    <3> QED
      BY <2>1, <3>1, <3>2
  <2>4. ASSUME NEW ok \in BOOLEAN, LoadSettles(l, ok)
        PROVE  job'[u] = job[u] /\ (pc[u] = "idle" => pc'[u] = "idle")
    BY <2>4 DEF LoadSettles
  <2> QED
    BY <1>5, <2>2, <2>3, <2>4 DEF LaneStep
<1>6. CASE Environment
  <2>1. CASE TransitionInvalidates
    <3>1. CASE ~Tracked(transition.account)
      BY <2>1, <3>1 DEF TransitionInvalidates
    <3>2. CASE Tracked(transition.account)
      <4> DEFINE l == lanes[transition.account]
      <4>1. l \in LaneIds /\ pc' = Cancelled(lane[l]) /\ job' = job
        BY <1>1, <2>1, <3>2 DEF TransitionInvalidates, Tracked, TypeOK
      <4> HIDE DEF l
      <4> QED
        BY <1>1, <4>1 DEF Cancelled
    <3> QED
      BY <3>1, <3>2
  <2>2. CASE ~TransitionInvalidates
    BY <1>6, <2>2 DEF Environment, CommitLands, TransitionStart, TransitionSettles,
       TransitionAdmits, UnlockSettles, Restart, callVars
  <2> QED
    BY <2>1, <2>2
<1> QED
  BY <1>2, <1>3, <1>4, <1>5, <1>6 DEF Next

(* A request that enters a queue or joins a sync captures the lease of the *)
(* moment, on an account whose lane is not suspended.                      *)
LEMMA CallsAreAdmitted ==
  ASSUME IInv, NEW u \in Tasks, Call(u), pc'[u] \in Running \cup {"queued", "joined"}
  PROVE  /\ job'[u].account \in Accounts /\ ~Suspended(job'[u].account)
         /\ job'[u].lease = gate.generation
<1>1. pc \in [Tasks -> Positions] /\ job \in [Tasks -> JobRec]
  BY DEF IInv, TypeOK
<1>2. ASSUME NEW a \in Accounts, NEW k, NEW policy, Refuse(u, k, a, policy) PROVE FALSE
  BY <1>1, <1>2 DEF Refuse, Answer, Running, MutationTurn
<1>3. ASSUME NEW a \in Accounts, RequiresReconcile(u, a) PROVE FALSE
  BY <1>1, <1>3 DEF RequiresReconcile, Answer, Running, MutationTurn
<1>4. ASSUME NEW a \in Accounts, NEW k, NEW policy, Enqueue(u, k, a, policy)
      PROVE  job'[u].account = a /\ ~Suspended(a) /\ job'[u].lease = gate.generation
  BY <1>1, <1>4 DEF Enqueue, Entry
<1>5. ASSUME NEW a \in Accounts, NEW policy, JoinSync(u, a, policy)
      PROVE  job'[u].account = a /\ ~Suspended(a) /\ job'[u].lease = gate.generation
  BY <1>1, <1>5 DEF JoinSync, Entry
<1> QED
  BY <1>2, <1>3, <1>4, <1>5 DEF Call

(* Nothing admitted under the lease of a committed terminal operation      *)
(* takes a turn, enters a queue or joins a sync any more (commitTerminal,  *)
(* resetTerminatedAccount, retireTerminatedAccount).                       *)
THEOREM BarrierHolds == Spec => TerminalBarrier
<1>1. AnswerInv /\ [Next]_vars =>
        [\A t, u \in Tasks :
           /\ Barred(t) /\ t # u
           /\ pc[u] \in {"idle", "queued"} /\ pc'[u] \in Running \cup {"queued", "joined"}
           /\ job'[u].account = job[t].account
           => job'[u].lease # job[t].lease \/ pc'[u] = pc[u]]_vars
  <2> SUFFICES ASSUME AnswerInv, [Next]_vars, NEW t \in Tasks, NEW u \in Tasks, Barred(t),
                      pc[u] \in {"idle", "queued"},
                      pc'[u] \in Running \cup {"queued", "joined"},
                      job'[u].account = job[t].account, job'[u].lease = job[t].lease
               PROVE  pc'[u] = pc[u]
    OBVIOUS
  <2>1. IInv /\ FitInv /\ Bars(t)
    BY DEF AnswerInv, AdmitInv, BarrierInv
  <2>2. CASE pc[u] = "queued"
    <3>1. job'[u] = job[u]
      BY <2>1, <2>2, JobsStay
    <3> QED
      BY <2>1, <2>2, <3>1 DEF Bars
  <2>3. CASE pc[u] = "idle" /\ pc'[u] # "idle"
    <3> DEFINE a == job'[u].account
    <3>1. a \in Accounts /\ ~Suspended(a) /\ gate.generation = job[t].lease /\ a = job[t].account
      BY <2>1, <2>3, JobsStay, CallsAreAdmitted
    <3> HIDE DEF a
    <3>2. Barring(a)
      BY <2>1, <3>1 DEF Bars
    <3>3. Fit(lanes[a], lane[lanes[a]], pc, job)
      BY <2>1, <3>1, <3>2 DEF FitInv, Barring
    <3> QED
      BY <3>1, <3>2, <3>3 DEF Barring, Fit, Suspended
  <2> QED
    BY <2>2, <2>3
<1> QED
  BY <1>1, AnswerInvariance, PTL DEF Spec, TerminalBarrier

(* A sync request is merged only into a sync that runs behind every write  *)
(* queued before the request (requestSync, the tail and active slots).     *)
LEMMA MergesBehind ==
  ASSUME AnswerInv, NEW r \in Tasks, NEW a \in Accounts, NEW policy \in {"coalesce", "force"},
         NEW s \in Joinable(a, policy)
  PROVE  IF pc[s] = "queued"
         THEN \A i, j \in DOMAIN lane[job[s].lane].queue :
                lane[job[s].lane].queue[i] = s /\ i < j
                  => job[lane[job[s].lane].queue[j]].kind = "sync"
         ELSE policy = "coalesce" /\ lane[job[s].lane].queue = <<>>
<1> DEFINE l == lanes[a]
           w == lane[l]
<1>1. l # NoLane
  BY DEF Joinable
<1>2. l \in LaneIds /\ w \in LaneRec /\ w.queue \in Seq(Tasks) /\ Fit(l, w, pc, job)
      /\ QueueInv
  BY <1>1, LaneFields DEF AnswerInv, IInv, AdmitInv, FitInv, TypeOK, LaneRec
<1>3. \/ w.tailSync # NoTask /\ s = w.tailSync
      \/ /\ policy = "coalesce" /\ w.queue = <<>> /\ w.activeSync # NoTask
         /\ s = w.activeSync
  BY <1>1 DEF Joinable
<1>4. CASE w.tailSync # NoTask /\ s = w.tailSync
  <2>1. w.queue # <<>> /\ s = w.queue[Len(w.queue)]
    BY <1>2, <1>4 DEF Fit
  <2>2. Len(w.queue) \in DOMAIN w.queue
    BY <1>2, <2>1, EmptySeq
  <2>3. pc[s] = "queued" /\ job[s].lane = l
    BY <1>2, <2>1, <2>2 DEF QueueInv
  <2>4. \A i \in DOMAIN w.queue : w.queue[i] = s => i = Len(w.queue)
    BY <1>2, <2>1, <2>2 DEF QueueInv
  <2>5. \A i, j \in DOMAIN w.queue : w.queue[i] = s => ~(i < j)
    <3> SUFFICES ASSUME NEW i \in DOMAIN w.queue, NEW j \in DOMAIN w.queue,
                        i = Len(w.queue), i < j
                 PROVE  FALSE
      BY <2>4
    <3>1. DOMAIN w.queue = 1 .. Len(w.queue) /\ Len(w.queue) \in Nat
      BY <1>2
    <3> QED
      BY <3>1
  <2> QED
    BY <2>3, <2>5
<1>5. CASE policy = "coalesce" /\ w.queue = <<>> /\ w.activeSync # NoTask /\ s = w.activeSync
  <2>1. job[s].lane = l /\ pc[s] \in SyncTurn
    BY <1>2, <1>5 DEF Fit
  <2> QED
    BY <1>5, <2>1 DEF SyncTurn
<1> QED
  BY <1>3, <1>4, <1>5

(* Read your writes, for requests that are merged (requestSync,            *)
(* isSyncSlotCurrent).                                                     *)
THEOREM MergesAreLate == Spec => MergedAfterWrites
<1>1. AnswerInv /\ [Next]_vars =>
        [\A r \in Tasks :
           pc[r] = "idle" /\ pc'[r] = "joined" =>
             LET s == job'[r].slot
                 q == lane[job[s].lane].queue
             IN IF pc[s] = "queued"
                THEN \A i, j \in DOMAIN q :
                       q[i] = s /\ i < j => job[q[j]].kind = "sync"
                ELSE job'[r].policy = "coalesce" /\ q = <<>>]_vars
  <2> SUFFICES ASSUME AnswerInv, [Next]_vars, NEW r \in Tasks, pc[r] = "idle", pc'[r] = "joined"
               PROVE  LET s == job'[r].slot
                          q == lane[job[s].lane].queue
                      IN IF pc[s] = "queued"
                         THEN \A i, j \in DOMAIN q :
                                q[i] = s /\ i < j => job[q[j]].kind = "sync"
                         ELSE job'[r].policy = "coalesce" /\ q = <<>>
    OBVIOUS
  <2>1. IInv /\ Call(r) /\ pc \in [Tasks -> Positions] /\ job \in [Tasks -> JobRec]
    BY JobsStay DEF AnswerInv, IInv, TypeOK
  <2>2. \E a \in Accounts, policy \in {"coalesce", "force"} : JoinSync(r, a, policy)
    BY <2>1 DEF Call, Refuse, Enqueue, RequiresReconcile, Answer
  <2>3. PICK a \in Accounts, policy \in {"coalesce", "force"} : JoinSync(r, a, policy)
    BY <2>2
  <2>4. PICK s \in Joinable(a, policy) :
          job' = [job EXCEPT ![r] = Entry("sync", a, NoLane, 0, gate.generation, policy, s)]
    BY <2>3 DEF JoinSync
  <2>5. job'[r].slot = s /\ job'[r].policy = policy
    BY <2>1, <2>4 DEF Entry
  <2> QED
    BY <2>5, MergesBehind
<1> QED
  BY <1>1, AnswerInvariance, PTL DEF Spec, MergedAfterWrites
=============================================================================
