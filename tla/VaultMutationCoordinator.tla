---------------------- MODULE VaultMutationCoordinator ----------------------
(***************************************************************************)
(* The per-account lanes of src/core/vault/vault-mutation-coordinator.ts:  *)
(* syncs, mutations, terminal operations and dirty queries of one          *)
(* extension worker, the durable dirty marker they write ahead             *)
(* (vault-dirty-store.ts), and the account transitions of                  *)
(* background/index.ts that close the account gate, invalidate a lane and  *)
(* later readmit it.  A step of this module is one synchronous run of the  *)
(* JavaScript worker: everything between two awaits.                       *)
(*                                                                         *)
(* A lane object is a member of LaneIds: `lanes' is the Map from account   *)
(* to lane and a deleted lane keeps its own state, so that work left       *)
(* behind on a deleted lane would show.  A task is one call of the public  *)
(* interface: it names its caller, its queue entry and its sync token.     *)
(* A lease is the generation of the account gate that it was captured in.  *)
(***************************************************************************)
EXTENDS Naturals, Sequences, FiniteSets

CONSTANTS
    Accounts,       \* account keys: server URL and account identity
    Tasks,          \* the calls made on the coordinator in one behaviour
    LaneIds,        \* lane objects
    NoAccount, NoTask, NoLane,
    CallKinds,      \* bound: the kinds of call made in one behaviour
    MaxAccounts,    \* options.maxAccounts
    MaxPending,     \* options.maxPendingPerAccount
    MaxGeneration,  \* bound: account transitions stop at this generation
    MaxRestarts     \* bound: restarts of the extension worker

ASSUME NoneAssumption ==
    NoAccount \notin Accounts /\ NoTask \notin Tasks /\ NoLane \notin LaneIds

ASSUME BoundAssumption ==
    /\ CallKinds \subseteq {"sync", "mutation", "terminal", "query"}
    /\ MaxAccounts \in Nat \ {0} /\ MaxPending \in Nat \ {0}
    /\ MaxGeneration \in Nat /\ MaxRestarts \in Nat

VARIABLES
    lanes,       \* this.lanes: the lane of each account, or NoLane
    lane,        \* the fields of every lane object
    pc,          \* where each call stands
    job,         \* what each call captured when it was made
    outcome,     \* what each call was answered
    gate,        \* the account lease gate: generation and open account
    transition,  \* the account transition under way in background/index.ts
    blocked,     \* AuthService.terminalSessionBlocked
    durable,     \* accounts with a durable dirty marker
    out,         \* mutations whose remote write was issued and may take effect
    landed,      \* mutations whose remote write took effect on the server
    unseen,      \* issued writes of each account that no published copy follows
    read,        \* what was unseen when the server answered each call
    restarts

vars == <<lanes, lane, pc, job, outcome, gate, transition, blocked,
          durable, out, landed, unseen, read, restarts>>

laneVars == <<lanes, lane>>
callVars == <<pc, job, outcome>>
gateVars == <<gate, transition, blocked>>
writeVars == <<out, landed, unseen>>
vaultVars == <<durable, out, landed, unseen, read>>

-----------------------------------------------------------------------------
Kinds == {"sync", "mutation", "terminal"}

(* The positions of a call that holds the turn of its lane: a sync is      *)
(* "syncing", "fetched", "clearing", "cleared"; a mutation is "awaiting"   *)
(* the dirty load, "loaded", "marking", ..., "unmarked"; a terminal        *)
(* operation is in "preflight" or "terminal"; "returning" has settled but  *)
(* for the drain.  The server has answered in "fetched" and "refetched".   *)
MutationTurn == {"awaiting", "loaded", "marking", "marked", "committing",
                 "reconciling", "refetched", "unmarking", "unmarked"}
Running == MutationTurn \cup
    {"syncing", "fetched", "clearing", "cleared", "preflight", "terminal", "returning"}

Positions == Running \cup {"idle", "queued", "joined", "querying", "done"}

Outcomes == {"none", "rejected", "cancelled", "lost", "ok", "not_committed",
             "conflict", "outcome_unknown", "committed_unsynced", "committed",
             "dirty", "clean"}

LaneRec ==
    [account : Accounts \cup {NoAccount}, queue : Seq(Tasks), epoch : Nat,
     draining : BOOLEAN, active : Tasks \cup {NoTask}, suspended : BOOLEAN,
     terminal : {"none", "committed_active", "sealed"}, terminalLease : Nat,
     retireOnIdle : BOOLEAN, needsReconcile : BOOLEAN, dirtyLoaded : BOOLEAN,
     dirtyLoad : BOOLEAN, activeSync : Tasks \cup {NoTask},
     tailSync : Tasks \cup {NoTask}]

NewLaneLoaded(a) ==   \* mutant: a fresh lane believes it has read the marker
    [account |-> a, queue |-> <<>>, epoch |-> 0, draining |-> FALSE,
     active |-> NoTask, suspended |-> FALSE, terminal |-> "none",
     terminalLease |-> 0, retireOnIdle |-> FALSE, needsReconcile |-> FALSE,
     dirtyLoaded |-> TRUE, dirtyLoad |-> FALSE, activeSync |-> NoTask,
     tailSync |-> NoTask]

NewLane(a) ==
    [account |-> a, queue |-> <<>>, epoch |-> 0, draining |-> FALSE,
     active |-> NoTask, suspended |-> FALSE, terminal |-> "none",
     terminalLease |-> 0, retireOnIdle |-> FALSE, needsReconcile |-> FALSE,
     dirtyLoaded |-> FALSE, dirtyLoad |-> FALSE, activeSync |-> NoTask,
     tailSync |-> NoTask]

JobRec ==
    [kind : Kinds \cup {"none", "query"}, account : Accounts \cup {NoAccount},
     lane : LaneIds \cup {NoLane}, epoch : Nat, lease : Nat,
     policy : {"none", "coalesce", "force"}, slot : Tasks \cup {NoTask}]

Entry(k, a, l, e, g, p, s) ==
    [kind |-> k, account |-> a, lane |-> l, epoch |-> e, lease |-> g,
     policy |-> p, slot |-> s]

NoJob == Entry("none", NoAccount, NoLane, 0, 0, "none", NoTask)

TypeOK ==
    /\ lanes \in [Accounts -> LaneIds \cup {NoLane}]
    /\ lane \in [LaneIds -> LaneRec]
    /\ pc \in [Tasks -> Positions]
    /\ job \in [Tasks -> JobRec]
    /\ outcome \in [Tasks -> Outcomes]
    /\ gate \in [generation : Nat, account : Accounts \cup {NoAccount}]
    /\ transition \in [phase : {"idle", "closed", "moving", "settled"},
                       reason : {"login", "other", "keyRotation"},
                       account : Accounts \cup {NoAccount}, opens : BOOLEAN]
    /\ blocked \in BOOLEAN
    /\ durable \subseteq Accounts
    /\ out \subseteq Tasks
    /\ landed \subseteq Tasks
    /\ unseen \in [Accounts -> SUBSET Tasks]
    /\ read \in [Tasks -> SUBSET Tasks]
    /\ restarts \in Nat

NoTransition == [phase |-> "idle", reason |-> "other", account |-> NoAccount,
                 opens |-> FALSE]

Init ==
    /\ lanes = [a \in Accounts |-> NoLane]
    /\ lane = [l \in LaneIds |-> NewLane(NoAccount)]
    /\ pc = [t \in Tasks |-> "idle"]
    /\ job = [t \in Tasks |-> NoJob]
    /\ outcome = [t \in Tasks |-> "none"]
    /\ \E a \in Accounts \cup {NoAccount} : gate = [generation |-> 0, account |-> a]
    /\ transition = NoTransition
    /\ blocked = FALSE
    /\ durable = {} /\ out = {} /\ landed = {}
    /\ unseen = [a \in Accounts |-> {}]
    /\ read = [t \in Tasks |-> {}]
    /\ restarts = 0

-----------------------------------------------------------------------------
(* Helpers.                                                                *)

(* accountGate.assert: the lease still names the open account generation.  *)
LeaseHolds(a, lease) == gate.account = a /\ gate.generation = lease

(* assertCurrent of a task, against the fields r of its lane.              *)
CurrentIn(t, r) ==
    /\ lanes[job[t].account] = job[t].lane
    /\ r.epoch = job[t].epoch
    /\ ~r.suspended
    /\ LeaseHolds(job[t].account, job[t].lease)

IsCurrent(t) == CurrentIn(t, lane[job[t].lane])

DeletableWhileActive(l, r) ==   \* mutant: the active check is dropped
    /\ r.account \in Accounts /\ lanes[r.account] = l
    /\ r.queue = <<>> /\ ~r.dirtyLoad
    /\ r.activeSync = NoTask /\ r.tailSync = NoTask
    /\ r.suspended => r.terminal = "none"

(* deleteLaneIfIdle: lane l with fields r leaves the map once it is idle.  *)
Deletable(l, r) ==
    /\ r.account \in Accounts /\ lanes[r.account] = l
    /\ r.active = NoTask /\ r.queue = <<>> /\ ~r.dirtyLoad
    /\ r.activeSync = NoTask /\ r.tailSync = NoTask
    /\ \/ r.retireOnIdle /\ r.terminal = "sealed"
       \/ ~r.suspended /\ ~r.needsReconcile
       \/ r.suspended /\ r.terminal = "none"

ReleaseIfIdle(l, r) ==
    lanes' = IF Deletable(l, r) THEN [lanes EXCEPT ![r.account] = NoLane] ELSE lanes

(* getOrCreateLane: the lane of the account, or a fresh lane object while  *)
(* fewer than MaxAccounts accounts are tracked.  Which of the unused ones  *)
(* stands for it makes no difference.                                      *)
Unused(l) ==
    /\ \A a \in Accounts : lanes[a] # l
    /\ \A t \in Tasks : job[t].lane = l => pc[t] \in {"done", "joined"}
    /\ ~lane[l].draining

HasCapacity(a) ==
    \/ lanes[a] # NoLane /\ Len(lane[lanes[a]].queue) < MaxPending
    \/ lanes[a] = NoLane /\ Cardinality({b \in Accounts : lanes[b] # NoLane}) < MaxAccounts

LanesFor(a) ==
    IF lanes[a] # NoLane THEN {lanes[a]}
    ELSE LET free == {l \in LaneIds : Unused(l)} IN
         IF free = {} THEN {} ELSE {CHOOSE l \in free : TRUE}
FieldsFor(a, l) == IF lanes[a] # NoLane THEN lane[l] ELSE NewLane(a)

SuspendedIgnored(a) == FALSE   \* mutant: a suspended lane admits calls

Suspended(a) == lanes[a] # NoLane /\ lane[lanes[a]].suspended

-----------------------------------------------------------------------------
(* Calls: requestSync, runMutation, runTerminal, requiresReconcile.        *)

(* isSyncSlotCurrent                                                       *)
SlotCurrent(l, s) ==
    job[s].epoch = lane[l].epoch /\ LeaseHolds(job[s].account, job[s].lease)

(* The sync slots of the account that a new request may join.              *)
Joinable(a, policy) ==
    IF lanes[a] = NoLane THEN {}
    ELSE LET r == lane[lanes[a]] IN
         IF /\ r.tailSync # NoTask
            /\ SlotCurrent(lanes[a], r.tailSync)
            /\ policy = "coalesce" \/ job[r.tailSync].policy = "force"
         THEN {r.tailSync}
         ELSE IF /\ policy = "coalesce" /\ r.queue = <<>>
                 /\ r.activeSync # NoTask /\ SlotCurrent(lanes[a], r.activeSync)
              THEN {r.activeSync}
              ELSE {}

Answer(t, o) ==
    /\ pc' = [pc EXCEPT ![t] = "done"]
    /\ outcome' = [outcome EXCEPT ![t] = o]

(* A call that is refused before it is queued: the lane is suspended, the  *)
(* gate issues no lease for the account, or a capacity is reached.         *)
Refuse(t, k, a, policy) ==
    /\ pc[t] = "idle"
    /\ k # "sync" => policy = "none"
    /\ k = "sync" => policy # "none"
    /\ \/ Suspended(a)
       \/ gate.account # a
       \/ ~HasCapacity(a) /\ (k = "sync" => Joinable(a, policy) = {})
    /\ Answer(t, IF k = "mutation" THEN "not_committed" ELSE "rejected")
    /\ UNCHANGED <<laneVars, job, gateVars, vaultVars, restarts>>

(* A sync request that is answered by a slot already queued or active.     *)
JoinSync(t, a, policy) ==
    /\ pc[t] = "idle"
    /\ ~Suspended(a) /\ gate.account = a
    /\ \E s \in Joinable(a, policy) :
         job' = [job EXCEPT ![t] =
                   Entry("sync", a, NoLane, 0, gate.generation, policy, s)]
    /\ pc' = [pc EXCEPT ![t] = "joined"]
    /\ UNCHANGED <<laneVars, outcome, gateVars, vaultVars, restarts>>

(* A call that enters the queue of its lane: a sync becomes the tail slot, *)
(* any other call closes the tail slot to later requests.                  *)
TailKept(k, t, r) == IF k = "sync" THEN t ELSE r.tailSync   \* mutant
TailAfter(k, t, r) == IF k = "sync" THEN t ELSE NoTask

Enqueue(t, k, a, policy) ==
    /\ pc[t] = "idle"
    /\ k # "sync" => policy = "none"
    /\ k = "sync" => policy # "none" /\ Joinable(a, policy) = {}
    /\ ~Suspended(a) /\ gate.account = a /\ HasCapacity(a)
    /\ \E l \in LanesFor(a) :
         LET r == FieldsFor(a, l) IN
         /\ lanes' = [lanes EXCEPT ![a] = l]
         /\ lane' = [lane EXCEPT ![l] =
                       [r EXCEPT !.queue = Append(@, t), !.draining = TRUE,
                                 !.tailSync = TailAfter(k, t, r)]]
         /\ job' = [job EXCEPT ![t] =
                      Entry(k, a, l, r.epoch, gate.generation, policy, NoTask)]
    /\ pc' = [pc EXCEPT ![t] = "queued"]
    /\ UNCHANGED <<outcome, gateVars, vaultVars, restarts>>

(* requiresReconcile: answered at once when the marker was loaded before,  *)
(* else the call waits for the load it starts or shares.  It takes no turn *)
(* in the queue and may create a lane.                                     *)
DirtyAnswer(r) == IF r.needsReconcile THEN "dirty" ELSE "clean"

RequiresReconcile(t, a) ==
    /\ pc[t] = "idle"
    /\ \E l \in LanesFor(a) :
         LET r == FieldsFor(a, l) IN
         \/ /\ lanes[a] = NoLane /\ ~HasCapacity(a)
            /\ Answer(t, "rejected")
            /\ UNCHANGED <<laneVars, job>>
         \/ /\ r.dirtyLoaded
            /\ Answer(t, DirtyAnswer(r))
            /\ ReleaseIfIdle(l, r)
            /\ UNCHANGED <<lane, job>>
         \/ /\ lanes[a] # NoLane \/ HasCapacity(a)
            /\ ~r.dirtyLoaded
            /\ pc' = [pc EXCEPT ![t] = "querying"]
            /\ job' = [job EXCEPT ![t] = Entry("query", a, l, 0, 0, "none", NoTask)]
            /\ lanes' = [lanes EXCEPT ![a] = l]
            /\ lane' = [lane EXCEPT ![l] = [r EXCEPT !.dirtyLoad = TRUE]]
            /\ UNCHANGED outcome
    /\ UNCHANGED <<gateVars, vaultVars, restarts>>

-----------------------------------------------------------------------------
(* The drain loop of a lane.                                               *)

(* entry.run up to its first await: the head of the queue takes the turn   *)
(* and checks that it is current.                                          *)
StartsCurrent(r) == CurrentIn(Head(r.queue), r)

NeedsLoad(t, r) == job[t].kind = "mutation" /\ StartsCurrent(r) /\ ~r.dirtyLoaded

TurnStartedUndrained(r) ==   \* mutant: the drain forgets that it runs
    LET t == Head(r.queue) IN
    [r EXCEPT !.queue = Tail(@), !.active = t, !.draining = FALSE,
              !.tailSync = IF @ = t THEN NoTask ELSE @]

TurnStarted(r) ==
    LET t == Head(r.queue) IN
    [r EXCEPT !.queue = Tail(@), !.active = t,
              !.tailSync = IF @ = t THEN NoTask ELSE @,
              !.activeSync = IF job[t].kind = "sync" /\ StartsCurrent(r) THEN t ELSE @,
              !.dirtyLoad = IF NeedsLoad(t, r) THEN TRUE ELSE @]

FirstPosition(r) ==
    LET k == job[Head(r.queue)].kind IN
    IF ~StartsCurrent(r) THEN "returning"
    ELSE IF k = "sync" THEN "syncing"
    ELSE IF k = "terminal" THEN "preflight"
    ELSE IF r.dirtyLoaded THEN "loaded" ELSE "awaiting"

FirstOutcome(r) ==
    IF StartsCurrent(r) THEN "none"
    ELSE IF job[Head(r.queue)].kind = "mutation" THEN "not_committed" ELSE "rejected"

(* The rest of a drain pass over lane l with fields r, after the entries   *)
(* in `settled' resolved: start the next entry, or go idle.                *)
DrainOn(l, r, settled) ==
    IF r.queue = <<>>
    THEN /\ lane' = [lane EXCEPT ![l] = [r EXCEPT !.draining = FALSE]]
         /\ ReleaseIfIdle(l, r)
         /\ pc' = [t \in Tasks |-> IF t \in settled THEN "done" ELSE pc[t]]
         /\ UNCHANGED outcome
    ELSE /\ lane' = [lane EXCEPT ![l] = TurnStarted(r)]
         /\ pc' = [t \in Tasks |-> IF t \in settled THEN "done"
                                   ELSE IF t = Head(r.queue) THEN FirstPosition(r)
                                   ELSE pc[t]]
         /\ outcome' = [outcome EXCEPT ![Head(r.queue)] = FirstOutcome(r)]
         /\ UNCHANGED lanes

(* The microtask that scheduleDrain queued.                                *)
DrainStart(l) ==
    /\ lane[l].draining /\ lane[l].active = NoTask
    /\ DrainOn(l, lane[l], {})
    /\ UNCHANGED <<job, gateVars, vaultVars, restarts>>

(* The drain loop after `await entry.run()'.                               *)
DrainNext(l) ==
    /\ lane[l].draining /\ lane[l].active # NoTask
    /\ pc[lane[l].active] = "returning"
    /\ DrainOn(l, [lane[l] EXCEPT !.active = NoTask], {lane[l].active})
    /\ UNCHANGED <<job, gateVars, vaultVars, restarts>>

-----------------------------------------------------------------------------
(* The turn of a task.                                                     *)

Move(t, p) == pc' = [pc EXCEPT ![t] = p] /\ UNCHANGED <<outcome>>

(* The operation settles with answer o; a sync gives up its active slot.   *)
Return(t, o) ==
    /\ pc' = [pc EXCEPT ![t] = "returning"]
    /\ outcome' = [outcome EXCEPT ![t] = o]

SlotFreed(t, r) == [r EXCEPT !.activeSync = IF @ = t THEN NoTask ELSE @]

SetLane(t, r) == lane' = [lane EXCEPT ![job[t].lane] = r]
MyLane(t) == lane[job[t].lane]

(* The server answers the request of a sync or of a reconciliation: what   *)
(* it sends follows every write that was issued before.                    *)
ServerAnswers(t) ==
    /\ pc[t] \in {"syncing", "reconciling"}
    /\ read' = [read EXCEPT ![t] = unseen[job[t].account]]
    /\ Move(t, IF pc[t] = "syncing" THEN "fetched" ELSE "refetched")
    /\ UNCHANGED <<laneVars, job, gateVars, durable, writeVars, restarts>>

ReadForgotten(t) == read' = [read EXCEPT ![t] = {}]

(* The copy that the server sent is published to the local cache, unless   *)
(* the request or the publication fails.                                   *)
Published(t, ok) ==
    /\ unseen' = IF ok THEN [unseen EXCEPT ![job[t].account] = @ \ read[t]] ELSE unseen
    /\ ReadForgotten(t)
    /\ UNCHANGED <<durable, out, landed>>

(* requestSync's task settles.  A completed sync has published a copy of   *)
(* the vault; it clears the marker only while current.                     *)
SyncReturns(t, ok) ==
    /\ pc[t] = "fetched" \/ (pc[t] = "syncing" /\ ~ok)
    /\ Published(t, ok)
    /\ IF ok /\ IsCurrent(t)
       THEN Move(t, "clearing") /\ UNCHANGED lane
       ELSE Return(t, "rejected") /\ SetLane(t, SlotFreed(t, MyLane(t)))
    /\ UNCHANGED <<lanes, job, gateVars, restarts>>

(* The shared load of the durable marker settles: the mutation whose turn  *)
(* it is and every waiting query go on; the lane may have become idle.     *)
LoadSettles(l, ok) ==
    /\ lane[l].dirtyLoad
    /\ LET r == [lane[l] EXCEPT
                   !.dirtyLoad = FALSE,
                   !.dirtyLoaded = IF ok THEN TRUE ELSE @,
                   !.needsReconcile =
                     IF ok /\ lane[l].account \in durable THEN TRUE ELSE @]
           Waiting(t) == job[t].lane = l /\ pc[t] \in {"awaiting", "querying"}
       IN /\ lane' = [lane EXCEPT ![l] = r]
          /\ ReleaseIfIdle(l, r)
          /\ pc' = [t \in Tasks |->
                      IF ~Waiting(t) THEN pc[t]
                      ELSE IF pc[t] = "querying" THEN "done"
                      ELSE IF ok THEN "loaded" ELSE "returning"]
          /\ outcome' = [t \in Tasks |->
                      IF ~Waiting(t) THEN outcome[t]
                      ELSE IF pc[t] = "querying"
                           THEN IF ok THEN DirtyAnswer(r) ELSE "rejected"
                      ELSE IF ok THEN outcome[t] ELSE "not_committed"]
    /\ UNCHANGED <<job, gateVars, vaultVars, restarts>>

CheckDirtyBlind(t) ==   \* mutant: needsReconcile is not consulted
    /\ pc[t] = "loaded"
    /\ IF IsCurrent(t) THEN Move(t, "marking") ELSE Return(t, "not_committed")
    /\ UNCHANGED <<laneVars, job, gateVars, vaultVars, restarts>>

(* executeMutation after ensureDirtyLoaded: it refuses to write over an    *)
(* unreconciled mutation.                                                  *)
CheckDirty(t) ==
    /\ pc[t] = "loaded"
    /\ IF IsCurrent(t) /\ ~MyLane(t).needsReconcile
       THEN Move(t, "marking")
       ELSE Return(t, "not_committed")
    /\ UNCHANGED <<laneVars, job, gateVars, vaultVars, restarts>>

(* dirtyAdapter.markDirty takes effect in storage before its promise       *)
(* resolves; it may also fail, before or after taking effect.              *)
MarkerWritten(t) ==
    /\ pc[t] = "marking"
    /\ durable' = durable \cup {job[t].account}
    /\ Move(t, "marked")
    /\ UNCHANGED <<laneVars, job, gateVars, writeVars, read, restarts>>

MarkFails(t) ==
    /\ pc[t] \in {"marking", "marked"}
    /\ Return(t, "not_committed")
    /\ UNCHANGED <<laneVars, job, gateVars, vaultVars, restarts>>

(* task.commit is called: from now on its write may reach the server.      *)
Issues(t) ==
    /\ out' = out \cup {t}
    /\ unseen' = [unseen EXCEPT ![job[t].account] = @ \cup {t}]
    /\ UNCHANGED landed

BeginCommitForgetful(t) ==   \* mutant: markDirty leaves needsReconcile alone
    /\ pc[t] = "marked"
    /\ \/ IsCurrent(t) /\ Move(t, "committing") /\ Issues(t)
       \/ ~IsCurrent(t) /\ Move(t, "unmarking") /\ UNCHANGED writeVars
    /\ UNCHANGED <<laneVars, job, gateVars, durable, read, restarts>>

(* markDirty resolved: the remote write begins only if the task is still   *)
(* current, otherwise the marker is taken back.                            *)
BeginCommit(t) ==
    /\ pc[t] = "marked"
    /\ SetLane(t, [MyLane(t) EXCEPT !.dirtyLoaded = TRUE, !.needsReconcile = TRUE])
    /\ \/ IsCurrent(t) /\ Move(t, "committing") /\ Issues(t)
       \/ ~IsCurrent(t) /\ Move(t, "unmarking") /\ UNCHANGED writeVars
    /\ UNCHANGED <<lanes, job, gateVars, durable, read, restarts>>

(* The remote write takes effect on the server: at most once, and at any   *)
(* time after it was issued, also when its call was answered with an       *)
(* unknown outcome or its worker is gone.                                  *)
CommitLands(t) ==
    /\ t \in out
    /\ out' = out \ {t}
    /\ landed' = landed \cup {t}
    /\ UNCHANGED <<laneVars, callVars, gateVars, durable, unseen, read, restarts>>

CommitDisowned(t) ==   \* mutant: a commit that lost its lease is disowned
    /\ pc[t] = "committing" /\ t \in landed
    /\ IF IsCurrent(t) THEN Move(t, "reconciling") ELSE Return(t, "not_committed")
    /\ UNCHANGED <<laneVars, job, gateVars, vaultVars, restarts>>

CommitSucceeds(t) ==
    /\ pc[t] = "committing" /\ t \in landed
    /\ IF IsCurrent(t) THEN Move(t, "reconciling") ELSE Return(t, "committed_unsynced")
    /\ UNCHANGED <<laneVars, job, gateVars, vaultVars, restarts>>

(* A failure that rules the write out: it did not and will not take effect. *)
Unknown(o) == o = "outcome_unknown"

RuledOut(t) ==
    /\ t \in out /\ t \notin landed
    /\ out' = out \ {t}
    /\ unseen' = [unseen EXCEPT ![job[t].account] = @ \ {t}]
    /\ UNCHANGED landed

CommitFailsClean(t, o) ==   \* mutant: every failure takes the marker back
    /\ pc[t] = "committing"
    /\ Move(t, "unmarking")
    /\ IF Unknown(o) THEN UNCHANGED writeVars ELSE RuledOut(t)
    /\ UNCHANGED <<laneVars, job, gateVars, durable, read, restarts>>

(* classifyCommitFailure: a write known not to have happened takes its     *)
(* marker back, every other failure keeps it.  After an unknown outcome    *)
(* the write stays out: it may still take effect.                          *)
CommitFails(t, o) ==
    /\ pc[t] = "committing"
    /\ IF Unknown(o) THEN UNCHANGED writeVars ELSE RuledOut(t)
    /\ IF o = "not_committed" THEN Move(t, "unmarking") ELSE Return(t, o)
    /\ UNCHANGED <<laneVars, job, gateVars, durable, read, restarts>>

ReconcileReturns(t, ok) ==
    /\ pc[t] = "refetched" \/ (pc[t] = "reconciling" /\ ~ok)
    /\ Published(t, ok)
    /\ IF ok /\ IsCurrent(t) THEN Move(t, "clearing") ELSE Return(t, "committed_unsynced")
    /\ UNCHANGED <<laneVars, job, gateVars, restarts>>

(* dirtyAdapter.clearDirty takes effect in storage.                        *)
MarkerCleared(t) ==
    /\ pc[t] \in {"clearing", "unmarking"}
    /\ durable' = durable \ {job[t].account}
    /\ Move(t, IF pc[t] = "clearing" THEN "cleared" ELSE "unmarked")
    /\ UNCHANGED <<laneVars, job, gateVars, writeVars, read, restarts>>

(* clearDirty settled.  A sync is answered with its listing and a mutation *)
(* as committed only if the task is current once more.                     *)
ClearReturns(t, ok) ==
    /\ pc[t] = "cleared" \/ (pc[t] = "clearing" /\ ~ok)
    /\ LET r == IF ok THEN [MyLane(t) EXCEPT !.dirtyLoaded = TRUE,
                                             !.needsReconcile = FALSE]
                ELSE MyLane(t)
       IN SetLane(t, SlotFreed(t, r))
    /\ IF job[t].kind = "sync"
       THEN Return(t, IF ok /\ IsCurrent(t) THEN "ok" ELSE "rejected")
       ELSE Return(t, IF ok /\ IsCurrent(t) THEN "committed" ELSE "committed_unsynced")
    /\ UNCHANGED <<lanes, job, gateVars, vaultVars, restarts>>

(* clearKnownNotCommitted settled, its own failure swallowed.              *)
UnmarkReturns(t, ok) ==
    /\ pc[t] = "unmarked" \/ (pc[t] = "unmarking" /\ ~ok)
    /\ SetLane(t, IF ok THEN [MyLane(t) EXCEPT !.dirtyLoaded = TRUE,
                                               !.needsReconcile = FALSE]
                  ELSE MyLane(t))
    /\ Return(t, "not_committed")
    /\ UNCHANGED <<lanes, job, gateVars, vaultVars, restarts>>

-----------------------------------------------------------------------------
(* Invalidation, terminal operations and readmission.                      *)

(* invalidateAccount on lane l with fields r: the epoch moves on, work     *)
(* that has not started is cancelled.                                      *)
Invalidated(r) ==
    [r EXCEPT !.epoch = @ + 1, !.suspended = TRUE, !.queue = <<>>, !.tailSync = NoTask]

QueuedIn(r) == {r.queue[i] : i \in DOMAIN r.queue}

InvalidateLane(l, r) ==
    /\ lane' = [lane EXCEPT ![l] = Invalidated(r)]
    /\ ReleaseIfIdle(l, Invalidated(r))
    /\ outcome' = [t \in Tasks |->
                     IF t \in QueuedIn(r) THEN "cancelled" ELSE outcome[t]]

Cancelled(r) == [t \in Tasks |-> IF t \in QueuedIn(r) THEN "done" ELSE pc[t]]

(* A terminal task passes its preflight and commits its barrier; the       *)
(* caller (commitAccountKeyRotation) holds an unlocked session lease, so   *)
(* no account transition is under way, and blocks every later one.         *)
CommitTerminal(t) ==
    /\ pc[t] = "preflight"
    /\ IsCurrent(t)
    /\ transition.phase = "idle" /\ ~blocked
    /\ InvalidateLane(job[t].lane,
         [MyLane(t) EXCEPT !.terminal = "committed_active",
                           !.terminalLease = job[t].lease, !.retireOnIdle = FALSE])
    /\ pc' = [Cancelled(MyLane(t)) EXCEPT ![t] = "terminal"]
    /\ blocked' = TRUE
    /\ UNCHANGED <<job, gate, transition, vaultVars, restarts>>

(* The task fails before its barrier, or completes without committing it.  *)
PreflightFails(t) ==
    /\ pc[t] = "preflight"
    /\ Return(t, "rejected")
    /\ UNCHANGED <<laneVars, job, gateVars, vaultVars, restarts>>

TerminalReturns(t, o) ==
    /\ pc[t] = "terminal"
    /\ SetLane(t, [MyLane(t) EXCEPT !.terminal = "sealed"])
    /\ Return(t, o)
    /\ UNCHANGED <<lanes, job, gateVars, vaultVars, restarts>>

(* resumeAccount, resetTerminatedAccount and retireTerminatedAccount.      *)
Tracked(a) == a \in Accounts /\ lanes[a] # NoLane

Resumable(a) == Tracked(a) /\ lane[lanes[a]].suspended /\ lane[lanes[a]].terminal = "none"

Resettable(a) ==
    /\ Tracked(a)
    /\ lane[lanes[a]].terminal = "sealed" /\ lane[lanes[a]].active = NoTask
    /\ ~LeaseHolds(a, lane[lanes[a]].terminalLease)
    /\ gate.account = a

RetirableLater(a) ==   \* mutant: retirement waits for a fresh session
    /\ Tracked(a)
    /\ lane[lanes[a]].suspended /\ lane[lanes[a]].terminal # "none"
    /\ ~LeaseHolds(a, lane[lanes[a]].terminalLease)
    /\ gate.account = a

Retirable(a) ==
    /\ Tracked(a)
    /\ lane[lanes[a]].suspended /\ lane[lanes[a]].terminal # "none"
    /\ ~LeaseHolds(a, lane[lanes[a]].terminalLease)
    /\ gate.account # a

Readmit(a, r) ==
    /\ lane' = [lane EXCEPT ![lanes[a]] = r]
    /\ ReleaseIfIdle(lanes[a], r)

Resumed(r) == [r EXCEPT !.epoch = @ + 1, !.suspended = FALSE]
Reset(r) == [r EXCEPT !.epoch = @ + 1, !.terminal = "none", !.terminalLease = 0,
                      !.retireOnIdle = FALSE, !.suspended = FALSE]

ResumeAccount(a) ==
    IF Resumable(a) THEN Readmit(a, Resumed(lane[lanes[a]])) ELSE UNCHANGED laneVars

(* settleVaultAccountAdmission of a settled transition.                    *)
SettleAdmission(reason, old, opens) ==
    IF reason = "keyRotation"
    THEN IF Retirable(old)
         THEN Readmit(old, [lane[lanes[old]] EXCEPT !.retireOnIdle = TRUE])
         ELSE UNCHANGED laneVars
    ELSE IF ~opens \/ gate.account = NoAccount THEN UNCHANGED laneVars
    ELSE IF reason = "login" /\ Resettable(gate.account)
         THEN Readmit(gate.account, Reset(lane[lanes[gate.account]]))
         ELSE ResumeAccount(gate.account)

-----------------------------------------------------------------------------
(* Account transitions, as handleAccountTransition drives them.            *)

(* The lifecycle start of an identity transition closes the gate; only the *)
(* committed terminal task starts a key rotation.                          *)
TransitionStart(reason) ==
    /\ transition.phase = "idle" /\ gate.generation < MaxGeneration
    /\ IF reason = "keyRotation"
       THEN blocked /\ \E t \in Tasks : pc[t] = "terminal"
       ELSE ~blocked
    /\ gate' = [generation |-> gate.generation + 1, account |-> NoAccount]
    /\ transition' = [phase |-> "closed", reason |-> reason,
                      account |-> gate.account, opens |-> FALSE]
    /\ UNCHANGED <<laneVars, callVars, blocked, vaultVars, restarts>>

(* ... and, one await later, the lane of the account that was open is      *)
(* invalidated.                                                            *)
TransitionInvalidates ==
    /\ transition.phase = "closed"
    /\ transition' = [transition EXCEPT !.phase = "moving"]
    /\ IF Tracked(transition.account)
       THEN LET l == lanes[transition.account] IN
            InvalidateLane(l, lane[l]) /\ pc' = Cancelled(lane[l])
       ELSE UNCHANGED <<laneVars, pc, outcome>>
    /\ UNCHANGED <<job, gate, blocked, vaultVars, restarts>>

(* The settlement publishes the account that storage now names.  A key     *)
(* rotation settles only from inside its terminal task, logged out; a      *)
(* failed one never settles and waits for a restart.                       *)
TransitionSettles(a, opens) ==
    /\ transition.phase = "moving"
    /\ transition.reason = "keyRotation" =>
         a = NoAccount /\ ~opens /\ \E t \in Tasks : pc[t] = "terminal"
    /\ opens => a # NoAccount
    /\ gate' = [gate EXCEPT !.account = a]
    /\ transition' = [transition EXCEPT !.phase = "settled", !.opens = opens]
    /\ UNCHANGED <<laneVars, callVars, blocked, vaultVars, restarts>>

TransitionAdmits ==
    /\ transition.phase = "settled"
    /\ SettleAdmission(transition.reason, transition.account, transition.opens)
    /\ transition' = NoTransition
    /\ blocked' = IF transition.reason = "keyRotation" THEN FALSE ELSE blocked
    /\ UNCHANGED <<callVars, gate, vaultVars, restarts>>

(* The settlement of an unlock, which leaves the account gate alone.       *)
UnlockSettles ==
    /\ transition.phase = "idle" /\ ~blocked
    /\ Resumable(gate.account)
    /\ ResumeAccount(gate.account)
    /\ UNCHANGED <<callVars, gateVars, vaultVars, restarts>>

(* The browser stops the extension worker and starts it again: memory is   *)
(* gone, every open call is lost, the durable marker and the server stay,  *)
(* and so do the writes on their way to it.  The new gate issues leases    *)
(* that no old one equals.                                                 *)
Restart(a) ==
    /\ restarts < MaxRestarts
    /\ restarts' = restarts + 1
    /\ lanes' = [b \in Accounts |-> NoLane]
    /\ lane' = [l \in LaneIds |-> NewLane(NoAccount)]
    /\ pc' = [t \in Tasks |-> IF pc[t] = "idle" THEN "idle" ELSE "done"]
    /\ outcome' = [t \in Tasks |->
                     IF pc[t] \in {"idle", "done"} THEN outcome[t] ELSE "lost"]
    /\ gate' = [generation |-> gate.generation + 1, account |-> a]
    /\ transition' = NoTransition
    /\ blocked' = FALSE
    /\ read' = [t \in Tasks |-> {}]
    /\ UNCHANGED <<job, durable, writeVars>>

-----------------------------------------------------------------------------
Call(t) ==
    \E a \in Accounts :
      \/ \E k \in Kinds \cap CallKinds, policy \in {"none", "coalesce", "force"} :
           Refuse(t, k, a, policy) \/ Enqueue(t, k, a, policy)
      \/ "sync" \in CallKinds
         /\ \E policy \in {"coalesce", "force"} : JoinSync(t, a, policy)
      \/ "query" \in CallKinds /\ RequiresReconcile(t, a)

TurnStep(t) ==
    \/ \E ok \in BOOLEAN : \/ SyncReturns(t, ok) \/ ReconcileReturns(t, ok)
                           \/ ClearReturns(t, ok) \/ UnmarkReturns(t, ok)
    \/ ServerAnswers(t) \/ CheckDirty(t) \/ MarkerWritten(t) \/ MarkFails(t) \/ BeginCommit(t)
    \/ CommitSucceeds(t)
    \/ \E o \in {"not_committed", "conflict", "outcome_unknown"} : CommitFails(t, o)
    \/ MarkerCleared(t)
    \/ CommitTerminal(t) \/ PreflightFails(t)
    \/ \E o \in {"ok", "outcome_unknown"} : TerminalReturns(t, o)

LaneStep(l) ==
    DrainStart(l) \/ DrainNext(l) \/ \E ok \in BOOLEAN : LoadSettles(l, ok)

Environment ==
    \/ \E t \in Tasks : CommitLands(t)
    \/ \E reason \in {"login", "other", "keyRotation"} : TransitionStart(reason)
    \/ TransitionInvalidates
    \/ \E a \in Accounts \cup {NoAccount}, opens \in BOOLEAN : TransitionSettles(a, opens)
    \/ TransitionAdmits \/ UnlockSettles
    \/ \E a \in Accounts \cup {NoAccount} : Restart(a)

Next ==
    \/ \E t \in Tasks : Call(t) \/ TurnStep(t)
    \/ \E l \in LaneIds : LaneStep(l)
    \/ Environment

Spec == Init /\ [][Next]_vars

(* Every promise a turn awaits settles and every queued microtask runs;    *)
(* nobody has to make a call, change the account or restart the worker.    *)
FairSpec ==
    Spec /\ (\A t \in Tasks : WF_vars(TurnStep(t)))
         /\ (\A l \in LaneIds : WF_vars(LaneStep(l)))

-----------------------------------------------------------------------------
(* Properties.                                                             *)

(* Write-ahead: from the moment a write is issued until a copy of the      *)
(* vault that the server sent after that moment is published, or the write *)
(* is known not to have happened, the durable marker of its account is     *)
(* set, across failures of every step, late effects, invalidations, lane   *)
(* deletions and worker restarts (executeMutation, clearDirty).  It is     *)
(* what makes a restarted worker ask for a sync.  It does not say that the *)
(* cache reflects every write: one that was still out when the server      *)
(* answered, because its answer was lost or its worker stopped, may take   *)
(* effect after that sync has cleared the marker, and no marker covers it. *)
WriteAhead == \A a \in Accounts : unseen[a] # {} => a \in durable

(* A remote write is never issued while an earlier write of the account is *)
(* not followed by a published copy, whichever lane or worker issued that  *)
(* one and whether or not it has taken effect ("A previous vault mutation  *)
(* must be reconciled before another write").  An earlier write that takes *)
(* effect only after the copy was read is outside this promise, too.       *)
NoBlindWrite ==
    \A t \in Tasks :
      pc[t] \in {"marking", "marked", "committing"} => unseen[job[t].account] \subseteq {t}

(* One turn per account: at most one call of an account is between its     *)
(* first synchronous step and the drain that settles it, even when lanes   *)
(* of the account were deleted and created anew (drain, deleteLaneIfIdle). *)
OneTurnPerAccount ==
    \A t, u \in Tasks :
      pc[t] \in Running /\ pc[u] \in Running /\ job[t].account = job[u].account
        => t = u

(* A mutation answered not_committed or conflict has not changed the       *)
(* server and never will, one answered committed has; a cancelled mutation *)
(* has not and will not either (executeMutation, classifyCommitFailure,    *)
(* cancel).  An unknown outcome promises nothing.                          *)
AnswersAreHonest ==
    \A t \in Tasks :
      job[t].kind = "mutation" =>
        /\ outcome[t] \in {"not_committed", "conflict", "cancelled"} => t \notin out \cup landed
        /\ outcome[t] \in {"committed", "committed_unsynced"} => t \in landed

(* Admission: once the account transition is over, the lane of the account *)
(* that is open never stays suspended with nothing running in it, unless a *)
(* key rotation is blocked until restart (settleVaultAccountAdmission,     *)
(* resume, reset and retire, deleteLaneIfIdle).                            *)
NoStuckAdmission ==
    \A a \in Accounts :
      /\ transition.phase = "idle" /\ gate.account = a /\ ~blocked
      /\ lanes[a] # NoLane /\ lane[lanes[a]].active = NoTask
      /\ lane[lanes[a]].suspended
      => lane[lanes[a]].dirtyLoad

(* Terminal barrier: after a terminal operation committed, no other call   *)
(* that was admitted under the same lease of the account ever takes a turn *)
(* ("queued and new ordinary work is denied").                             *)
Barred(t) ==
    job[t].kind = "terminal" /\ (pc[t] = "terminal" \/ outcome[t] \in {"ok", "outcome_unknown"})

TerminalBarrier ==
    [][\A t, u \in Tasks :
         /\ Barred(t) /\ t # u
         /\ pc[u] \in {"idle", "queued"} /\ pc'[u] \in Running \cup {"queued", "joined"}
         /\ job'[u].account = job[t].account
         => job'[u].lease # job[t].lease \/ pc'[u] = pc[u]]_vars

(* Read your writes: a sync request is only merged into a sync that still  *)
(* runs behind every mutation and terminal operation queued before the     *)
(* request; a forced request never into one that has already started.      *)
MergedAfterWrites ==
    [][\A r \in Tasks :
         pc[r] = "idle" /\ pc'[r] = "joined" =>
           LET s == job'[r].slot
               q == lane[job[s].lane].queue
           IN IF pc[s] = "queued"
              THEN \A i, j \in DOMAIN q :
                     q[i] = s /\ i < j => job[q[j]].kind = "sync"
              ELSE job'[r].policy = "coalesce" /\ q = <<>>]_vars

(* The inductive invariant behind the safety properties, by parts.         *)

(* Lanes in the map know their account, and a lane with queued work is in  *)
(* the map; queue entries are distinct calls waiting in that lane.         *)
MapInv ==
    \A a \in Accounts : lanes[a] # NoLane => lane[lanes[a]].account = a

QueueInv ==
    \A l \in LaneIds :
      /\ lane[l].queue # <<>> =>
           lane[l].account \in Accounts /\ lanes[lane[l].account] = l
      /\ \A i \in DOMAIN lane[l].queue :
           LET t == lane[l].queue[i] IN
           /\ pc[t] = "queued" /\ job[t].kind \in Kinds
           /\ job[t].lane = l /\ job[t].account = lane[l].account
      /\ \A i, j \in DOMAIN lane[l].queue :
           lane[l].queue[i] = lane[l].queue[j] => i = j

(* A call that holds a turn is the active entry of a lane in the map.      *)
HoldsTurn(t) ==
    /\ job[t].account \in Accounts /\ job[t].lane \in LaneIds
    /\ lanes[job[t].account] = job[t].lane
    /\ lane[job[t].lane].account = job[t].account
    /\ lane[job[t].lane].active = t

TurnInv == \A t \in Tasks : pc[t] \in Running => HoldsTurn(t)

(* What each position of a turn guarantees about marker, writes and lane.  *)
Unissued == {"idle", "queued", "awaiting", "loaded", "marking", "marked"}

Covered == {"marking", "marked", "clearing", "cleared", "unmarking", "unmarked"}

MarkerAt(t) ==
    /\ pc[t] \in Unissued => t \notin out \cup landed
    /\ pc[t] \in {"marked", "committing"} => job[t].account \in durable
    /\ pc[t] \in Covered => unseen[job[t].account] = {}
    /\ pc[t] = "committing" => unseen[job[t].account] = {t}
    /\ pc[t] \in {"fetched", "refetched"} => unseen[job[t].account] \subseteq read[t]
    /\ pc[t] = "loaded" => lane[job[t].lane].dirtyLoaded
    /\ pc[t] = "committing" => lane[job[t].lane].needsReconcile

MarkerInv == \A t \in Tasks : MarkerAt(t)

(* A lane that loaded the marker knows of every unseen write.              *)
KnowsOf(a) ==
    lanes[a] # NoLane /\ unseen[a] # {} /\ lane[lanes[a]].dirtyLoaded
      => lane[lanes[a]].needsReconcile

KnowledgeInv == \A a \in Accounts : KnowsOf(a)

IInv == /\ TypeOK /\ MapInv /\ QueueInv /\ TurnInv /\ MarkerInv
        /\ KnowledgeInv /\ WriteAhead

(* Liveness: every queued call is settled, cancelled or lost, and so is    *)
(* every request merged into another (drain, scheduleDrain).               *)
Settled(t) == pc[t] = "done" \/ (pc[t] = "joined" /\ pc[job[t].slot] = "done")

EveryCallSettles == \A t \in Tasks : pc[t] # "idle" ~> Settled(t)
=============================================================================
