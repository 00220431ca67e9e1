------------------------------ MODULE VaultSync ------------------------------
(***************************************************************************)
(* How the local copy of the vault keeps up with the server: the scheduler *)
(* that decides when a sync is due, the account lanes that run syncs and   *)
(* writes one at a time, the bounded store of the write-ahead markers, and *)
(* the one cache that syncs publish into.                                  *)
(*                                                                         *)
(*   - the scheduler reads the active account, the marker and the time of  *)
(*     the last success with an await after each, and requests the sync    *)
(*     of whatever account is active in the end;                           *)
(*   - the server changes under it: other devices write, and a write of    *)
(*     this one whose answer was lost may land at any later time;          *)
(*   - the account may be left, entered, locked and unlocked under every   *)
(*     await, and the worker may stop.                                     *)
(*                                                                         *)
(* The lanes are those of VaultMutationCoordinator, seen from outside: the *)
(* order of the queue, the joining of syncs, suspension and what a turn    *)
(* does to marker, server and cache.  A lane's memory of the marker is the *)
(* marker here (IInv of that module relates the two).  A version counts    *)
(* the changes the server has applied; the age of the last success stands  *)
(* for the threshold that the scheduler compares it with.                  *)
(***************************************************************************)
EXTENDS Naturals, Sequences, FiniteSets, SequencesExt

CONSTANTS Accounts, None,
          First,           \* the account that is active at the start
          Slots,           \* scheduler activities under way at once
          Timed,           \* the slot of the alarm and of the startup
          MaxMarkers,      \* capacity of the marker store
          MaxVersion,      \* bound on the changes of all accounts
          MaxQueued,       \* bound on the entries of a lane when a write is issued
          MaxDisturbances  \* bound on transitions, locks, worker stops, clock
                           \* changes and failures together

ASSUME SyncAssumption ==
    /\ None \notin Accounts /\ First \in Accounts
    /\ IsFiniteSet(Accounts)
    /\ Timed \in Slots
    /\ {MaxMarkers, MaxVersion, MaxQueued} \subseteq Nat \ {0}
    /\ MaxDisturbances \in Nat

VARIABLES
    account, unlocked,  \* the account the leases name, and whether its keys are held
    server,             \* changes the server has applied for each account
    late,               \* accounts with a write out there that no lane waits for
    own,                \* the server's version when a lane last sent or made a change
    unseen,             \* accounts whose own change, sent by a lane, may be missing
                        \* from every published copy
    cache,              \* the raw vault cache: its owner and version
    markers,            \* durable: account -> absent, clean or dirty
    age,                \* durable: account -> age of its last success
    flows,              \* what the scheduler is doing, by slot
    nudged,             \* a mutation has asked for a sync
    lanes, suspended,   \* queue of every account, and those refused admission
    disturbed           \* disturbances so far

vars == <<account, unlocked, server, late, own, unseen, cache, markers, age,
          flows, nudged, lanes, suspended, disturbed>>

network == <<server, late, own, unseen>>
session == <<account, unlocked>>

Ages == {"none", "fresh", "stale"}
Idle == [entry |-> "idle", at |-> "done"]
NoCache == [owner |-> None, version |-> 0]

SyncJob(policy, s) ==
    [kind |-> "sync", step |-> "queued", policy |-> policy, ok |-> TRUE,
     keys |-> TRUE, seen |-> 0, by |-> {s}]
WriteJob ==
    [kind |-> "write", step |-> "queued", policy |-> "force", ok |-> TRUE,
     keys |-> TRUE, seen |-> 0, by |-> {}]

Flow(entry, ctx) ==
    [entry |-> entry, at |-> "identify", id |-> None, ctx |-> ctx,
     dirty |-> TRUE, on |-> None, asked |-> 0]

Init ==
    /\ account = First /\ unlocked = TRUE
    /\ server = [a \in Accounts |-> 0] /\ late = {}
    /\ own = [a \in Accounts |-> 0] /\ unseen = {}
    /\ cache = NoCache
    /\ markers = [a \in Accounts |-> "absent"]
    /\ age = [a \in Accounts |-> "none"]
    /\ flows = [s \in Slots |-> IF s = Timed THEN Flow("startup", account) ELSE Idle]
    /\ nudged = FALSE
    /\ lanes = [a \in Accounts |-> <<>>] /\ suspended = {}
    /\ disturbed = 0

Disturb == disturbed < MaxDisturbances /\ disturbed' = disturbed + 1

-----------------------------------------------------------------------------
(* The marker store.                                                       *)

Tracked == {a \in Accounts : markers[a] # "absent"}
HasRoom(a) == a \in Tracked \/ Cardinality(Tracked) < MaxMarkers

\* mutant of Evictable: a dirty entry may go as well
EvictableAny == Tracked

\* Entries that may make room: the oldest of the clean ones goes.
Evictable == {a \in Tracked : markers[a] = "clean"}

MarkedStores(a) ==
    IF HasRoom(a) THEN {[markers EXCEPT ![a] = "dirty"]}
    ELSE {[markers EXCEPT ![a] = "dirty", ![b] = "absent"] : b \in Evictable}

ClearedMarkers(a) ==
    IF markers[a] = "dirty" THEN [markers EXCEPT ![a] = "clean"] ELSE markers

-----------------------------------------------------------------------------
(* The scheduler.  A step ends with the call of the next read; the active  *)
(* account is read at once (ctx), what follows when the answer is in.      *)

NeedsKeys(entry) == entry \in {"login", "unlock", "popup"}

Begin(s, entry) ==
    /\ flows[s] = Idle
    /\ flows' = [flows EXCEPT ![s] = Flow(entry, account)]

Ends(s) == flows' = [flows EXCEPT ![s] = Idle]

AlarmFires ==
    /\ Begin(Timed, "alarm")
    /\ UNCHANGED <<session, network, cache, markers, age, nudged,
                   lanes, suspended, disturbed>>

\* The popup opens, the user syncs, or a burst of notifications has passed.
UserAsks(s) ==
    /\ s # Timed
    /\ \E entry \in {"popup", "manual", "notification"} : Begin(s, entry)
    /\ UNCHANGED <<session, network, cache, markers, age, nudged,
                   lanes, suspended, disturbed>>

\* A nudge does what the user's request does.
MutationAsks(s) ==
    /\ nudged /\ s # Timed
    /\ Begin(s, "manual") /\ nudged' = FALSE
    /\ UNCHANGED <<session, network, cache, markers, age,
                   lanes, suspended, disturbed>>

CurrentSlot(job) == job.kind = "sync" /\ job.ok

\* mutant of Joins: a forced sync also joins the one under way
JoinsAnyActive(a, policy) ==
    IF lanes[a] # <<>> /\ CurrentSlot(Last(lanes[a])) THEN {Len(lanes[a])} ELSE {}

(* The queue position of the sync that a request joins: the last one still *)
(* waiting, or for a coalescing request the one that runs alone.           *)
Joins(a, policy) ==
    IF lanes[a] # <<>> /\ CurrentSlot(Last(lanes[a]))
       /\ \/ /\ Last(lanes[a]).step = "queued"
             /\ policy = "coalesce" \/ Last(lanes[a]).policy = "force"
          \/ Len(lanes[a]) = 1 /\ policy = "coalesce"
    THEN {Len(lanes[a])} ELSE {}

Joined(lane, s) == [lane EXCEPT ![Len(lane)].by = Last(lane).by \cup {s}]

(* trackSync: vault.sync takes the account that is active now, whatever    *)
(* identity the scheduler has checked.  Without a lease or with the lane   *)
(* suspended the request is refused and nothing is recorded.               *)
Requested(s, policy) ==
    IF account = None \/ account \in suspended
    THEN lanes' = lanes /\ Ends(s)
    ELSE /\ flows' = [flows EXCEPT
                ![s] = [entry |-> policy, at |-> "waiting", id |-> flows[s].ctx, ctx |-> None,
                        dirty |-> TRUE, on |-> account, asked |-> server[account]]]
         /\ lanes' = [lanes EXCEPT ![account] =
                IF Joins(account, policy) = {}
                THEN Append(@, SyncJob(policy, s)) ELSE Joined(@, s)]

\* What an activity does once it knows the account it is for.
Identified(s) ==
    LET f == flows[s] IN
    /\ f.at = "identify"
    /\ IF f.ctx = None \/ (NeedsKeys(f.entry) /\ ~unlocked)
       THEN Ends(s) /\ UNCHANGED lanes
       ELSE IF f.entry \in {"login", "manual"} THEN Requested(s, "force")
       ELSE IF f.entry = "notification" THEN Requested(s, "coalesce")
       ELSE /\ flows' = [flows EXCEPT ![s] = [f EXCEPT !.id = f.ctx, !.ctx = None,
                    !.at = IF f.entry = "unlock" THEN "rebuild" ELSE "dirty"]]
            /\ UNCHANGED lanes
    /\ UNCHANGED <<session, network, cache, markers, age, nudged,
                   suspended, disturbed>>

(* rebuildCache: nothing is done for another account than the one asked    *)
(* for, and that is no error; a cache of somebody else is none.            *)
Rebuilds(s) ==
    LET f == flows[s] IN
    /\ f.at = "rebuild"
    /\ LET failed == \/ account = None
                     \/ account = f.id /\ (~unlocked \/ cache.owner # f.id)
       IN  flows' = [flows EXCEPT ![s] = [@ EXCEPT
                        !.at = "rebuilt", !.ctx = account, !.dirty = failed]]
    /\ UNCHANGED <<session, network, cache, markers, age, nudged,
                   lanes, suspended, disturbed>>

\* requestIfDirtyOrStale: the rest is what the alarm does.
Onward(f) == [f EXCEPT !.entry = "alarm", !.at = "dirty", !.dirty = TRUE, !.ctx = None]

StillCurrent(f, keys) == f.ctx = f.id /\ (keys => unlocked)

Rebuilt(s) ==
    LET f == flows[s] IN
    /\ f.at = "rebuilt"
    /\ IF ~StillCurrent(f, TRUE) THEN Ends(s) /\ UNCHANGED lanes
       ELSE IF f.dirty THEN Requested(s, "coalesce")
       ELSE flows' = [flows EXCEPT ![s] = Onward(@)] /\ UNCHANGED lanes
    /\ UNCHANGED <<session, network, cache, markers, age, nudged,
                   suspended, disturbed>>

\* The marker is read; one that cannot be read counts as dirty.
ReadsMarker(s) ==
    LET f == flows[s] IN
    /\ f.at = "dirty"
    /\ \/ /\ flows' = [flows EXCEPT ![s] = [@ EXCEPT
                 !.at = "settle", !.ctx = account, !.dirty = markers[f.id] = "dirty"]]
          /\ UNCHANGED disturbed
       \/ /\ Disturb
          /\ flows' = [flows EXCEPT ![s] = [@ EXCEPT
                 !.at = "settle", !.ctx = account, !.dirty = TRUE]]
    /\ UNCHANGED <<session, network, cache, markers, age, nudged,
                   lanes, suspended>>

(* A dirty account is synced by force.  A clean startup goes on as the     *)
(* alarm does, with a second look at the marker.                           *)
Settles(s) ==
    LET f == flows[s] IN
    /\ f.at = "settle"
    /\ IF ~StillCurrent(f, f.entry \in {"popup", "startup"})
       THEN Ends(s) /\ UNCHANGED lanes
       ELSE IF f.dirty THEN Requested(s, "force")
       ELSE /\ flows' = [flows EXCEPT
                    ![s] = IF f.entry = "startup" THEN Onward(f) ELSE [f EXCEPT !.at = "age", !.ctx = None]]
            /\ UNCHANGED lanes
    /\ UNCHANGED <<session, network, cache, markers, age, nudged,
                   suspended, disturbed>>

\* mutant of Stale: a recorded success never gets too old
StaleNever(f) == {age[f.id] = "none"}

\* A popup finds a success that is too old for it before the others do.
Stale(f) == {age[f.id] # "fresh"} \cup (IF f.entry = "popup" THEN {TRUE} ELSE {})

\* The popup requests at once, the others look at the account again.
ReadsAge(s) ==
    LET f == flows[s] IN
    /\ f.at = "age"
    /\ \E stale \in Stale(f) :
       IF ~stale THEN Ends(s) /\ UNCHANGED lanes
       ELSE IF f.entry = "popup" THEN Requested(s, "coalesce")
       ELSE /\ flows' = [flows EXCEPT ![s].at = "confirm", ![s].ctx = account]
            /\ UNCHANGED lanes
    /\ UNCHANGED <<session, network, cache, markers, age, nudged,
                   suspended, disturbed>>

Confirms(s) ==
    LET f == flows[s] IN
    /\ f.at = "confirm"
    /\ IF StillCurrent(f, FALSE) THEN Requested(s, "coalesce")
       ELSE Ends(s) /\ UNCHANGED lanes
    /\ UNCHANGED <<session, network, cache, markers, age, nudged,
                   suspended, disturbed>>

FlowStep(s) ==
    \/ Identified(s) \/ Rebuilds(s) \/ Rebuilt(s) \/ ReadsMarker(s)
    \/ Settles(s) \/ ReadsAge(s) \/ Confirms(s)

-----------------------------------------------------------------------------
(* The lanes: the entry at the head has its turn.                          *)

At(a, kind, step) ==
    lanes[a] # <<>> /\ Head(lanes[a]).kind = kind /\ Head(lanes[a]).step = step

Holds(a) == Head(lanes[a]).ok
MayWrite(a) == Head(lanes[a]).ok /\ Head(lanes[a]).keys

TurnGoes(a, step) ==
    /\ lanes' = [lanes EXCEPT ![a][1].step = step]
    /\ UNCHANGED <<flows, suspended>>

TurnSees(a, step) ==
    /\ lanes' = [lanes EXCEPT ![a][1] = [@ EXCEPT !.step = step, !.seen = server[a]]]
    /\ UNCHANGED <<flows, suspended>>

Answered(by) == [s \in Slots |-> IF s \in by THEN Idle ELSE flows[s]]

\* The turn ends: its callers are answered, an idle lane is deleted.
TurnEnds(a) ==
    /\ lanes' = [lanes EXCEPT ![a] = Tail(@)]
    /\ suspended' = IF Len(lanes[a]) = 1 THEN suspended \ {a} ELSE suspended
    /\ flows' = Answered(Head(lanes[a]).by)

\* What a published response leaves: the raw cache and its time of success.
Published(a) ==
    /\ cache' = [owner |-> a, version |-> Head(lanes[a]).seen]
    /\ age' = [age EXCEPT ![a] = "fresh"]
    /\ unseen' = IF Head(lanes[a]).seen >= own[a] THEN unseen \ {a} ELSE unseen

SyncStarts(a) ==
    /\ At(a, "sync", "queued")
    /\ IF Holds(a) THEN TurnGoes(a, "asked") ELSE TurnEnds(a)
    /\ UNCHANGED <<session, network, cache, markers, age, nudged, disturbed>>

SyncAnswers(a) ==
    /\ At(a, "sync", "asked")
    /\ TurnSees(a, "answered")
    /\ UNCHANGED <<session, network, cache, markers, age, nudged, disturbed>>

SyncFails(a) ==
    /\ At(a, "sync", "asked") \/ At(a, "sync", "published")
    /\ Disturb /\ TurnEnds(a)
    /\ UNCHANGED <<session, network, cache, markers, age, nudged>>

\* mutant of SyncPublishes: the account is not looked at again
SyncPublishesAnyway(a) ==
    /\ At(a, "sync", "answered")
    /\ IF TRUE
       THEN TurnGoes(a, "published") /\ Published(a)
       ELSE TurnEnds(a) /\ UNCHANGED <<cache, age, unseen>>
    /\ UNCHANGED <<session, server, late, own, markers, nudged, disturbed>>

SyncPublishes(a) ==
    /\ At(a, "sync", "answered")
    /\ IF Holds(a)
       THEN TurnGoes(a, "published") /\ Published(a)
       ELSE TurnEnds(a) /\ UNCHANGED <<cache, age, unseen>>
    /\ UNCHANGED <<session, server, late, own, markers, nudged, disturbed>>

(* The marker goes only after the account has been found unchanged again.  *)
(* Every activity that waited records the success, under the identity it   *)
(* began with.                                                             *)
Recorded(by) ==
    [b \in Accounts |-> IF \E s \in by : flows[s].id = b THEN "fresh" ELSE age[b]]

SyncClears(a) ==
    /\ At(a, "sync", "published")
    /\ IF Holds(a)
       THEN markers' = ClearedMarkers(a) /\ age' = Recorded(Head(lanes[a]).by)
       ELSE UNCHANGED <<markers, age>>
    /\ TurnEnds(a)
    /\ UNCHANGED <<session, network, cache, nudged, disturbed>>

(* A user's change of the vault enters the lane.                           *)
Write(a) ==
    /\ a = account /\ unlocked /\ a \notin suspended
    /\ Len(lanes[a]) < MaxQueued
    /\ lanes' = [lanes EXCEPT ![a] = Append(@, WriteJob)]
    /\ UNCHANGED <<session, network, cache, markers, age, flows, nudged,
                   suspended, disturbed>>

(* Before the request: a dirty account refuses the write and asks for a    *)
(* sync, a marker that finds no room refuses it.                           *)
WriteStarts(a) ==
    /\ At(a, "write", "queued")
    /\ IF ~Holds(a) THEN TurnEnds(a) /\ UNCHANGED <<markers, nudged>>
       ELSE IF markers[a] = "dirty"
       THEN TurnEnds(a) /\ nudged' = TRUE /\ UNCHANGED markers
       ELSE IF MarkedStores(a) = {}
       THEN TurnEnds(a) /\ UNCHANGED <<markers, nudged>>
       ELSE TurnGoes(a, "marked") /\ markers' \in MarkedStores(a) /\ UNCHANGED nudged
    /\ UNCHANGED <<session, network, cache, age, disturbed>>

WriteSends(a) ==
    /\ At(a, "write", "marked")
    /\ IF MayWrite(a)
       THEN /\ TurnGoes(a, "sent") /\ UNCHANGED markers
            /\ own' = [own EXCEPT ![a] = server[a]] /\ unseen' = unseen \cup {a}
       ELSE TurnEnds(a) /\ markers' = ClearedMarkers(a) /\ UNCHANGED <<own, unseen>>
    /\ UNCHANGED <<session, server, late, cache, age, nudged, disturbed>>

\* The changes the server has applied, of all accounts.
Changes == {p \in Accounts \X (1 .. MaxVersion) : p[2] <= server[p[1]]}

Applied(a) ==
    /\ Cardinality(Changes) < MaxVersion
    /\ server' = [server EXCEPT ![a] = @ + 1]

WriteApplies(a) ==
    /\ At(a, "write", "sent")
    /\ Applied(a) /\ own' = [own EXCEPT ![a] = server'[a]]
    /\ TurnGoes(a, "applied")
    /\ UNCHANGED <<session, late, unseen, cache, markers, age, nudged, disturbed>>

\* The server refuses the write: it is known not to be committed.
WriteRefused(a) ==
    /\ At(a, "write", "sent")
    /\ TurnEnds(a) /\ markers' = ClearedMarkers(a)
    /\ unseen' = unseen \ {a}
    /\ UNCHANGED <<session, server, late, own, cache, age, nudged, disturbed>>

\* mutant of WriteUnknown: every failure takes the marker back
WriteUnknownClean(a) ==
    /\ At(a, "write", "sent") \/ At(a, "write", "applied")
    /\ Disturb
    /\ late' = IF Head(lanes[a]).step = "sent" THEN late \cup {a} ELSE late
    /\ TurnEnds(a) /\ nudged' = TRUE /\ markers' = ClearedMarkers(a)
    /\ UNCHANGED <<session, server, own, unseen, cache, age>>

\* The answer is lost; the write has been applied, may yet be, or never is.
WriteUnknown(a) ==
    /\ At(a, "write", "sent") \/ At(a, "write", "applied")
    /\ Disturb
    /\ late' = IF Head(lanes[a]).step = "sent" THEN late \cup {a} ELSE late
    /\ TurnEnds(a) /\ nudged' = TRUE
    /\ UNCHANGED <<session, server, own, unseen, cache, markers, age>>

(* The reconciling sync of a write; failing it leaves a committed write    *)
(* that is not synced.                                                     *)
Unsynced(a) == TurnEnds(a) /\ nudged' = TRUE

WriteReconciles(a) ==
    /\ At(a, "write", "applied")
    /\ IF MayWrite(a) THEN TurnSees(a, "answered") /\ UNCHANGED nudged
       ELSE Unsynced(a)
    /\ UNCHANGED <<session, network, cache, markers, age, disturbed>>

ReconcileFails(a) ==
    /\ At(a, "write", "answered") \/ At(a, "write", "published")
    /\ Disturb /\ Unsynced(a)
    /\ UNCHANGED <<session, network, cache, markers, age>>

WritePublishes(a) ==
    /\ At(a, "write", "answered")
    /\ IF MayWrite(a)
       THEN TurnGoes(a, "published") /\ Published(a) /\ UNCHANGED nudged
       ELSE Unsynced(a) /\ UNCHANGED <<cache, age, unseen>>
    /\ UNCHANGED <<session, server, late, own, markers, disturbed>>

WriteClears(a) ==
    /\ At(a, "write", "published")
    /\ IF Holds(a)
       THEN TurnEnds(a) /\ markers' = ClearedMarkers(a) /\ UNCHANGED nudged
       ELSE Unsynced(a) /\ UNCHANGED markers
    /\ UNCHANGED <<session, network, cache, age, disturbed>>

TurnStep(a) ==
    \/ SyncStarts(a) \/ SyncAnswers(a) \/ SyncPublishes(a) \/ SyncClears(a)
    \/ WriteStarts(a) \/ WriteSends(a) \/ WriteReconciles(a)
    \/ WriteApplies(a) \/ WriteRefused(a)
    \/ WritePublishes(a) \/ WriteClears(a)

TurnFails(a) == SyncFails(a) \/ WriteUnknown(a) \/ ReconcileFails(a)

-----------------------------------------------------------------------------
(* The world.                                                              *)

\* Another device changes the account.
ChangedElsewhere(a) ==
    /\ Applied(a)
    /\ UNCHANGED <<session, late, own, unseen, cache, markers, age, flows, nudged,
                   lanes, suspended, disturbed>>

\* A write that no lane waits for any more reaches the server after all.
LandsLate(a) ==
    /\ a \in late /\ Applied(a)
    /\ late' = late \ {a}
    /\ UNCHANGED <<session, own, unseen, cache, markers, age, flows, nudged,
                   lanes, suspended, disturbed>>

TimePasses ==
    /\ \E a \in Accounts : age[a] = "fresh"
    /\ age' = [a \in Accounts |-> IF age[a] = "none" THEN "none" ELSE "stale"]
    /\ UNCHANGED <<session, network, cache, markers, flows, nudged,
                   lanes, suspended, disturbed>>

\* Set back, the clock makes every recorded success a fresh one.
ClockSetBack ==
    /\ Disturb
    /\ age' = [a \in Accounts |-> IF age[a] = "none" THEN "none" ELSE "fresh"]
    /\ UNCHANGED <<session, network, cache, markers, flows, nudged,
                   lanes, suspended>>

\* Queued work of the account is cancelled, the turn under way outlives it.
Left(a) == IF lanes[a] = <<>> \/ Head(lanes[a]).step = "queued" THEN <<>>
           ELSE <<[Head(lanes[a]) EXCEPT !.ok = FALSE, !.keys = FALSE]>>
\* mutant of Cancelled: who waits for the next entry is not told
CancelledBehind(a) ==
    UNION {lanes[a][k].by : k \in {n \in DOMAIN lanes[a] : n > 1}}

Cancelled(a) ==
    UNION {lanes[a][k].by : k \in {n \in DOMAIN lanes[a] :
                                      n > 1 \/ lanes[a][n].step = "queued"}}

(* The account is left for another one, or logged out.                     *)
Leave ==
    /\ account # None /\ Disturb
    /\ account' = None /\ unlocked' = FALSE
    /\ cache' = NoCache
    /\ lanes' = [lanes EXCEPT ![account] = Left(account)]
    /\ suspended' = IF Left(account) = <<>> THEN suspended ELSE suspended \cup {account}
    /\ flows' = Answered(Cancelled(account))
    /\ UNCHANGED <<network, markers, age, nudged>>

(* An account is entered: by login, or switched to and still locked.       *)
Login(s, a) ==
    /\ account = None /\ s # Timed /\ flows[s] = Idle
    /\ account' = a /\ unlocked' = TRUE
    /\ flows' = [flows EXCEPT ![s] = Flow("login", a)]
    /\ suspended' = suspended \ {a}
    /\ UNCHANGED <<network, cache, markers, age, nudged, lanes, disturbed>>

SwitchedTo(a) ==
    /\ account = None
    /\ account' = a
    /\ UNCHANGED <<unlocked, network, cache, markers, age, flows, nudged,
                   lanes, suspended, disturbed>>

Unlock(s) ==
    /\ account # None /\ ~unlocked /\ s # Timed /\ flows[s] = Idle
    /\ unlocked' = TRUE
    /\ flows' = [flows EXCEPT ![s] = Flow("unlock", account)]
    /\ suspended' = suspended \ {account}
    /\ UNCHANGED <<account, network, cache, markers, age, nudged, lanes, disturbed>>

\* A lock ends the leases that writes hold, not those of syncs.
Lock ==
    /\ unlocked /\ Disturb
    /\ unlocked' = FALSE
    /\ lanes' = [lanes EXCEPT ![account] =
                    [k \in DOMAIN @ |-> [@[k] EXCEPT !.keys = FALSE]]]
    /\ UNCHANGED <<account, network, cache, markers, age, flows, nudged, suspended>>

(* The worker stops and starts again: its lanes and activities are gone,   *)
(* a request it has sent is not.  The alarm outlives it.                   *)
Restart ==
    /\ Disturb
    /\ late' = late \cup {a \in Accounts : At(a, "write", "sent")}
    /\ lanes' = [a \in Accounts |-> <<>>] /\ suspended' = {}
    /\ nudged' = FALSE
    /\ flows' = [s \in Slots |-> IF s = Timed THEN Flow("startup", account) ELSE Idle]
    /\ UNCHANGED <<session, server, own, unseen, cache, markers, age>>

Next ==
    \/ AlarmFires \/ \E s \in Slots : UserAsks(s) \/ MutationAsks(s) \/ FlowStep(s)
    \/ \E a \in Accounts : \/ Write(a) \/ TurnStep(a) \/ TurnFails(a)
                           \/ ChangedElsewhere(a) \/ LandsLate(a)
                           \/ SwitchedTo(a)
    \/ \E s \in Slots, a \in Accounts : Login(s, a)
    \/ \E s \in Slots : Unlock(s)
    \/ TimePasses \/ Lock \/ Leave \/ ClockSetBack \/ Restart

(* Promises settle, requests are answered or time out, time passes and the *)
(* browser fires the periodic alarm.                                       *)
Fairness ==
    /\ \A s \in Slots : WF_vars(FlowStep(s))
    /\ \A a \in Accounts : WF_vars(TurnStep(a))
    /\ WF_vars(TimePasses) /\ WF_vars(AlarmFires)

Spec == Init /\ [][Next]_vars /\ Fairness

-----------------------------------------------------------------------------
(* Properties.                                                             *)

FlowRec ==
    [entry : {"alarm", "startup", "login", "unlock", "popup", "manual", "notification",
              "force", "coalesce"},
     at : {"identify", "rebuild", "rebuilt", "dirty", "settle", "age", "confirm",
           "waiting"},
     id : Accounts \cup {None}, ctx : Accounts \cup {None}, dirty : BOOLEAN,
     on : Accounts \cup {None}, asked : 0 .. MaxVersion]

FlowType == {Idle} \cup FlowRec

JobType ==
    [kind : {"sync", "write"}, policy : {"force", "coalesce"},
     step : {"queued", "asked", "marked", "sent", "applied", "answered", "published"},
     ok : BOOLEAN, keys : BOOLEAN, seen : 0 .. MaxVersion, by : SUBSET Slots]

\* The entries that will answer an activity.
EntriesOf(s) ==
    UNION {{<<a, k>> : k \in {n \in DOMAIN lanes[a] : s \in lanes[a][n].by}} : a \in Accounts}

\* Types; an activity waits exactly for the one entry that will answer it.
TypeOK ==
    /\ account \in Accounts \cup {None} /\ unlocked \in BOOLEAN
    /\ unlocked => account # None
    /\ server \in [Accounts -> 0 .. MaxVersion] /\ late \subseteq Accounts
    /\ own \in [Accounts -> 0 .. MaxVersion] /\ unseen \subseteq Accounts
    /\ cache \in [owner : Accounts \cup {None}, version : 0 .. MaxVersion]
    /\ markers \in [Accounts -> {"absent", "clean", "dirty"}]
    /\ Cardinality(Tracked) <= MaxMarkers
    /\ age \in [Accounts -> Ages] /\ nudged \in BOOLEAN
    /\ \A s \in Slots : flows[s] \in FlowType
    /\ \A a \in Accounts : \A k \in DOMAIN lanes[a] : lanes[a][k] \in JobType
    /\ \A s \in Slots :
          Cardinality(EntriesOf(s)) = (IF flows[s].at = "waiting" THEN 1 ELSE 0)
    /\ suspended \subseteq {a \in Accounts : lanes[a] # <<>>}
    /\ disturbed \in 0 .. MaxDisturbances

(* From the moment a lane sends a change until a copy is published that    *)
(* the server sent after that moment (and, while the lane waits for it,    *)
(* after the change), or the server has refused the change, the durable    *)
(* marker says that the copy may miss it: whatever the marker store        *)
(* evicted to make room for other accounts, whichever sync or              *)
(* reconciliation published, and however the worker stopped (markDirty,    *)
(* clearDirty, executeMutation, requestSync).  A change whose lane has     *)
(* given it up and that lands only after that copy was sent is not         *)
(* covered: no marker says so, and CacheCatchesUp is what is left.         *)
UnseenIsMarked == \A a \in unseen : markers[a] = "dirty"

(* The raw cache never holds the vault of an account that is not active: a *)
(* turn that outlives its account publishes nothing (syncInLane and        *)
(* syncAfterMutation assert the account under the cache lock).             *)
CacheIsTheAccounts == cache.owner \in {None, account}

(* A sync requested by force answers with a copy as new as the server was  *)
(* when it was requested: it joins no response that is already on its way  *)
(* (requestSync, policy force: startup, login, manual, mutation).          *)
ForcedIsFresh ==
    [][\A s \in Slots :
          \A a \in Accounts :
             flows[s].entry = "force" /\ SyncClears(a) /\ Holds(a) /\ s \in Head(lanes[a]).by
          => cache'.owner = flows[s].on /\ cache'.version >= flows[s].asked]_vars

InStep == account # None => /\ cache = [owner |-> account, version |-> server[account]]
                            /\ markers[account] # "dirty"

(* The copy of the active account catches up with the server again and     *)
(* again, and the account is open to writes then: with changes of other    *)
(* devices that no notification announces, and with writes of this one     *)
(* that land after their lane has given them up (handleAlarm,              *)
(* requestIfDirtyOrStale, isStale, mutation).                              *)
CacheCatchesUp == []<>InStep
=============================================================================
