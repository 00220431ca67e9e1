------------------------- MODULE SessionTransitions -------------------------
(***************************************************************************)
(* Session transitions of one extension worker: the serialized queue of    *)
(* AuthService.runSessionTransition (core/session/auth-service.ts), the    *)
(* session fence (background/session-gate.ts), the account fence           *)
(* (core/session/account-gate.ts) with the lifecycle that drives it        *)
(* (background/account-transition.ts), the durable marker of an account    *)
(* key rotation (core/session/rotation-pending-store.ts), and the worker's *)
(* startup (background/index.ts).                                          *)
(*                                                                         *)
(* A step is one synchronous run of the worker, from one await to the      *)
(* next; a write to extension storage is a step of its own and each may    *)
(* be refused.  Leases carry ghost fields that record whether the identity *)
(* or the unlocked session they stand for has changed in storage since.    *)
(***************************************************************************)
EXTENDS Naturals, Sequences, FiniteSets

CONSTANTS
    Accounts, Servers,
    Clients,          \* operations that capture leases
    NoAccount, NoServer,
    Reasons,          \* bound: the transition reasons used in one behaviour
    MaxTransitions,   \* bound: transitions started in one behaviour
    MaxRestarts       \* bound: restarts of the extension worker

ASSUME NoneAssumption == NoAccount \notin Accounts /\ NoServer \notin Servers

ASSUME BoundAssumption ==
    /\ Reasons \subseteq {"login", "unlock", "lock", "switchAccount", "logout",
                          "removeAccount", "serverChange", "keyRotation"}
    /\ MaxTransitions \in Nat /\ MaxRestarts \in Nat

VARIABLES
    stored,      \* extension storage: server, registry, active account, UserKey
    pending,     \* the durable rotation marker is present
    queue,       \* the transitions of runSessionTransition that have not ended
    stage,       \* how far the head of the queue has come
    starting,    \* transitions whose serialized start hook has not returned
    ids,         \* transitionSequence
    activation,  \* the current activation attempt (login or unlock)
    blocked,     \* terminalSessionBlocked
    session,     \* SessionGate
    account,     \* AccountLeaseGate
    lifecycle,   \* AccountTransitionCoordinator.active and its gate token
    rotation,    \* a key rotation that has not committed its terminal barrier
    leases,      \* what each client captured
    boot,        \* securityReady
    restarts,
    rotated,     \* ghost: account whose key the server may have replaced
    partial      \* ghost: a failed activation left an unlocked session behind

storageVars == <<stored, leases, rotated>>
queueVars == <<queue, stage, starting, ids>>
gateVars == <<session, account, lifecycle>>
callerVars == <<activation, blocked, rotation>>
workerVars == <<boot, restarts>>
vars == <<storageVars, pending, queueVars, callerVars, gateVars, workerVars, partial>>

-----------------------------------------------------------------------------
(* transitionKind of account-transition.ts.                                *)
Kind(reason) ==
    IF reason = "serverChange" THEN "server"
    ELSE IF reason \in {"login", "switchAccount", "logout", "removeAccount", "keyRotation"}
         THEN "account"
    ELSE "none"

\* mutant of FailClosed: a failed unlock publishes what storage has
FailClosedLogin == {"login", "keyRotation"}

FailClosed == {"login", "unlock", "keyRotation"}

NoSnapshot == [server |-> NoServer, account |-> NoAccount]
NoStage == [at |-> "none", writes |-> 0, ok |-> FALSE, open |-> FALSE]
NoActivation == [reason |-> "none", target |-> NoAccount, id |-> 0]
NoLifecycle == [id |-> 0, kind |-> "none", terminal |-> FALSE,
                server |-> NoServer, serverGeneration |-> 0]
NoLease == [kind |-> "none", session |-> 0, serverGeneration |-> 0,
            accountGeneration |-> 0, server |-> NoServer, account |-> NoAccount,
            moved |-> FALSE, relocked |-> FALSE]

Targets == Accounts \cup {NoAccount}
Places == Servers \cup {NoServer}
Transitions == [id : Nat, reason : Reasons, target : Targets, server : Places]

TypeOK ==
    /\ stored \in [server : Places, accounts : SUBSET Accounts,
                   active : Targets, open : BOOLEAN]
    /\ stored.active \in stored.accounts \cup {NoAccount}
    /\ stored.open => stored.active # NoAccount
    /\ pending \in BOOLEAN /\ blocked \in BOOLEAN /\ partial \in BOOLEAN
    /\ queue \in Seq(Transitions) /\ starting \subseteq Transitions
    /\ stage \in [at : {"none", "starting", "acting", "validating", "undoing",
                        "failing", "settling", "publishing"},
                  writes : Nat, ok : BOOLEAN, open : BOOLEAN]
    /\ ids \in Nat /\ restarts \in Nat
    /\ activation \in [reason : {"none", "login", "unlock"}, target : Targets, id : Nat]
    /\ session \in [generation : Nat, latest : Nat, terminal : Nat,
                    state : {"unknown", "transitioning", "unlocked", "closed"}]
    /\ account \in [serverGeneration : Nat, accountGeneration : Nat,
                    snapshot : [server : Places, account : Targets]]
    /\ lifecycle \in [id : Nat, kind : {"none", "account", "server"},
                      terminal : BOOLEAN, server : Places, serverGeneration : Nat]
    /\ rotation \in [at : {"idle", "checked", "marked", "undoing"},
                     client : Clients \cup {NoAccount}]
    /\ leases \in [Clients -> [kind : {"none", "account", "session"}, session : Nat,
                     serverGeneration : Nat, accountGeneration : Nat, server : Places,
                     account : Targets, moved : BOOLEAN, relocked : BOOLEAN]]
    /\ boot \in {"recovering", "failed", "ready"}
    /\ rotated \in Targets

(* readCurrent: the server and account that storage names.                 *)
Current ==
    IF stored.server = NoServer THEN NoSnapshot
    ELSE [server |-> stored.server, account |-> stored.active]

(* The memory of a worker that has just started.                           *)
NoRotation == [at |-> "idle", client |-> NoAccount]
NewSession == [generation |-> 0, latest |-> 0, terminal |-> 0, state |-> "unknown"]
NewAccount == [serverGeneration |-> 0, accountGeneration |-> 0, snapshot |-> NoSnapshot]
NoLeases == [c \in Clients |-> NoLease]

Init ==
    /\ \E s \in Places, as \in SUBSET Accounts, a \in Targets, o \in BOOLEAN :
         /\ s = NoServer => as = {}
         /\ IF as = {} THEN a = NoAccount ELSE a \in as
         /\ o => a # NoAccount
         /\ stored = [server |-> s, accounts |-> as, active |-> a, open |-> o]
    /\ pending = FALSE /\ ids = 0 /\ restarts = 0
    /\ rotated = NoAccount /\ partial = FALSE
    /\ queue = <<>> /\ stage = NoStage /\ starting = {}
    /\ activation = NoActivation /\ blocked = FALSE /\ rotation = NoRotation
    /\ session = NewSession /\ account = NewAccount /\ lifecycle = NoLifecycle
    /\ leases = NoLeases /\ boot = "recovering"

-----------------------------------------------------------------------------
(* Storage.  StoredBecomes is one write; it also moves the ghosts.         *)

SameIdentity(s) == s.server = stored.server /\ s.active = stored.active

StoredBecomes(s) ==
    /\ stored' = s
    /\ leases' = [c \in Clients |->
                    IF leases[c].kind = "none" THEN NoLease
                    ELSE [leases[c] EXCEPT
                            !.moved = @ \/ ~SameIdentity(s),
                            !.relocked = @ \/ ~s.open \/ ~SameIdentity(s)]]

Forgotten(s) == IF rotated \in s.accounts THEN rotated ELSE NoAccount

Write(s) == StoredBecomes(s) /\ rotated' = Forgotten(s)

Locked == [stored EXCEPT !.open = FALSE]
LoggedOut == [stored EXCEPT !.open = FALSE, !.active = NoAccount]
Reset == [LoggedOut EXCEPT !.accounts = {}]

(* mutant of WithoutAccount: the removed account may stay the active one.  *)
WithoutAccountKept(a) ==
    {[stored EXCEPT !.accounts = @ \ {a}, !.active = b, !.open = FALSE] :
       b \in stored.accounts}

(* What storage may name once account a is removed: a remaining account.   *)
WithoutAccount(a) ==
    LET rest == stored.accounts \ {a} IN
    {[stored EXCEPT !.accounts = rest, !.active = b, !.open = FALSE] :
       b \in IF rest = {} THEN {NoAccount} ELSE rest}

(* The next storage write of a transition's action, n writes on: the set   *)
(* of what it may leave behind, empty when the action throws or is over.   *)
NextWrites(e, n) ==
    CASE e.reason = "lock" -> IF n = 0 THEN {Locked} ELSE {}
      [] e.reason \in {"login", "unlock"} ->
           IF n = 0 /\ (e.reason = "unlock" => e.target \in stored.accounts)
           THEN {[stored EXCEPT !.accounts = @ \cup {e.target},
                                !.active = e.target, !.open = FALSE]}
           ELSE IF n = 1 THEN {[stored EXCEPT !.open = TRUE]} ELSE {}
      [] e.reason = "switchAccount" ->
           IF n = 0 /\ e.target \in stored.accounts THEN {Locked}
           ELSE IF n = 1 THEN {[stored EXCEPT !.active = e.target]} ELSE {}
      [] e.reason = "logout" ->
           IF n = 0 THEN {Locked}
           ELSE IF n = 1 THEN WithoutAccount(stored.active) ELSE {}
      [] e.reason = "removeAccount" ->
           IF stored.active = e.target
           THEN IF n = 0 THEN {Locked} ELSE WithoutAccount(e.target)
           ELSE IF n > 0 THEN {}
           ELSE IF stored.active = NoAccount THEN WithoutAccount(e.target)
           ELSE {[stored EXCEPT !.accounts = @ \ {e.target}]}
      [] e.reason = "serverChange" ->
           IF n = 0 THEN {LoggedOut} ELSE IF n = 1 THEN {Reset}
           ELSE IF n = 2 THEN {[stored EXCEPT !.server = e.server]} ELSE {}
      [] e.reason = "keyRotation" ->
           IF n = 1 THEN {LoggedOut} ELSE IF n = 2 THEN {Reset} ELSE {}

(* Whether the action may resolve after n writes.                          *)
Complete(e, n) ==
    \/ e.reason = "login" /\ n \in {1, 2}        \* a login may leave it locked
    \/ e.reason \in {"unlock", "logout"} /\ n = 2
    \/ e.reason = "lock" /\ n = 1
    \/ e.reason = "switchAccount" /\ (n = 2 \/ (n = 0 /\ stored.active = e.target))
    \/ e.reason = "removeAccount" /\ n > 0 /\ stored.active # e.target
    \/ e.reason = "serverChange" /\ n = 3
    \/ e.reason = "keyRotation" /\ n = 3 /\ ~pending

-----------------------------------------------------------------------------
(* The two fences.                                                         *)

(* mutant of Fenced: the generation only moves when the state does.        *)
FencedSameGeneration(s, e) ==
    IF s.terminal # 0 \/ e.id <= s.latest THEN s
    ELSE [generation |-> s.generation, latest |-> e.id, state |-> "transitioning",
          terminal |-> IF e.reason = "keyRotation" THEN e.id ELSE 0]

(* SessionGate.handleTransition, phase "start".                            *)
Fenced(s, e) ==
    IF s.terminal # 0 \/ e.id <= s.latest THEN s
    ELSE [generation |-> s.generation + 1, latest |-> e.id, state |-> "transitioning",
          terminal |-> IF e.reason = "keyRotation" THEN e.id ELSE 0]

(* mutant of Accepts: the settlement of a superseded transition counts.    *)
AcceptsSuperseded(s, e, ok) ==
    IF s.terminal # 0 THEN e.id = s.terminal /\ ok
    ELSE e.reason \in FailClosed => ok

(* SessionGate.handleTransition, phase "settled".                          *)
Accepts(s, e, ok) ==
    IF s.terminal # 0 THEN e.id = s.terminal /\ ok
    ELSE e.id = s.latest /\ (e.reason \in FailClosed => ok)

Published(s, e, ok, open) ==
    IF Accepts(s, e, ok)
    THEN [s EXCEPT !.state = IF open THEN "unlocked" ELSE "closed", !.terminal = 0]
    ELSE s

(* SessionGate.assert and AccountLeaseGate.assert of a lease.              *)
SessionAsserts(c) ==
    /\ leases[c].kind = "session"
    /\ session.state = "unlocked" /\ session.generation = leases[c].session

GateOpen == lifecycle.kind = "none" /\ account.snapshot # NoSnapshot

AccountAsserts(c) ==
    /\ leases[c].kind # "none"
    /\ GateOpen
    /\ account.serverGeneration = leases[c].serverGeneration
    /\ account.accountGeneration = leases[c].accountGeneration
    /\ account.snapshot = [server |-> leases[c].server, account |-> leases[c].account]

(* AccountLeaseGate.capture, with SessionGate.capture for a session lease. *)
Capture(c, kind) ==
    /\ boot = "ready" /\ ~AccountAsserts(c)
    /\ GateOpen /\ account.snapshot.account # NoAccount
    /\ kind = "session" => session.state = "unlocked"
    /\ leases' = [leases EXCEPT ![c] =
         [kind |-> kind, session |-> session.generation,
          serverGeneration |-> account.serverGeneration,
          accountGeneration |-> account.accountGeneration,
          server |-> account.snapshot.server, account |-> account.snapshot.account,
          moved |-> FALSE, relocked |-> FALSE]]
    /\ UNCHANGED <<stored, rotated, pending, queueVars, callerVars, gateVars,
                   workerVars, partial>>

-----------------------------------------------------------------------------
(* runSessionTransition.                                                   *)

(* The synchronous part of the call: the session fence closes, and an idle *)
(* queue starts the transition at once.                                    *)
Begun(e) ==
    /\ stage' = [NoStage EXCEPT !.at = "starting"]
    /\ starting' = starting \cup {e}

RunTransition(e) ==
    /\ ids < MaxTransitions /\ e.id = ids + 1 /\ e.reason \in Reasons
    /\ ids' = e.id
    /\ session' = Fenced(session, e)
    /\ queue' = Append(queue, e)
    /\ IF queue = <<>> THEN Begun(e) ELSE UNCHANGED <<stage, starting>>
    /\ UNCHANGED <<account, lifecycle>>

NewTransition(reason, target, server) ==
    [id |-> ids + 1, reason |-> reason, target |-> target, server |-> server]

(* login and unlock first begin an activation attempt, which needs an open *)
(* account gate; the unlock reads the account it will unlock from storage. *)
BeginAttempt(reason, target) ==
    /\ boot = "ready" /\ reason \in Reasons
    /\ GateOpen
    /\ IF reason = "unlock" THEN target = stored.active /\ target # NoAccount
                            ELSE target \in Accounts
    /\ activation' = [reason |-> reason, target |-> target, id |-> 0]
    /\ UNCHANGED <<storageVars, pending, queueVars, blocked, rotation, gateVars,
                   workerVars, partial>>

(* mutant of Activate: the terminal block is not consulted.                *)
ActivateUnblocked ==
    /\ activation.reason # "none" /\ activation.id = 0
    /\ RunTransition(NewTransition(activation.reason, activation.target, NoServer))
    /\ activation' = [activation EXCEPT !.id = ids + 1]
    /\ UNCHANGED <<storageVars, pending, blocked, rotation, workerVars, partial>>

(* ... and start the transition while the attempt is the current one.      *)
Activate ==
    /\ activation.reason # "none" /\ activation.id = 0 /\ ~blocked
    /\ RunTransition(NewTransition(activation.reason, activation.target, NoServer))
    /\ activation' = [activation EXCEPT !.id = ids + 1]
    /\ UNCHANGED <<storageVars, pending, blocked, rotation, workerVars, partial>>

(* lock, switchAccount, logout, removeAccount and resetForServerChange     *)
(* cancel the attempt; the removal after a rejected refresh does not.      *)
Request(reason, target, server) ==
    /\ boot = "ready" /\ ~blocked
    /\ reason \notin {"login", "unlock", "keyRotation"}
    /\ reason \in {"switchAccount", "removeAccount"} <=> target # NoAccount
    /\ reason = "serverChange" <=> server # NoServer
    /\ RunTransition(NewTransition(reason, target, server))
    /\ \/ activation' = NoActivation
       \/ reason = "removeAccount" /\ UNCHANGED activation
    /\ UNCHANGED <<storageVars, pending, blocked, rotation, workerVars, partial>>

HeadIs(e) == queue # <<>> /\ Head(queue) = e

(* The next queued transition starts once the previous one has ended.      *)
BeginNext ==
    /\ stage.at = "none" /\ queue # <<>>
    /\ Begun(Head(queue))
    /\ UNCHANGED <<storageVars, pending, queue, ids, callerVars, gateVars,
                   workerVars, partial>>

(* mutant of Recovered: an abandoned lifecycle keeps its old snapshot.     *)
RecoveredStale == account.snapshot

(* The serialized start hook of e, after its asynchronous clears: recover  *)
(* an abandoned lifecycle from storage, then close the account gate.       *)
Recovered == IF lifecycle.kind = "none" THEN account.snapshot ELSE Current

Recoverable(e) == lifecycle.kind # "none" => ~lifecycle.terminal /\ e.id > lifecycle.id

Lifecycle(e) ==
    IF Kind(e.reason) = "none" THEN NoLifecycle
    ELSE [id |-> e.id, kind |-> Kind(e.reason), terminal |-> e.reason = "keyRotation",
          server |-> Recovered.server,
          serverGeneration |-> account.serverGeneration]

(* mutant of AccountBegun: an account transition keeps the generation.     *)
AccountBegunSameGeneration(e) ==
    [serverGeneration |-> account.serverGeneration
                          + (IF Kind(e.reason) = "server" THEN 1 ELSE 0),
     accountGeneration |-> account.accountGeneration,
     snapshot |-> Recovered]

(* beginAccountTransition and beginServerTransition.                       *)
AccountBegun(e) ==
    [serverGeneration |-> account.serverGeneration
                          + (IF Kind(e.reason) = "server" THEN 1 ELSE 0),
     accountGeneration |-> account.accountGeneration
                           + (IF Kind(e.reason) = "account" THEN 1 ELSE 0),
     snapshot |-> Recovered]

LifecycleStarts(e) ==
    /\ e \in starting /\ Recoverable(e)
    /\ Kind(e.reason) = "account" => Recovered # NoSnapshot
    /\ starting' = starting \ {e}
    /\ stage' = IF HeadIs(e) /\ stage.at = "starting"
                THEN [stage EXCEPT !.at = "acting"] ELSE stage
    /\ account' = AccountBegun(e)
    /\ lifecycle' = Lifecycle(e)
    /\ UNCHANGED <<storageVars, pending, queue, ids, callerVars, session,
                   workerVars, partial>>

(* The hook throws: the logout intent could not be stored, the abandoned   *)
(* lifecycle cannot be recovered, or no server is configured.              *)
LifecycleStartFails(e) ==
    /\ e \in starting
    /\ \/ /\ e.reason = "logout" \/ lifecycle.kind # "none"
          /\ UNCHANGED <<account, lifecycle>>
       \/ /\ Recoverable(e) /\ Kind(e.reason) = "account" /\ Recovered = NoSnapshot
          /\ account' = [account EXCEPT !.snapshot = NoSnapshot]
          /\ lifecycle' = NoLifecycle
    /\ starting' = starting \ {e}
    /\ stage' = IF HeadIs(e) /\ stage.at = "starting"
                THEN [stage EXCEPT !.at = "failing"] ELSE stage
    /\ UNCHANGED <<storageVars, pending, queue, ids, callerVars, session,
                   workerVars, partial>>

(* The immediate start hook rejects: Promise.all no longer waits for the   *)
(* serialized hook, which still runs on.                                   *)
ImmediateStartFails ==
    /\ stage.at = "starting"
    /\ stage' = [stage EXCEPT !.at = "failing"]
    /\ UNCHANGED <<storageVars, pending, queue, starting, ids, callerVars,
                   gateVars, workerVars, partial>>

-----------------------------------------------------------------------------
(* The action of the head of the queue.                                    *)

IsActivation(e) == e.reason \in {"login", "unlock"}
AttemptCurrent(e) == IsActivation(e) => activation.id = e.id

(* One storage write of the action; an activation checks its attempt first *)
(* and publishes through commitUnlockedLogin.                              *)
ActionWrites ==
    /\ stage.at = "acting"
    /\ stage.writes = 0 => AttemptCurrent(Head(queue))
    /\ \E s \in NextWrites(Head(queue), stage.writes) : Write(s)
    /\ stage' = [stage EXCEPT !.writes = @ + 1]
    /\ UNCHANGED <<pending, queue, starting, ids, callerVars, gateVars, workerVars, partial>>

(* The rotation request leaves: whatever its answer, the server may have   *)
(* replaced the key of the account.                                        *)
RotationPosts ==
    /\ stage.at = "acting" /\ stage.writes = 0
    /\ Head(queue).reason = "keyRotation"
    /\ \E a \in {rotated, Head(queue).target} : rotated' = a
    /\ stage' = [stage EXCEPT !.writes = 1]
    /\ UNCHANGED <<stored, leases, pending, queue, starting, ids, callerVars,
                   gateVars, workerVars, partial>>

(* cleanupAfterAccountKeyRotation clears the marker last.                  *)
MarkerCleared ==
    /\ stage.at = "acting" /\ stage.writes = 3
    /\ Head(queue).reason = "keyRotation" /\ pending
    /\ pending' = FALSE
    /\ UNCHANGED <<storageVars, queueVars, callerVars, gateVars, workerVars, partial>>

ActionReturns ==
    /\ stage.at = "acting" /\ Complete(Head(queue), stage.writes)
    /\ stage' = [stage EXCEPT !.at = IF IsActivation(Head(queue)) THEN "validating"
                                     ELSE "settling",
                              !.ok = TRUE]
    /\ UNCHANGED <<storageVars, pending, queue, starting, ids, callerVars,
                   gateVars, workerVars, partial>>

(* A write is refused, or the attempt is no longer the current one.        *)
ActionFails ==
    /\ stage.at = "acting"
    /\ ~(Head(queue).reason = "keyRotation" /\ stage.writes = 0)
    /\ stage' = [stage EXCEPT !.at = IF IsActivation(Head(queue)) /\ stage.writes > 0
                                     THEN "undoing" ELSE "failing"]
    /\ UNCHANGED <<storageVars, pending, queue, starting, ids, callerVars,
                   gateVars, workerVars, partial>>

(* An activation validates what it published and rolls it back if it was   *)
(* superseded; the rollback locks, else resets every account, else leaves  *)
(* the session as it is.                                                   *)
ActivationValidated(ok) ==
    /\ stage.at = "validating"
    /\ ok => AttemptCurrent(Head(queue))
    /\ stage' = [stage EXCEPT !.at = IF ok THEN "settling" ELSE "undoing"]
    /\ UNCHANGED <<storageVars, pending, queue, starting, ids, callerVars,
                   gateVars, workerVars, partial>>

ActivationUndone ==
    /\ stage.at = "undoing"
    /\ \E s \in {stored, Locked, LoggedOut, Reset} :
         Write(s) /\ partial' = (partial \/ s.open)
    /\ stage' = [stage EXCEPT !.at = "failing"]
    /\ UNCHANGED <<pending, queue, starting, ids, callerVars, gateVars, workerVars>>

(* A transition ends: its entry leaves the queue.                          *)
Ended == queue' = Tail(queue) /\ stage' = NoStage /\ UNCHANGED <<starting, ids>>

(* mutant of FailureSettles: a failed key rotation waits for a restart.    *)
FailureSettlesWaiting ==
    /\ stage.at = "failing"
    /\ Head(queue).reason # "keyRotation"
    /\ stage' = [stage EXCEPT !.at = "settling", !.ok = FALSE]
    /\ UNCHANGED <<queue, starting, ids>>
    /\ UNCHANGED <<storageVars, pending, callerVars, gateVars, workerVars, partial>>

(* A failed transition settles too, except a key rotation, which stays     *)
(* blocked until the worker restarts.                                      *)
FailureSettles ==
    /\ stage.at = "failing"
    /\ IF Head(queue).reason = "keyRotation"
       THEN Ended
       ELSE /\ stage' = [stage EXCEPT !.at = "settling", !.ok = FALSE]
            /\ UNCHANGED <<queue, starting, ids>>
    /\ UNCHANGED <<storageVars, pending, callerVars, gateVars, workerVars, partial>>

(* notifyTransitionSettled reads the session state, then the account       *)
(* lifecycle publishes what storage names, read anew.                      *)
InOrder(e) ==
    /\ lifecycle.id = e.id /\ lifecycle.kind = Kind(e.reason)
    /\ lifecycle.terminal => stage.ok

SameServer ==
    lifecycle.kind = "account" =>
      Current.server = lifecycle.server
      /\ account.serverGeneration = lifecycle.serverGeneration

LifecycleSettles ==
    /\ stage.at = "settling"
    /\ \/ /\ Kind(Head(queue).reason) = "none"
          /\ stage' = [stage EXCEPT !.at = "publishing", !.open = stored.open]
          /\ UNCHANGED <<queue, starting, ids, account, lifecycle>>
       \/ /\ InOrder(Head(queue)) /\ Current # NoSnapshot /\ SameServer
          /\ account' = [account EXCEPT !.snapshot = Current]
          /\ lifecycle' = NoLifecycle
          /\ stage' = [stage EXCEPT !.at = "publishing", !.open = stored.open]
          /\ UNCHANGED <<queue, starting, ids>>
       \/ /\ InOrder(Head(queue)) /\ Current = NoSnapshot
          /\ account' = [account EXCEPT !.snapshot = NoSnapshot]
          /\ lifecycle' = NoLifecycle
          /\ IF lifecycle.kind = "server"
             THEN /\ stage' = [stage EXCEPT !.at = "publishing", !.open = stored.open]
                  /\ UNCHANGED <<queue, starting, ids>>
             ELSE Ended
    /\ UNCHANGED <<storageVars, pending, callerVars, session, workerVars, partial>>

(* The settled hook throws before or after the account gate settled (state *)
(* read, client events, clipboard, order, vault timeout): the session      *)
(* fence never hears of the settlement and stays closed.                   *)
SettlementFails ==
    /\ stage.at \in {"settling", "publishing"}
    /\ Ended
    /\ UNCHANGED <<storageVars, pending, callerVars, gateVars, workerVars, partial>>

SettlementPublished ==
    /\ stage.at = "publishing"
    /\ LET e == Head(queue) IN
       /\ session' = Published(session, e, stage.ok, stage.open)
       /\ blocked' = IF e.reason = "keyRotation" THEN FALSE ELSE blocked
       /\ partial' = (partial /\ ~stage.ok)
    /\ Ended
    /\ UNCHANGED <<storageVars, pending, activation, rotation, account, lifecycle, workerVars>>

-----------------------------------------------------------------------------
(* commitAccountKeyRotation, up to its transition.                         *)

LeasesAssert(c) == SessionAsserts(c) /\ AccountAsserts(c)

RotationStarts(c) ==
    /\ "keyRotation" \in Reasons
    /\ rotation.at = "idle" /\ queue = <<>> /\ LeasesAssert(c)
    /\ rotation' = [at |-> "checked", client |-> c]
    /\ UNCHANGED <<storageVars, pending, queueVars, activation, blocked, gateVars,
                   workerVars, partial>>

(* markBeforeRotation; a refused write may have landed all the same.       *)
RotationMarks ==
    /\ rotation.at = "checked" /\ ~pending
    /\ pending' = TRUE
    /\ rotation' = [rotation EXCEPT !.at = "marked"]
    /\ UNCHANGED <<storageVars, queueVars, activation, blocked, gateVars, workerVars, partial>>

RotationMarkFails ==
    /\ rotation.at = "checked"
    /\ \E p \in {pending, TRUE} : pending' = p
    /\ rotation' = NoRotation
    /\ UNCHANGED <<storageVars, queueVars, activation, blocked, gateVars, workerVars, partial>>

(* The last checks, the terminal barrier, the block and the transition     *)
(* start are one synchronous run.                                          *)
RotationCommits ==
    /\ rotation.at = "marked" /\ LeasesAssert(rotation.client)
    /\ RunTransition(NewTransition("keyRotation", leases[rotation.client].account, NoServer))
    /\ blocked' = TRUE
    /\ activation' = NoActivation
    /\ rotation' = NoRotation
    /\ UNCHANGED <<storageVars, pending, workerVars, partial>>

RotationWithdraws ==
    /\ rotation.at = "marked" /\ ~LeasesAssert(rotation.client)
    /\ rotation' = [rotation EXCEPT !.at = "undoing"]
    /\ UNCHANGED <<storageVars, pending, queueVars, activation, blocked, gateVars,
                   workerVars, partial>>

RotationUnmarked(ok) ==
    /\ rotation.at = "undoing"
    /\ pending' = (pending /\ ~ok)
    /\ rotation' = NoRotation
    /\ UNCHANGED <<storageVars, queueVars, activation, blocked, gateVars, workerVars, partial>>

-----------------------------------------------------------------------------
(* Startup: recoverPendingRotationOnStartup, recoverInvalidAccountRegistry *)
(* and the initialization of the gates.  Requests wait for all of it.      *)

Recovering == boot = "recovering"
(* mutant of NeedsReset: startup only looks at the account registry.       *)
NeedsResetUnmarked == stored.active = NoAccount /\ stored.accounts # {}

NeedsReset == pending \/ (stored.active = NoAccount /\ stored.accounts # {})

StartupResets ==
    /\ Recovering /\ NeedsReset
    /\ \/ stored.active # NoAccount /\ Write(LoggedOut)
       \/ stored.active = NoAccount /\ stored.accounts # {} /\ Write(Reset)
    /\ UNCHANGED <<pending, queueVars, callerVars, gateVars, workerVars, partial>>

StartupClearsMarker ==
    /\ Recovering /\ pending /\ stored.active = NoAccount /\ stored.accounts = {}
    /\ pending' = FALSE
    /\ UNCHANGED <<storageVars, queueVars, callerVars, gateVars, workerVars, partial>>

StartupFails ==
    /\ Recovering
    /\ boot' = "failed"
    /\ UNCHANGED <<storageVars, pending, queueVars, callerVars, gateVars, restarts, partial>>

StartupInitializes ==
    /\ Recovering /\ ~NeedsReset
    /\ account' = [account EXCEPT !.snapshot = Current]
    /\ session' = [session EXCEPT !.state = IF stored.open THEN "unlocked" ELSE "closed"]
    /\ boot' = "ready"
    /\ UNCHANGED <<storageVars, pending, queueVars, callerVars, lifecycle, restarts, partial>>

(* The browser stops the worker; the session area survives unless the      *)
(* whole browser was closed.                                               *)
Restart ==
    /\ restarts < MaxRestarts
    /\ restarts' = restarts + 1
    /\ queue' = <<>> /\ stage' = NoStage /\ starting' = {}
    /\ activation' = NoActivation /\ blocked' = FALSE /\ rotation' = NoRotation
    /\ session' = NewSession /\ account' = NewAccount /\ lifecycle' = NoLifecycle
    /\ leases' = NoLeases /\ boot' = "recovering"
    /\ \E o \in {stored.open, FALSE} : stored' = [stored EXCEPT !.open = o]
    /\ partial' = FALSE
    /\ UNCHANGED <<pending, ids, rotated>>

-----------------------------------------------------------------------------
Callers ==
    \/ \E c \in Clients, k \in {"account", "session"} : Capture(c, k)
    \/ \E r \in {"login", "unlock"}, a \in Accounts : BeginAttempt(r, a)
    \/ Activate
    \/ \E r \in Reasons, a \in Targets, s \in Places : Request(r, a, s)

Hooks ==
    \/ \E e \in starting : LifecycleStarts(e) \/ LifecycleStartFails(e)
    \/ ImmediateStartFails

Rotation ==
    \/ \E c \in Clients : RotationStarts(c)
    \/ RotationMarks \/ RotationMarkFails \/ RotationCommits \/ RotationWithdraws
    \/ \E ok \in BOOLEAN : RotationUnmarked(ok)

HeadStep ==
    \/ BeginNext
    \/ ActionWrites \/ RotationPosts \/ MarkerCleared \/ ActionReturns \/ ActionFails
    \/ \E ok \in BOOLEAN : ActivationValidated(ok)
    \/ ActivationUndone \/ FailureSettles
    \/ LifecycleSettles \/ SettlementFails \/ SettlementPublished

Startup == StartupResets \/ StartupClearsMarker \/ StartupFails \/ StartupInitializes

Next == Callers \/ Hooks \/ Rotation \/ HeadStep \/ Startup \/ Restart

Spec == Init /\ [][Next]_vars

(* Every promise the queue awaits settles; nobody has to make a request.   *)
FairSpec == Spec /\ WF_vars(Hooks) /\ WF_vars(HeadStep)

-----------------------------------------------------------------------------
(* Properties.                                                             *)

(* An account lease that asserts proves that storage has named the same    *)
(* server and account ever since it was captured, A-B-A included           *)
(* (AccountLeaseGate.capture, assert).  An unlock can break it: see below. *)
AccountLeasesFenced == \A c \in Clients : AccountAsserts(c) => ~leases[c].moved

(* A session lease that asserts proves that the session it was captured in *)
(* has stayed unlocked, under one account (SessionGate.capture, assert).   *)
SessionLeasesFenced == \A c \in Clients : SessionAsserts(c) => ~leases[c].relocked

(* The session fence is only open over an unlocked session, with no        *)
(* transition started that has not ended (SessionGate, runSessionTransition). *)
FenceFollowsQueue ==
    session.state = "unlocked" => stored.open /\ queue = <<>> /\ ~blocked

(* An open account gate hands out the identity that storage names, after   *)
(* failed, abandoned and recovered transitions (AccountTransitionCoordinator). *)
GateNamesStorage == boot = "ready" /\ GateOpen => account.snapshot = Current

(* The same while the vault is unlocked, which is when decrypted data and   *)
(* account leases are used together.  The code breaks it: an unlock that   *)
(* reads its account while a switchAccount is under way makes the old      *)
(* account active again behind the open gate (unlock, commitUnlockedLogin). *)
UnlockedNamesStorage ==
    session.state = "unlocked" /\ GateOpen => account.snapshot = Current

(* Credentials of an account whose key the server may have replaced are    *)
(* never usable again: until they are erased the marker is on disk and the *)
(* session fence is closed, across failures of every cleanup step and      *)
(* restarts (RotationPendingStore, cleanupAfterAccountKeyRotation).        *)
RotatedNeverReused ==
    rotated # NoAccount => pending /\ session.state # "unlocked"

(* While a committed key rotation is unresolved no credential is installed *)
(* and no session is unlocked (terminalSessionBlocked).                    *)
BlockedInstallsNothing ==
    [][blocked /\ blocked' => /\ stored'.accounts \subseteq stored.accounts
                              /\ stored'.open => stored.open]_vars

(* No transition wedges the queue, whatever hook or write fails.           *)
QueueDrains == []<>(queue = <<>>)

(* What a failed login or unlock left behind in storage is not authorized  *)
(* by its own settlement nor by that of another failed activation, however *)
(* late they settle (handleTransition, FAIL_CLOSED_FAILURE_REASONS).       *)
PartialNotActivated ==
    [][partial' /\ session'.state = "unlocked" /\ session.state # "unlocked"
       => Head(queue).reason \notin {"login", "unlock", "keyRotation"}]_vars

=============================================================================
