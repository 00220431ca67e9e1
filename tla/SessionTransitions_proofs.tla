---------------------- MODULE SessionTransitions_proofs ----------------------
(***************************************************************************)
(* The safety of the session transitions, for any accounts, servers,       *)
(* clients and reasons and any number of transitions and restarts.         *)
(***************************************************************************)
EXTENDS SessionTransitions, SequenceTheorems, TLAPS

-----------------------------------------------------------------------------
(* The inductive invariant.                                                *)

\* Transitions are queued in the order of their ids, and the session fence
\* has heard of the last one.
QueueInv ==
    /\ \A i, j \in 1 .. Len(queue) : i < j => queue[i].id < queue[j].id
    /\ \A i \in 1 .. Len(queue) :
          /\ queue[i].id > 0 /\ queue[i].id <= ids
          /\ IsActivation(queue[i]) => queue[i].target \in Accounts
    /\ queue # <<>> => queue[Len(queue)].id = session.latest
    /\ session.latest <= ids
    /\ activation.reason # "none" => activation.target \in Accounts

\* A start hook that is still running belongs to the head or to a
\* transition that ended before it.
HookInv ==
    /\ \A e \in starting : e.id <= ids
    /\ queue # <<>> =>
         \A e \in starting :
            /\ e.id <= Head(queue).id
            /\ e.id = Head(queue).id =>
                 /\ e = Head(queue)
                 /\ stage.at \notin {"none", "acting", "validating", "undoing"}

\* The stage is that of the head of the queue.
StageInv ==
    /\ stage.at = "none" => stage = NoStage
    /\ queue = <<>> => stage.at = "none"
    /\ stage.at = "starting" => stage.writes = 0
    /\ stage.at \in {"validating", "undoing"} => IsActivation(Head(queue))
    /\ stage.at = "publishing" => stage.open = stored.open

\* What the writes of a half-finished action have left behind.
WriteInv ==
    stage.at = "acting" /\ stage.writes = 1 =>
      /\ IsActivation(Head(queue)) => stored.active = Head(queue).target
      /\ Head(queue).reason = "switchAccount" => Head(queue).target \in stored.accounts

\* The session fence follows the queue, and a terminal fence, the block of
\* new transitions and the queued key rotation are one thing.
FenceInv ==
    /\ blocked <=> session.terminal # 0
    /\ blocked /\ queue # <<>> =>
         /\ Len(queue) = 1
         /\ Head(queue).reason = "keyRotation" /\ Head(queue).id = session.terminal
    /\ \A i \in 1 .. Len(queue) : queue[i].reason = "keyRotation" => blocked
    /\ FenceFollowsQueue

\* A session lease of another generation never asserts again.
SessionLeaseInv ==
    \A c \in Clients :
      /\ leases[c].kind = "session" =>
           /\ leases[c].session <= session.generation
           /\ session.state # "unlocked" => leases[c].session < session.generation
      /\ SessionAsserts(c) => ~leases[c].relocked

\* The key rotation from its first check to its marker's removal.
Rotating == queue # <<>> /\ Head(queue).reason = "keyRotation"

RotationInv ==
    /\ rotation.at # "idle" =>
         rotation.client \in Clients /\ ~blocked /\ rotated = NoAccount
    /\ rotation.at = "marked" => pending
    /\ Rotating =>
         /\ stage.at # "none"
         /\ stage.at \in {"starting", "acting"} /\ stage.writes = 0 =>
              pending /\ stored.active # NoAccount
         /\ stage.at = "acting" /\ stage.writes = 3 => stored.accounts = {}
         /\ stage.at \in {"settling", "publishing"} => stage.ok /\ ~pending
    /\ rotated # NoAccount =>
         /\ pending /\ session.state # "unlocked"
         /\ stored.accounts # {}
         /\ boot = "ready" => blocked

\* While an account or server transition writes, the account gate is closed
\* by its own lifecycle, which has outdated every account lease.
Stale(c) ==
    \/ leases[c].serverGeneration < account.serverGeneration
    \/ leases[c].accountGeneration < account.accountGeneration

LifecycleInv ==
    /\ stage.at \in {"acting", "validating", "undoing"} =>
         (Kind(Head(queue).reason) # "none" =>
            lifecycle.kind # "none" /\ lifecycle.id = Head(queue).id)
    /\ \A c \in Clients : leases[c].kind # "none" =>
         /\ leases[c].serverGeneration <= account.serverGeneration
         /\ leases[c].accountGeneration <= account.accountGeneration
         /\ lifecycle.kind # "none" => Stale(c)

\* Nothing runs before the worker's startup is over.
BootInv ==
    boot # "ready" =>
      /\ queue = <<>> /\ starting = {}
      /\ \A c \in Clients : leases[c].kind = "none"
      /\ session.state = "unknown" /\ lifecycle.kind = "none"
      /\ activation.reason = "none" /\ rotation.at = "idle"
      /\ ~blocked /\ ~partial

IInv ==
    /\ TypeOK /\ QueueInv /\ HookInv /\ StageInv /\ WriteInv /\ FenceInv
    /\ SessionLeaseInv /\ RotationInv /\ LifecycleInv /\ BootInv

\* Without unlocks only a closed account gate sees storage change accounts.
IdentityInv ==
    /\ \A c \in Clients : leases[c].kind # "none" /\ leases[c].moved => Stale(c)
    /\ GateNamesStorage

-----------------------------------------------------------------------------
(* Lemmas about the operators of the model.                                *)

\* A transition is of one kind, and only logins and unlocks are activations.
LEMMA KindsOfReasons ==
    /\ \A r : Kind(r) \in {"none", "account", "server"}
    /\ Kind("lock") = "none" /\ Kind("unlock") = "none"
    /\ Kind("serverChange") = "server"
    /\ \A r \in {"login", "switchAccount", "logout", "removeAccount", "keyRotation"} :
          Kind(r) = "account"
  BY DEF Kind

GoodStore(s) ==
    /\ s \in [server : Places, accounts : SUBSET Accounts, active : Targets, open : BOOLEAN]
    /\ s.active \in s.accounts \cup {NoAccount}
    /\ s.open => s.active # NoAccount

LeaseState ==
    [kind : {"none", "account", "session"}, session : Nat, serverGeneration : Nat,
     accountGeneration : Nat, server : Places, account : Targets, moved : BOOLEAN,
     relocked : BOOLEAN]

\* What a write does to a lease: its ghosts record the change.
LeaseSees(s, c) ==
    /\ leases'[c].session = leases[c].session
    /\ leases'[c].serverGeneration = leases[c].serverGeneration
    /\ leases'[c].accountGeneration = leases[c].accountGeneration
    /\ leases'[c].server = leases[c].server
    /\ leases'[c].account = leases[c].account
    /\ leases'[c].moved = (leases[c].moved \/ ~SameIdentity(s))
    /\ leases'[c].relocked = (leases[c].relocked \/ ~s.open \/ ~SameIdentity(s))

LEMMA NoLeaseType == NoLease \in LeaseState
  BY DEF NoLease, LeaseState, Places, Targets

LEMMA NoStageType == NoStage \in [at : {"none", "starting", "acting", "validating", "undoing",
                                        "failing", "settling", "publishing"},
                                  writes : Nat, ok : BOOLEAN, open : BOOLEAN]
  BY DEF NoStage

\* A write keeps the leases but for their ghosts, and forgets a replaced key
\* with its account.
LEMMA WriteEffect ==
    ASSUME TypeOK, NEW s, GoodStore(s), Write(s)
    PROVE  /\ stored' = s
           /\ leases' \in [Clients -> LeaseState]
           /\ \A c \in Clients : /\ leases'[c].kind = leases[c].kind
                                 /\ leases[c].kind # "none" => LeaseSees(s, c)
           /\ rotated' \in {rotated, NoAccount} /\ rotated' \in Targets
           /\ rotated' # NoAccount => rotated \in s.accounts
PROOF
  <1>1. leases \in [Clients -> LeaseState] /\ rotated \in Targets
    BY DEF TypeOK, LeaseState
  <1>2. ASSUME NEW c \in Clients
        PROVE  /\ leases'[c] \in LeaseState
               /\ leases'[c].kind = leases[c].kind
               /\ leases[c].kind # "none" => LeaseSees(s, c)
    <2> DEFINE l == leases[c]
    <2>1. l \in LeaseState
      BY <1>1
    <2>2. leases'[c] = IF l.kind = "none" THEN NoLease
                       ELSE [l EXCEPT !.moved = @ \/ ~SameIdentity(s),
                                      !.relocked = @ \/ ~s.open \/ ~SameIdentity(s)]
      BY DEF Write, StoredBecomes
    <2>3. CASE l.kind = "none"
      BY <2>1, <2>2, <2>3, NoLeaseType DEF NoLease
    <2>4. CASE l.kind # "none"
      <3> DEFINE m == l.moved \/ ~SameIdentity(s)
                 r == l.relocked \/ ~s.open \/ ~SameIdentity(s)
      <3>1. leases'[c] = [l EXCEPT !.moved = m, !.relocked = r]
        BY <2>2, <2>4
      <3>2. m \in BOOLEAN /\ r \in BOOLEAN
        BY <2>1 DEF LeaseState
      <3> HIDE DEF m, r
      <3>3. /\ leases'[c] \in LeaseState /\ leases'[c].kind = l.kind
            /\ leases'[c].session = l.session
            /\ leases'[c].serverGeneration = l.serverGeneration
            /\ leases'[c].accountGeneration = l.accountGeneration
            /\ leases'[c].server = l.server /\ leases'[c].account = l.account
            /\ leases'[c].moved = m /\ leases'[c].relocked = r
        BY <2>1, <3>1, <3>2 DEF LeaseState
      <3> QED
        BY <3>3 DEF LeaseSees, m, r
    <2> QED
      BY <2>3, <2>4
  <1>3. leases' \in [Clients -> LeaseState]
    <2>1. leases' = [c \in Clients |-> leases'[c]]
      BY DEF Write, StoredBecomes
    <2> QED
      BY <1>2, <2>1
  <1> QED
    BY <1>1, <1>2, <1>3 DEF Write, StoredBecomes, Forgotten, Targets

\* The head of the queue is one of its transitions.
LEMMA HeadFacts ==
    ASSUME TypeOK, queue # <<>>
    PROVE  /\ Len(queue) \in Nat /\ 1 \in 1 .. Len(queue) /\ Len(queue) > 0
           /\ Head(queue) = queue[1] /\ Head(queue) \in Transitions
           /\ Tail(queue) \in Seq(Transitions) /\ Len(Tail(queue)) = Len(queue) - 1
           /\ \A i \in 1 .. Len(Tail(queue)) : Tail(queue)[i] = queue[i + 1]
  BY DEF TypeOK

\* Every write an action may do next leaves storage in order.
LEMMA NextWritesGood ==
    ASSUME TypeOK, QueueInv, WriteInv, stage.at = "acting", queue # <<>>,
           NEW s \in NextWrites(Head(queue), stage.writes)
    PROVE  GoodStore(s)
PROOF
  <1> DEFINE e == Head(queue)
             n == stage.writes
  <1>1. /\ e \in Transitions /\ e.reason \in Reasons /\ n \in Nat
        /\ e.target \in Targets /\ e.server \in Places
        /\ IsActivation(e) => e.target \in Accounts
    <2>1. e \in Transitions /\ n \in Nat
      BY HeadFacts DEF TypeOK
    <2>2. IsActivation(e) => e.target \in Accounts
      BY HeadFacts DEF QueueInv
    <2> QED
      BY <2>1, <2>2 DEF Transitions
  <1>2. GoodStore(stored) /\ NoAccount \notin Accounts
    BY NoneAssumption DEF TypeOK, GoodStore
  <1>3. GoodStore(Locked) /\ GoodStore(LoggedOut) /\ GoodStore(Reset)
    BY <1>2 DEF GoodStore, Locked, LoggedOut, Reset, Targets
  <1>4. ASSUME NEW a, NEW w \in WithoutAccount(a)
        PROVE  GoodStore(w)
    BY <1>2, <1>4 DEF GoodStore, WithoutAccount, Targets
  <1>5. CASE e.reason = "lock"
    BY <1>3, <1>5 DEF NextWrites
  <1>6. CASE e.reason \in {"login", "unlock"}
    <2>1. s = [stored EXCEPT !.accounts = @ \cup {e.target}, !.active = e.target,
                             !.open = FALSE]
          \/ (n = 1 /\ s = [stored EXCEPT !.open = TRUE])
      BY <1>6 DEF NextWrites
    <2>2. n = 1 => stored.active = e.target
      BY <1>6 DEF WriteInv, IsActivation
    <2>3. e.target \in Accounts /\ e.target # NoAccount
      BY <1>1, <1>2, <1>6 DEF IsActivation
    <2>4. CASE n = 1 /\ s = [stored EXCEPT !.open = TRUE]
      BY <1>2, <2>2, <2>3, <2>4 DEF GoodStore
    <2>5. CASE s = [stored EXCEPT !.accounts = @ \cup {e.target}, !.active = e.target,
                                  !.open = FALSE]
      <3>1. /\ s \in [server : Places, accounts : SUBSET Accounts, active : Targets,
                      open : BOOLEAN]
            /\ s.accounts = stored.accounts \cup {e.target}
            /\ s.active = e.target /\ s.open = FALSE
        BY <1>2, <2>3, <2>5 DEF GoodStore, Targets
      <3> QED
        BY <3>1 DEF GoodStore
    <2> QED
      BY <2>1, <2>4, <2>5
  <1>7. CASE e.reason = "switchAccount"
    <2>1. s = Locked \/ (n = 1 /\ s = [stored EXCEPT !.active = e.target])
      BY <1>7 DEF NextWrites
    <2>2. n = 1 => e.target \in stored.accounts
      BY <1>7 DEF WriteInv
    <2> QED
      BY <1>1, <1>2, <1>3, <2>1, <2>2 DEF GoodStore
  <1>8. CASE e.reason = "logout"
    BY <1>3, <1>4, <1>8 DEF NextWrites
  <1>9. CASE e.reason = "removeAccount"
    <2>1. s = Locked \/ s \in WithoutAccount(e.target)
          \/ (stored.active # e.target /\ s = [stored EXCEPT !.accounts = @ \ {e.target}])
      BY <1>9 DEF NextWrites
    <2> QED
      BY <1>2, <1>3, <1>4, <2>1 DEF GoodStore
  <1>10. CASE e.reason = "serverChange"
    <2>1. s = LoggedOut \/ s = Reset \/ s = [stored EXCEPT !.server = e.server]
      BY <1>10 DEF NextWrites
    <2> QED
      BY <1>1, <1>2, <1>3, <2>1 DEF GoodStore
  <1>11. CASE e.reason = "keyRotation"
    BY <1>3, <1>11 DEF NextWrites
  <1> QED
    BY <1>1, <1>5, <1>6, <1>7, <1>8, <1>9, <1>10, <1>11, BoundAssumption

\* The typing invariant, by what is typed.
StageState ==
    [at : {"none", "starting", "acting", "validating", "undoing", "failing", "settling",
           "publishing"},
     writes : Nat, ok : BOOLEAN, open : BOOLEAN]
SessionState ==
    [generation : Nat, latest : Nat, terminal : Nat,
     state : {"unknown", "transitioning", "unlocked", "closed"}]
SnapshotState == [server : Places, account : Targets]
AccountState ==
    [serverGeneration : Nat, accountGeneration : Nat, snapshot : SnapshotState]
LifecycleState ==
    [id : Nat, kind : {"none", "account", "server"}, terminal : BOOLEAN, server : Places,
     serverGeneration : Nat]
RotationState ==
    [at : {"idle", "checked", "marked", "undoing"}, client : Clients \cup {NoAccount}]
ActivationState == [reason : {"none", "login", "unlock"}, target : Targets, id : Nat]

StoreTyped == GoodStore(stored) /\ rotated \in Targets /\ leases \in [Clients -> LeaseState]
QueueTyped == queue \in Seq(Transitions) /\ starting \subseteq Transitions /\ ids \in Nat
CallerTyped ==
    activation \in ActivationState /\ rotation \in RotationState /\ blocked \in BOOLEAN
GateTyped ==
    session \in SessionState /\ account \in AccountState /\ lifecycle \in LifecycleState
FlagsTyped ==
    /\ pending \in BOOLEAN /\ partial \in BOOLEAN /\ restarts \in Nat
    /\ boot \in {"recovering", "failed", "ready"}

LEMMA TypeParts ==
    ASSUME TypeOK
    PROVE  StoreTyped /\ QueueTyped /\ stage \in StageState /\ CallerTyped /\ GateTyped
           /\ FlagsTyped
  BY DEF TypeOK, StoreTyped, GoodStore, QueueTyped, StageState, CallerTyped, GateTyped,
         FlagsTyped, LeaseState, SessionState, SnapshotState, AccountState, LifecycleState,
         RotationState, ActivationState

LEMMA PartsType ==
    ASSUME StoreTyped', QueueTyped', stage' \in StageState, CallerTyped', GateTyped',
           FlagsTyped'
    PROVE  TypeOK'
  BY DEF TypeOK, StoreTyped, GoodStore, QueueTyped, StageState, CallerTyped, GateTyped,
         FlagsTyped, LeaseState, SessionState, SnapshotState, AccountState, LifecycleState,
         RotationState, ActivationState

\* A queued key rotation is alone in the queue, and blocks new transitions.
LEMMA RotatingBlocks ==
    ASSUME TypeOK, FenceInv, Rotating
    PROVE  /\ blocked /\ Len(queue) = 1 /\ Tail(queue) = <<>>
           /\ Head(queue).id = session.terminal
  <1>1. blocked /\ Len(queue) = 1 /\ Head(queue).id = session.terminal
    BY HeadFacts DEF Rotating, FenceInv
  <1>2. Tail(queue) = <<>>
    <2>1. Tail(queue) \in Seq(Transitions) /\ Len(Tail(queue)) = 0
      BY <1>1, HeadFacts DEF Rotating
    <2> QED
      BY <2>1, EmptySeq
  <1> QED
    BY <1>1, <1>2

\* The next transition begins: its start hook is the newest.
LEMMA BeginNextStep ==
    ASSUME IInv, BeginNext
    PROVE  IInv'
PROOF
  <1>1. TypeOK'
    <2>1. StoreTyped' /\ CallerTyped' /\ GateTyped' /\ FlagsTyped'
      BY TypeParts DEF IInv, BeginNext, Begun, NoStage, storageVars, queueVars,
         gateVars, callerVars, workerVars, StoreTyped, CallerTyped, GateTyped,
         FlagsTyped
    <2>2. QueueTyped'
      BY TypeParts, HeadFacts DEF IInv, BeginNext, Begun, NoStage, storageVars,
         queueVars, gateVars, callerVars, workerVars, QueueTyped
    <2>3. stage' \in StageState
      BY TypeParts DEF IInv, BeginNext, Begun, NoStage, storageVars, queueVars,
         gateVars, callerVars, workerVars, StageState
    <2> QED
      BY <2>1, <2>2, <2>3, PartsType
  <1>2. QueueInv' /\ FenceInv' /\ SessionLeaseInv'
    BY DEF IInv, BeginNext, Begun, NoStage, storageVars, queueVars, gateVars,
       callerVars, workerVars, QueueInv, FenceInv, FenceFollowsQueue, SessionLeaseInv,
       SessionAsserts
  <1>3. HookInv'
    <2>1. /\ queue' = queue /\ ids' = ids /\ starting' = starting \cup {Head(queue)}
          /\ stage'.at = "starting" /\ stage.at = "none" /\ queue # <<>>
      BY DEF BeginNext, Begun, NoStage, queueVars
    <2>2. Head(queue).id <= ids /\ Head(queue).id \in Nat
      BY <2>1, HeadFacts DEF IInv, QueueInv, Transitions
    <2> QED
      BY <2>1, <2>2 DEF IInv, HookInv
  <1>4. StageInv'
    BY DEF IInv, BeginNext, Begun, NoStage, storageVars, queueVars, gateVars,
       callerVars, workerVars, StageInv
  <1>5. WriteInv'
    BY DEF IInv, BeginNext, Begun, NoStage, storageVars, queueVars, gateVars,
       callerVars, workerVars, WriteInv
  <1>6. RotationInv'
    BY DEF IInv, BeginNext, Begun, NoStage, storageVars, queueVars, gateVars,
       callerVars, workerVars, RotationInv, Rotating
  <1>7. LifecycleInv'
    BY DEF IInv, BeginNext, Begun, NoStage, storageVars, queueVars, gateVars,
       callerVars, workerVars, LifecycleInv, Stale
  <1>8. BootInv'
    BY DEF IInv, BeginNext, Begun, NoStage, storageVars, queueVars, gateVars,
       callerVars, workerVars, BootInv
  <1> QED
    BY <1>1, <1>2, <1>3, <1>4, <1>5, <1>6, <1>7, <1>8 DEF IInv

\* A refused start fails the head of the queue.
LEMMA ImmediateStartFailsStep ==
    ASSUME IInv, ImmediateStartFails
    PROVE  IInv'
PROOF
  <1>1. TypeOK'
    <2>1. StoreTyped' /\ QueueTyped' /\ CallerTyped' /\ GateTyped' /\ FlagsTyped'
      BY TypeParts DEF IInv, ImmediateStartFails, storageVars, queueVars, gateVars,
         callerVars, workerVars, StoreTyped, QueueTyped, CallerTyped, GateTyped,
         FlagsTyped
    <2>2. stage' \in StageState
      BY TypeParts DEF IInv, ImmediateStartFails, storageVars, queueVars, gateVars,
         callerVars, workerVars, StageState
    <2> QED
      BY <2>1, <2>2, PartsType
  <1>2. QueueInv' /\ FenceInv' /\ SessionLeaseInv' /\ BootInv'
    BY DEF IInv, ImmediateStartFails, storageVars, queueVars, gateVars, callerVars,
       workerVars, QueueInv, FenceInv, FenceFollowsQueue, SessionLeaseInv,
       SessionAsserts, BootInv
  <1>3. HookInv'
    BY DEF IInv, ImmediateStartFails, storageVars, queueVars, gateVars, callerVars,
       workerVars, HookInv
  <1>4. StageInv'
    BY DEF IInv, ImmediateStartFails, storageVars, queueVars, gateVars, callerVars,
       workerVars, StageInv, NoStage
  <1>5. WriteInv'
    BY DEF IInv, ImmediateStartFails, storageVars, queueVars, gateVars, callerVars,
       workerVars, WriteInv
  <1>6. RotationInv'
    BY DEF IInv, ImmediateStartFails, storageVars, queueVars, gateVars, callerVars,
       workerVars, RotationInv, Rotating
  <1>7. LifecycleInv'
    BY DEF IInv, ImmediateStartFails, storageVars, queueVars, gateVars, callerVars,
       workerVars, LifecycleInv, Stale
  <1> QED
    BY <1>1, <1>2, <1>3, <1>4, <1>5, <1>6, <1>7 DEF IInv

\* An action resolves; a key rotation only once its marker is gone.
LEMMA ActionReturnsStep ==
    ASSUME IInv, ActionReturns
    PROVE  IInv'
PROOF
  <1>1. TypeOK'
    <2>1. StoreTyped' /\ QueueTyped' /\ CallerTyped' /\ GateTyped' /\ FlagsTyped'
      BY TypeParts DEF IInv, ActionReturns, storageVars, queueVars, gateVars,
         callerVars, workerVars, StoreTyped, QueueTyped, CallerTyped, GateTyped,
         FlagsTyped
    <2>2. stage' \in StageState
      BY TypeParts DEF IInv, ActionReturns, storageVars, queueVars, gateVars,
         callerVars, workerVars, StageState
    <2> QED
      BY <2>1, <2>2, PartsType
  <1>2. QueueInv' /\ FenceInv' /\ SessionLeaseInv' /\ BootInv'
    BY DEF IInv, ActionReturns, storageVars, queueVars, gateVars, callerVars,
       workerVars, QueueInv, FenceInv, FenceFollowsQueue, SessionLeaseInv,
       SessionAsserts, BootInv
  <1>3. HookInv'
    BY DEF IInv, ActionReturns, storageVars, queueVars, gateVars, callerVars,
       workerVars, HookInv
  <1>4. StageInv'
    BY DEF IInv, ActionReturns, storageVars, queueVars, gateVars, callerVars,
       workerVars, StageInv, NoStage
  <1>5. WriteInv'
    BY DEF IInv, ActionReturns, storageVars, queueVars, gateVars, callerVars,
       workerVars, WriteInv
  <1>6. RotationInv'
    BY DEF IInv, ActionReturns, storageVars, queueVars, gateVars, callerVars,
       workerVars, RotationInv, Rotating, Complete, IsActivation
  <1>7. LifecycleInv'
    BY DEF IInv, ActionReturns, storageVars, queueVars, gateVars, callerVars,
       workerVars, LifecycleInv, Stale
  <1> QED
    BY <1>1, <1>2, <1>3, <1>4, <1>5, <1>6, <1>7 DEF IInv

\* An action throws, and an activation is undone.
LEMMA ActionFailsStep ==
    ASSUME IInv, ActionFails
    PROVE  IInv'
PROOF
  <1>1. TypeOK'
    <2>1. StoreTyped' /\ QueueTyped' /\ CallerTyped' /\ GateTyped' /\ FlagsTyped'
      BY TypeParts DEF IInv, ActionFails, storageVars, queueVars, gateVars,
         callerVars, workerVars, StoreTyped, QueueTyped, CallerTyped, GateTyped,
         FlagsTyped
    <2>2. stage' \in StageState
      BY TypeParts DEF IInv, ActionFails, storageVars, queueVars, gateVars,
         callerVars, workerVars, StageState
    <2> QED
      BY <2>1, <2>2, PartsType
  <1>2. QueueInv' /\ FenceInv' /\ SessionLeaseInv' /\ BootInv'
    BY DEF IInv, ActionFails, storageVars, queueVars, gateVars, callerVars,
       workerVars, QueueInv, FenceInv, FenceFollowsQueue, SessionLeaseInv,
       SessionAsserts, BootInv
  <1>3. HookInv'
    BY DEF IInv, ActionFails, storageVars, queueVars, gateVars, callerVars,
       workerVars, HookInv
  <1>4. StageInv'
    BY DEF IInv, ActionFails, storageVars, queueVars, gateVars, callerVars,
       workerVars, StageInv, NoStage
  <1>5. WriteInv'
    BY DEF IInv, ActionFails, storageVars, queueVars, gateVars, callerVars,
       workerVars, WriteInv
  <1>6. RotationInv'
    BY DEF IInv, ActionFails, storageVars, queueVars, gateVars, callerVars,
       workerVars, RotationInv, Rotating
  <1>7. LifecycleInv'
    BY DEF IInv, ActionFails, storageVars, queueVars, gateVars, callerVars,
       workerVars, LifecycleInv, Stale
  <1> QED
    BY <1>1, <1>2, <1>3, <1>4, <1>5, <1>6, <1>7 DEF IInv

\* An activation is validated.
LEMMA ActivationValidatedStep ==
    ASSUME IInv, NEW ok \in BOOLEAN, ActivationValidated(ok)
    PROVE  IInv'
PROOF
  <1>1. TypeOK'
    <2>1. StoreTyped' /\ QueueTyped' /\ CallerTyped' /\ GateTyped' /\ FlagsTyped'
      BY TypeParts DEF IInv, ActivationValidated, storageVars, queueVars, gateVars,
         callerVars, workerVars, StoreTyped, QueueTyped, CallerTyped, GateTyped,
         FlagsTyped
    <2>2. stage' \in StageState
      BY TypeParts DEF IInv, ActivationValidated, storageVars, queueVars, gateVars,
         callerVars, workerVars, StageState
    <2> QED
      BY <2>1, <2>2, PartsType
  <1>2. QueueInv' /\ FenceInv' /\ SessionLeaseInv' /\ BootInv'
    BY DEF IInv, ActivationValidated, storageVars, queueVars, gateVars, callerVars,
       workerVars, QueueInv, FenceInv, FenceFollowsQueue, SessionLeaseInv,
       SessionAsserts, BootInv
  <1>3. HookInv'
    BY DEF IInv, ActivationValidated, storageVars, queueVars, gateVars, callerVars,
       workerVars, HookInv
  <1>4. StageInv'
    BY DEF IInv, ActivationValidated, storageVars, queueVars, gateVars, callerVars,
       workerVars, StageInv, NoStage
  <1>5. WriteInv'
    BY DEF IInv, ActivationValidated, storageVars, queueVars, gateVars, callerVars,
       workerVars, WriteInv
  <1>6. RotationInv'
    BY DEF IInv, ActivationValidated, storageVars, queueVars, gateVars, callerVars,
       workerVars, RotationInv, Rotating, StageInv, IsActivation
  <1>7. LifecycleInv'
    BY DEF IInv, ActivationValidated, storageVars, queueVars, gateVars, callerVars,
       workerVars, LifecycleInv, Stale
  <1> QED
    BY <1>1, <1>2, <1>3, <1>4, <1>5, <1>6, <1>7 DEF IInv

\* The cleanup of a key rotation clears the marker, when no account is left.
LEMMA MarkerClearedStep ==
    ASSUME IInv, MarkerCleared
    PROVE  IInv'
PROOF
  <1>1. TypeOK'
    <2>1. StoreTyped' /\ QueueTyped' /\ stage' \in StageState /\ CallerTyped' /\
         GateTyped'
      BY TypeParts DEF IInv, MarkerCleared, storageVars, queueVars, gateVars,
         callerVars, workerVars, StoreTyped, QueueTyped, CallerTyped, GateTyped
    <2>2. FlagsTyped'
      BY TypeParts DEF IInv, MarkerCleared, storageVars, queueVars, gateVars,
         callerVars, workerVars, FlagsTyped
    <2> QED
      BY <2>1, <2>2, PartsType
  <1>2. QueueInv' /\ HookInv' /\ StageInv' /\ WriteInv' /\ FenceInv' /\
       SessionLeaseInv' /\ LifecycleInv' /\ BootInv'
    BY DEF IInv, MarkerCleared, storageVars, queueVars, gateVars, callerVars,
       workerVars, QueueInv, HookInv, StageInv, NoStage, WriteInv, FenceInv,
       FenceFollowsQueue, SessionLeaseInv, SessionAsserts, LifecycleInv, Stale,
       BootInv
  <1>3. RotationInv'
    <2>1. Rotating /\ stage.at = "acting" /\ stage.writes = 3 /\ queue # <<>>
      BY DEF IInv, StageInv, MarkerCleared, Rotating
    <2>2. blocked /\ stored.accounts = {} /\ rotated = NoAccount
      BY <2>1, RotatingBlocks DEF IInv, RotationInv
    <2> QED
      BY <2>1, <2>2 DEF IInv, RotationInv, Rotating, MarkerCleared, storageVars, queueVars,
                        callerVars, gateVars, workerVars
  <1> QED
    BY <1>1, <1>2, <1>3 DEF IInv

\* A login or unlock attempt begins.
LEMMA BeginAttemptStep ==
    ASSUME IInv, NEW r \in {"login", "unlock"}, NEW a \in Accounts, BeginAttempt(r, a)
    PROVE  IInv'
PROOF
  <1>1. TypeOK'
    <2>1. StoreTyped' /\ QueueTyped' /\ stage' \in StageState /\ GateTyped' /\
         FlagsTyped'
      BY TypeParts DEF IInv, BeginAttempt, storageVars, queueVars, gateVars,
         callerVars, workerVars, StoreTyped, QueueTyped, GateTyped, FlagsTyped
    <2>2. CallerTyped'
      BY TypeParts DEF IInv, BeginAttempt, storageVars, queueVars, gateVars,
         callerVars, workerVars, CallerTyped, RotationState, ActivationState, Targets
    <2> QED
      BY <2>1, <2>2, PartsType
  <1>2. HookInv' /\ StageInv' /\ WriteInv' /\ FenceInv' /\ SessionLeaseInv' /\
       RotationInv' /\ LifecycleInv'
    BY DEF IInv, BeginAttempt, storageVars, queueVars, gateVars, callerVars,
       workerVars, HookInv, StageInv, NoStage, WriteInv, FenceInv, FenceFollowsQueue,
       SessionLeaseInv, SessionAsserts, RotationInv, Rotating, LifecycleInv, Stale
  <1>3. QueueInv'
    BY DEF IInv, BeginAttempt, storageVars, queueVars, gateVars, callerVars,
       workerVars, QueueInv
  <1>4. BootInv'
    BY DEF IInv, BeginAttempt, storageVars, queueVars, gateVars, callerVars,
       workerVars, BootInv
  <1> QED
    BY <1>1, <1>2, <1>3, <1>4 DEF IInv

\* A key rotation starts in an unlocked session, where nothing blocks.
LEMMA RotationStartsStep ==
    ASSUME IInv, NEW c \in Clients, RotationStarts(c)
    PROVE  IInv'
PROOF
  <1>1. TypeOK'
    <2>1. StoreTyped' /\ QueueTyped' /\ stage' \in StageState /\ GateTyped' /\
         FlagsTyped'
      BY TypeParts DEF IInv, RotationStarts, LeasesAssert, SessionAsserts,
         storageVars, queueVars, gateVars, callerVars, workerVars, StoreTyped,
         QueueTyped, GateTyped, FlagsTyped
    <2>2. CallerTyped'
      BY TypeParts DEF IInv, RotationStarts, LeasesAssert, SessionAsserts,
         storageVars, queueVars, gateVars, callerVars, workerVars, CallerTyped,
         RotationState, ActivationState
    <2> QED
      BY <2>1, <2>2, PartsType
  <1>2. QueueInv' /\ HookInv' /\ StageInv' /\ WriteInv' /\ FenceInv' /\
       SessionLeaseInv' /\ LifecycleInv'
    BY DEF IInv, RotationStarts, LeasesAssert, SessionAsserts, storageVars, queueVars,
       gateVars, callerVars, workerVars, QueueInv, HookInv, StageInv, NoStage,
       WriteInv, FenceInv, FenceFollowsQueue, SessionLeaseInv, SessionAsserts,
       LifecycleInv, Stale
  <1>3. RotationInv'
    BY DEF IInv, RotationStarts, LeasesAssert, SessionAsserts, storageVars, queueVars,
       gateVars, callerVars, workerVars, RotationInv, Rotating, FenceInv,
       FenceFollowsQueue
  <1>4. BootInv'
    BY DEF IInv, RotationStarts, LeasesAssert, SessionAsserts, storageVars, queueVars,
       gateVars, callerVars, workerVars, BootInv
  <1> QED
    BY <1>1, <1>2, <1>3, <1>4 DEF IInv

\* The marker is written.
LEMMA RotationMarksStep ==
    ASSUME IInv, RotationMarks
    PROVE  IInv'
PROOF
  <1>1. TypeOK'
    <2>1. StoreTyped' /\ QueueTyped' /\ stage' \in StageState /\ GateTyped'
      BY TypeParts DEF IInv, RotationMarks, storageVars, queueVars, gateVars,
         callerVars, workerVars, StoreTyped, QueueTyped, GateTyped
    <2>2. CallerTyped'
      BY TypeParts DEF IInv, RotationMarks, storageVars, queueVars, gateVars,
         callerVars, workerVars, CallerTyped, RotationState, ActivationState
    <2>3. FlagsTyped'
      BY TypeParts DEF IInv, RotationMarks, storageVars, queueVars, gateVars,
         callerVars, workerVars, FlagsTyped
    <2> QED
      BY <2>1, <2>2, <2>3, PartsType
  <1>2. QueueInv' /\ HookInv' /\ StageInv' /\ WriteInv' /\ FenceInv' /\
       SessionLeaseInv' /\ LifecycleInv'
    BY DEF IInv, RotationMarks, storageVars, queueVars, gateVars, callerVars,
       workerVars, QueueInv, HookInv, StageInv, NoStage, WriteInv, FenceInv,
       FenceFollowsQueue, SessionLeaseInv, SessionAsserts, LifecycleInv, Stale
  <1>3. RotationInv'
    BY RotatingBlocks DEF IInv, RotationMarks, storageVars, queueVars, gateVars,
       callerVars, workerVars, RotationInv, Rotating
  <1>4. BootInv'
    BY DEF IInv, RotationMarks, storageVars, queueVars, gateVars, callerVars,
       workerVars, BootInv
  <1> QED
    BY <1>1, <1>2, <1>3, <1>4 DEF IInv

\* The marker's write is refused.
LEMMA RotationMarkFailsStep ==
    ASSUME IInv, RotationMarkFails
    PROVE  IInv'
PROOF
  <1>1. TypeOK'
    <2>1. StoreTyped' /\ QueueTyped' /\ stage' \in StageState /\ GateTyped'
      BY TypeParts DEF IInv, RotationMarkFails, NoRotation, storageVars, queueVars,
         gateVars, callerVars, workerVars, StoreTyped, QueueTyped, GateTyped
    <2>2. CallerTyped'
      BY TypeParts DEF IInv, RotationMarkFails, NoRotation, storageVars, queueVars,
         gateVars, callerVars, workerVars, CallerTyped, RotationState, ActivationState
    <2>3. FlagsTyped'
      BY TypeParts DEF IInv, RotationMarkFails, NoRotation, storageVars, queueVars,
         gateVars, callerVars, workerVars, FlagsTyped
    <2> QED
      BY <2>1, <2>2, <2>3, PartsType
  <1>2. QueueInv' /\ HookInv' /\ StageInv' /\ WriteInv' /\ FenceInv' /\
       SessionLeaseInv' /\ LifecycleInv'
    BY DEF IInv, RotationMarkFails, NoRotation, storageVars, queueVars, gateVars,
       callerVars, workerVars, QueueInv, HookInv, StageInv, NoStage, WriteInv,
       FenceInv, FenceFollowsQueue, SessionLeaseInv, SessionAsserts, LifecycleInv,
       Stale
  <1>3. RotationInv'
    BY RotatingBlocks DEF IInv, RotationMarkFails, NoRotation, storageVars, queueVars,
       gateVars, callerVars, workerVars, RotationInv, Rotating
  <1>4. BootInv'
    BY DEF IInv, RotationMarkFails, NoRotation, storageVars, queueVars, gateVars,
       callerVars, workerVars, BootInv
  <1> QED
    BY <1>1, <1>2, <1>3, <1>4 DEF IInv

\* The leases of a marked rotation no longer assert.
LEMMA RotationWithdrawsStep ==
    ASSUME IInv, RotationWithdraws
    PROVE  IInv'
PROOF
  <1>1. TypeOK'
    <2>1. StoreTyped' /\ QueueTyped' /\ stage' \in StageState /\ GateTyped' /\
         FlagsTyped'
      BY TypeParts DEF IInv, RotationWithdraws, storageVars, queueVars, gateVars,
         callerVars, workerVars, StoreTyped, QueueTyped, GateTyped, FlagsTyped
    <2>2. CallerTyped'
      BY TypeParts DEF IInv, RotationWithdraws, storageVars, queueVars, gateVars,
         callerVars, workerVars, CallerTyped, RotationState, ActivationState
    <2> QED
      BY <2>1, <2>2, PartsType
  <1>2. QueueInv' /\ HookInv' /\ StageInv' /\ WriteInv' /\ FenceInv' /\
       SessionLeaseInv' /\ LifecycleInv'
    BY DEF IInv, RotationWithdraws, storageVars, queueVars, gateVars, callerVars,
       workerVars, QueueInv, HookInv, StageInv, NoStage, WriteInv, FenceInv,
       FenceFollowsQueue, SessionLeaseInv, SessionAsserts, LifecycleInv, Stale
  <1>3. RotationInv'
    BY DEF IInv, RotationWithdraws, storageVars, queueVars, gateVars, callerVars,
       workerVars, RotationInv, Rotating
  <1>4. BootInv'
    BY DEF IInv, RotationWithdraws, storageVars, queueVars, gateVars, callerVars,
       workerVars, BootInv
  <1> QED
    BY <1>1, <1>2, <1>3, <1>4 DEF IInv

\* The marker of a rotation that was never sent is withdrawn.
LEMMA RotationUnmarkedStep ==
    ASSUME IInv, NEW ok \in BOOLEAN, RotationUnmarked(ok)
    PROVE  IInv'
PROOF
  <1>1. TypeOK'
    <2>1. StoreTyped' /\ QueueTyped' /\ stage' \in StageState /\ GateTyped'
      BY TypeParts DEF IInv, RotationUnmarked, NoRotation, storageVars, queueVars,
         gateVars, callerVars, workerVars, StoreTyped, QueueTyped, GateTyped
    <2>2. CallerTyped'
      BY TypeParts DEF IInv, RotationUnmarked, NoRotation, storageVars, queueVars,
         gateVars, callerVars, workerVars, CallerTyped, RotationState, ActivationState
    <2>3. FlagsTyped'
      BY TypeParts DEF IInv, RotationUnmarked, NoRotation, storageVars, queueVars,
         gateVars, callerVars, workerVars, FlagsTyped
    <2> QED
      BY <2>1, <2>2, <2>3, PartsType
  <1>2. QueueInv' /\ HookInv' /\ StageInv' /\ WriteInv' /\ FenceInv' /\
       SessionLeaseInv' /\ LifecycleInv'
    BY DEF IInv, RotationUnmarked, NoRotation, storageVars, queueVars, gateVars,
       callerVars, workerVars, QueueInv, HookInv, StageInv, NoStage, WriteInv,
       FenceInv, FenceFollowsQueue, SessionLeaseInv, SessionAsserts, LifecycleInv,
       Stale
  <1>3. RotationInv'
    BY RotatingBlocks DEF IInv, RotationUnmarked, NoRotation, storageVars, queueVars,
       gateVars, callerVars, workerVars, RotationInv, Rotating
  <1>4. BootInv'
    BY DEF IInv, RotationUnmarked, NoRotation, storageVars, queueVars, gateVars,
       callerVars, workerVars, BootInv
  <1> QED
    BY <1>1, <1>2, <1>3, <1>4 DEF IInv

\* Startup fails; nothing runs before a restart.
LEMMA StartupFailsStep ==
    ASSUME IInv, StartupFails
    PROVE  IInv'
PROOF
  <1>1. TypeOK'
    <2>1. StoreTyped' /\ QueueTyped' /\ stage' \in StageState /\ CallerTyped' /\
         GateTyped'
      BY TypeParts DEF IInv, StartupFails, Recovering, storageVars, queueVars,
         gateVars, callerVars, workerVars, StoreTyped, QueueTyped, CallerTyped,
         GateTyped
    <2>2. FlagsTyped'
      BY TypeParts DEF IInv, StartupFails, Recovering, storageVars, queueVars,
         gateVars, callerVars, workerVars, FlagsTyped
    <2> QED
      BY <2>1, <2>2, PartsType
  <1>2. QueueInv' /\ HookInv' /\ StageInv' /\ WriteInv' /\ FenceInv' /\
       SessionLeaseInv' /\ LifecycleInv'
    BY DEF IInv, StartupFails, Recovering, storageVars, queueVars, gateVars,
       callerVars, workerVars, QueueInv, HookInv, StageInv, NoStage, WriteInv,
       FenceInv, FenceFollowsQueue, SessionLeaseInv, SessionAsserts, LifecycleInv,
       Stale
  <1>3. RotationInv'
    BY DEF IInv, StartupFails, Recovering, storageVars, queueVars, gateVars,
       callerVars, workerVars, RotationInv, Rotating
  <1>4. BootInv'
    BY DEF IInv, StartupFails, Recovering, storageVars, queueVars, gateVars,
       callerVars, workerVars, BootInv
  <1> QED
    BY <1>1, <1>2, <1>3, <1>4 DEF IInv

\* Startup clears the marker once no account is left.
LEMMA StartupClearsMarkerStep ==
    ASSUME IInv, StartupClearsMarker
    PROVE  IInv'
PROOF
  <1>1. TypeOK'
    <2>1. StoreTyped' /\ QueueTyped' /\ stage' \in StageState /\ CallerTyped' /\
         GateTyped'
      BY TypeParts DEF IInv, StartupClearsMarker, Recovering, storageVars, queueVars,
         gateVars, callerVars, workerVars, StoreTyped, QueueTyped, CallerTyped,
         GateTyped
    <2>2. FlagsTyped'
      BY TypeParts DEF IInv, StartupClearsMarker, Recovering, storageVars, queueVars,
         gateVars, callerVars, workerVars, FlagsTyped
    <2> QED
      BY <2>1, <2>2, PartsType
  <1>2. QueueInv' /\ HookInv' /\ StageInv' /\ WriteInv' /\ FenceInv' /\
       SessionLeaseInv' /\ LifecycleInv' /\ BootInv'
    BY DEF IInv, StartupClearsMarker, Recovering, storageVars, queueVars, gateVars,
       callerVars, workerVars, QueueInv, HookInv, StageInv, NoStage, WriteInv,
       FenceInv, FenceFollowsQueue, SessionLeaseInv, SessionAsserts, LifecycleInv,
       Stale, BootInv
  <1>3. RotationInv'
    BY DEF IInv, StartupClearsMarker, Recovering, storageVars, queueVars, gateVars,
       callerVars, workerVars, RotationInv, Rotating, BootInv
  <1> QED
    BY <1>1, <1>2, <1>3 DEF IInv

\* A write behind a closed session fence disturbs no lease: the session leases
\* are of an older session, and the account leases are as outdated as before.
LEMMA WriteKeeps ==
    ASSUME IInv, NEW s, GoodStore(s), Write(s), session.state # "unlocked",
           UNCHANGED gateVars
    PROVE  /\ stored' = s /\ StoreTyped' /\ SessionLeaseInv'
           /\ \A c \in Clients : /\ leases'[c].kind = leases[c].kind
                                 /\ leases[c].kind # "none" => LeaseSees(s, c)
           /\ \A c \in Clients : leases'[c].kind # "none" =>
                /\ leases'[c].serverGeneration <= account'.serverGeneration
                /\ leases'[c].accountGeneration <= account'.accountGeneration
                /\ lifecycle'.kind # "none" => Stale(c)'
           /\ rotated' # NoAccount => rotated # NoAccount /\ stored'.accounts # {}
PROOF
  <1>1. /\ stored' = s /\ leases' \in [Clients -> LeaseState]
        /\ \A c \in Clients : /\ leases'[c].kind = leases[c].kind
                              /\ leases[c].kind # "none" => LeaseSees(s, c)
        /\ rotated' \in {rotated, NoAccount} /\ rotated' \in Targets
        /\ rotated' # NoAccount => rotated \in s.accounts
    BY WriteEffect DEF IInv
  <1>2. StoreTyped'
    BY <1>1 DEF StoreTyped, GoodStore, Places, Targets, LeaseState
  <1>3. SessionLeaseInv'
    BY <1>1 DEF IInv, SessionLeaseInv, SessionAsserts, LeaseSees, gateVars
  <1>4. ASSUME NEW c \in Clients, leases'[c].kind # "none"
        PROVE  /\ leases'[c].serverGeneration <= account'.serverGeneration
               /\ leases'[c].accountGeneration <= account'.accountGeneration
               /\ lifecycle'.kind # "none" => Stale(c)'
    BY <1>1, <1>4 DEF IInv, LifecycleInv, Stale, LeaseSees, gateVars
  <1> QED
    BY <1>1, <1>2, <1>3, <1>4

\* The fence is closed while the queue is at work.
LEMMA QueueCloses ==
    ASSUME IInv, stage.at # "none"
    PROVE  queue # <<>> /\ session.state # "unlocked" /\ boot = "ready"
  BY DEF IInv, StageInv, FenceInv, FenceFollowsQueue, BootInv

\* One write of the action of the head of the queue.
LEMMA ActionWritesStep ==
    ASSUME IInv, ActionWrites
    PROVE  IInv'
PROOF
  <1>1. PICK s \in NextWrites(Head(queue), stage.writes) : Write(s)
    BY DEF ActionWrites
  <1>2. /\ queue # <<>> /\ session.state # "unlocked" /\ boot = "ready"
        /\ stage.at = "acting" /\ GoodStore(s)
         /\ UNCHANGED <<pending, queue, starting, ids, callerVars, gateVars, workerVars,
                        partial>>
    BY <1>1, QueueCloses, NextWritesGood DEF IInv, ActionWrites
  <1>3. /\ stage \in StageState /\ stage' \in StageState /\ stage.writes \in Nat
        /\ stage'.at = "acting" /\ stage'.writes = stage.writes + 1
    BY TypeParts DEF IInv, StageState, ActionWrites
  <1>4. /\ stored' = s /\ StoreTyped' /\ SessionLeaseInv'
        /\ \A c \in Clients : leases'[c].kind = leases[c].kind
        /\ \A c \in Clients : leases'[c].kind # "none" =>
             /\ leases'[c].serverGeneration <= account'.serverGeneration
             /\ leases'[c].accountGeneration <= account'.accountGeneration
             /\ lifecycle'.kind # "none" => Stale(c)'
        /\ rotated' # NoAccount => rotated # NoAccount /\ stored'.accounts # {}
    BY <1>1, <1>2, WriteKeeps
  <1>5. TypeOK'
    <2>1. QueueTyped' /\ CallerTyped' /\ GateTyped' /\ FlagsTyped'
      BY <1>2, TypeParts DEF IInv, QueueTyped, CallerTyped, GateTyped, FlagsTyped,
                             callerVars, gateVars, workerVars
    <2> QED
      BY <1>3, <1>4, <2>1, PartsType
  <1>6. QueueInv' /\ HookInv' /\ StageInv'
    BY <1>2, <1>3 DEF IInv, QueueInv, HookInv, StageInv, NoStage, callerVars, gateVars
  <1>7. WriteInv'
    <2>1. SUFFICES ASSUME stage.writes = 0
                   PROVE  /\ IsActivation(Head(queue)) => s.active = Head(queue).target
                          /\ Head(queue).reason = "switchAccount" =>
                               Head(queue).target \in s.accounts
      BY <1>2, <1>3, <1>4 DEF WriteInv
    <2>2. CASE IsActivation(Head(queue))
      <3>1. s = [stored EXCEPT !.accounts = @ \cup {Head(queue).target},
                               !.active = Head(queue).target, !.open = FALSE]
        BY <1>1, <2>1, <2>2 DEF NextWrites, IsActivation
      <3> QED
        BY <2>2, <3>1, TypeParts DEF IInv, StoreTyped, GoodStore, IsActivation
    <2>3. CASE Head(queue).reason = "switchAccount"
      <3>1. s = Locked /\ Head(queue).target \in stored.accounts
        BY <1>1, <2>1, <2>3 DEF NextWrites
      <3> QED
        BY <2>3, <3>1, TypeParts DEF IInv, StoreTyped, GoodStore, Locked, IsActivation
    <2> QED
      BY <2>2, <2>3
  <1>8. FenceInv'
    BY <1>2 DEF IInv, FenceInv, FenceFollowsQueue, callerVars, gateVars
  <1>9. RotationInv'
    <2>1. Rotating => stage.writes # 0 /\ (stage.writes = 2 => s.accounts = {})
      <3>1. SUFFICES ASSUME Head(queue).reason = "keyRotation"
                     PROVE  stage.writes # 0 /\ (stage.writes = 2 => s.accounts = {})
        BY DEF Rotating
      <3>2. (s = LoggedOut /\ stage.writes = 1) \/ (s = Reset /\ stage.writes = 2)
        BY <1>1, <3>1 DEF NextWrites
      <3>3. Reset.accounts = {}
        BY TypeParts DEF IInv, StoreTyped, GoodStore, Reset, LoggedOut
      <3> QED
        BY <3>2, <3>3
    <2> QED
      BY <1>2, <1>3, <1>4, <2>1 DEF IInv, RotationInv, Rotating, callerVars, gateVars,
                                    workerVars
  <1>10. LifecycleInv'
    BY <1>2, <1>3, <1>4 DEF IInv, LifecycleInv, gateVars
  <1>11. BootInv'
    BY <1>2 DEF BootInv, workerVars
  <1> QED
    BY <1>4, <1>5, <1>6, <1>7, <1>8, <1>9, <1>10, <1>11 DEF IInv

\* A failed activation is rolled back, as far as storage allows.
LEMMA ActivationUndoneStep ==
    ASSUME IInv, ActivationUndone
    PROVE  IInv'
PROOF
  <1>1. PICK s \in {stored, Locked, LoggedOut, Reset} :
               Write(s) /\ partial' = (partial \/ s.open)
    BY DEF ActivationUndone
  <1>2. /\ queue # <<>> /\ session.state # "unlocked" /\ boot = "ready"
        /\ stage.at = "undoing"
        /\ UNCHANGED <<pending, queue, starting, ids, callerVars, gateVars, workerVars>>
    BY <1>1, QueueCloses DEF ActivationUndone
  <1>3. GoodStore(s) /\ s.open \in BOOLEAN
    BY TypeParts DEF IInv, StoreTyped, GoodStore, Locked, LoggedOut, Reset, Targets
  <1>4. /\ stage' \in StageState /\ stage'.at = "failing"
    BY TypeParts DEF IInv, StageState, ActivationUndone
  <1>5. /\ stored' = s /\ StoreTyped' /\ SessionLeaseInv'
        /\ \A c \in Clients : leases'[c].kind = leases[c].kind
        /\ \A c \in Clients : leases'[c].kind # "none" =>
             /\ leases'[c].serverGeneration <= account'.serverGeneration
             /\ leases'[c].accountGeneration <= account'.accountGeneration
             /\ lifecycle'.kind # "none" => Stale(c)'
        /\ rotated' # NoAccount => rotated # NoAccount /\ stored'.accounts # {}
    BY <1>1, <1>2, <1>3, WriteKeeps
  <1>6. TypeOK'
    <2>1. QueueTyped' /\ CallerTyped' /\ GateTyped' /\ FlagsTyped'
      BY <1>1, <1>2, <1>3, TypeParts DEF IInv, QueueTyped, CallerTyped, GateTyped,
                                         FlagsTyped, callerVars, gateVars, workerVars
    <2> QED
      BY <1>4, <1>5, <2>1, PartsType
  <1>7. QueueInv' /\ HookInv' /\ StageInv' /\ WriteInv'
    BY <1>2, <1>4 DEF IInv, QueueInv, HookInv, StageInv, WriteInv, callerVars, gateVars
  <1>8. FenceInv'
    BY <1>2 DEF IInv, FenceInv, FenceFollowsQueue, callerVars, gateVars
  <1>9. RotationInv'
    BY <1>2, <1>4, <1>5 DEF IInv, RotationInv, Rotating, callerVars, gateVars, workerVars
  <1>10. LifecycleInv'
    BY <1>2, <1>4, <1>5 DEF IInv, LifecycleInv, gateVars
  <1>11. BootInv'
    BY <1>2 DEF BootInv, workerVars
  <1> QED
    BY <1>5, <1>6, <1>7, <1>8, <1>9, <1>10, <1>11 DEF IInv

\* Startup logs out what it cannot trust.
LEMMA StartupResetsStep ==
    ASSUME IInv, StartupResets
    PROVE  IInv'
PROOF
  <1>1. PICK s \in {LoggedOut, Reset} : Write(s)
    BY DEF StartupResets
  <1>2. /\ boot = "recovering"
        /\ UNCHANGED <<pending, queueVars, callerVars, gateVars, workerVars, partial>>
    BY DEF StartupResets, Recovering
  <1>3. GoodStore(s)
    BY TypeParts DEF IInv, StoreTyped, GoodStore, LoggedOut, Reset, Targets
  <1>4. /\ queue = <<>> /\ session.state # "unlocked"
        /\ \A c \in Clients : leases[c].kind = "none"
    BY <1>2 DEF IInv, BootInv
  <1>5. /\ stored' = s /\ StoreTyped' /\ SessionLeaseInv'
        /\ \A c \in Clients : leases'[c].kind = leases[c].kind
        /\ \A c \in Clients : leases'[c].kind # "none" =>
             /\ leases'[c].serverGeneration <= account'.serverGeneration
             /\ leases'[c].accountGeneration <= account'.accountGeneration
             /\ lifecycle'.kind # "none" => Stale(c)'
        /\ rotated' # NoAccount => rotated # NoAccount /\ stored'.accounts # {}
    <2>1. UNCHANGED gateVars
      BY <1>2
    <2> QED
      BY <1>1, <1>3, <1>4, <2>1, WriteKeeps
  <1>6. TypeOK'
    <2>1. QueueTyped' /\ stage' \in StageState /\ CallerTyped' /\ GateTyped' /\ FlagsTyped'
      BY <1>2, TypeParts DEF IInv, QueueTyped, CallerTyped, GateTyped, FlagsTyped,
                             queueVars, callerVars, gateVars, workerVars
    <2> QED
      BY <1>5, <2>1, PartsType
  <1>7. QueueInv' /\ HookInv' /\ StageInv' /\ WriteInv'
    BY <1>2, <1>4 DEF IInv, QueueInv, HookInv, StageInv, WriteInv, NoStage, queueVars,
                      callerVars, gateVars
  <1>8. FenceInv'
    BY <1>2, <1>4 DEF IInv, FenceInv, FenceFollowsQueue, queueVars, callerVars, gateVars
  <1>9. RotationInv'
    BY <1>2, <1>4, <1>5 DEF IInv, RotationInv, Rotating, queueVars, callerVars, gateVars,
                            workerVars
  <1>10. LifecycleInv'
    BY <1>2, <1>4, <1>5 DEF IInv, LifecycleInv, StageInv, queueVars, gateVars
  <1>11. BootInv'
    BY <1>2, <1>5 DEF IInv, BootInv, queueVars, callerVars, gateVars, workerVars
  <1> QED
    BY <1>5, <1>6, <1>7, <1>8, <1>9, <1>10, <1>11 DEF IInv

\* The rotation request leaves: the marker is on disk and an account is active.
LEMMA RotationPostsStep ==
    ASSUME IInv, RotationPosts
    PROVE  IInv'
PROOF
  <1>1. TypeOK'
    <2>1. QueueTyped' /\ CallerTyped' /\ GateTyped' /\ FlagsTyped'
      BY TypeParts DEF IInv, RotationPosts, storageVars, queueVars, gateVars,
         callerVars, workerVars, QueueTyped, CallerTyped, GateTyped, FlagsTyped
    <2>2. StoreTyped'
      BY TypeParts, HeadFacts DEF IInv, RotationPosts, storageVars, queueVars,
         gateVars, callerVars, workerVars, StoreTyped, Targets, Transitions, StageInv
    <2>3. stage' \in StageState
      BY TypeParts DEF IInv, RotationPosts, storageVars, queueVars, gateVars,
         callerVars, workerVars, StageState
    <2> QED
      BY <2>1, <2>2, <2>3, PartsType
  <1>2. QueueInv' /\ SessionLeaseInv' /\ BootInv'
    BY DEF IInv, RotationPosts, storageVars, queueVars, gateVars, callerVars,
       workerVars, QueueInv, SessionLeaseInv, SessionAsserts, BootInv
  <1>3. HookInv'
    BY DEF IInv, RotationPosts, storageVars, queueVars, gateVars, callerVars,
       workerVars, HookInv
  <1>4. StageInv'
    BY DEF IInv, RotationPosts, storageVars, queueVars, gateVars, callerVars,
       workerVars, StageInv, NoStage
  <1>5. WriteInv'
    <2>1. Head(queue).reason = "keyRotation" /\ queue' = queue
      BY DEF RotationPosts
    <2> QED
      BY <2>1 DEF WriteInv, IsActivation
  <1>6. FenceInv'
    BY DEF IInv, RotationPosts, storageVars, queueVars, gateVars, callerVars,
       workerVars, FenceInv, FenceFollowsQueue
  <1>7. RotationInv'
    <2>1. Rotating /\ stage.at = "acting" /\ stage.writes = 0 /\ stage'.at = "acting"
          /\ stage'.writes = 1 /\ boot = "ready" /\ session.state # "unlocked"
      BY QueueCloses, TypeParts DEF RotationPosts, Rotating, StageState
    <2>2. blocked /\ pending /\ stored.accounts # {}
      BY <2>1, RotatingBlocks, TypeParts DEF IInv, RotationInv, StoreTyped, GoodStore
    <2> QED
      BY <2>1, <2>2 DEF IInv, RotationInv, Rotating, RotationPosts, callerVars, gateVars,
                        workerVars
  <1>8. LifecycleInv'
    BY DEF IInv, RotationPosts, storageVars, queueVars, gateVars, callerVars,
       workerVars, LifecycleInv, Stale
  <1> QED
    BY <1>1, <1>2, <1>3, <1>4, <1>5, <1>6, <1>7, <1>8 DEF IInv

\* Where a lease asserts the gate is open, and a worker that can capture leases
\* has started.
LEMMA CaptureStep ==
    ASSUME IInv, NEW c \in Clients, NEW k \in {"account", "session"}, Capture(c, k)
    PROVE  IInv'
PROOF
  <1> DEFINE l == [kind |-> k, session |-> session.generation,
                   serverGeneration |-> account.serverGeneration,
                   accountGeneration |-> account.accountGeneration,
                   server |-> account.snapshot.server, account |-> account.snapshot.account,
                   moved |-> FALSE, relocked |-> FALSE]
  <1>1. /\ l \in LeaseState /\ l.kind = k /\ l.session = session.generation
        /\ l.serverGeneration = account.serverGeneration
        /\ l.accountGeneration = account.accountGeneration
        /\ l.moved = FALSE /\ l.relocked = FALSE
    BY TypeParts DEF IInv, GateTyped, SessionState, AccountState, SnapshotState, LeaseState
  <1>2. /\ boot = "ready" /\ lifecycle.kind = "none"
        /\ k = "session" => session.state = "unlocked"
        /\ leases' = [leases EXCEPT ![c] = l]
        /\ UNCHANGED <<stored, rotated, pending, queueVars, callerVars, gateVars, workerVars,
                       partial>>
    BY DEF Capture, GateOpen
  <1> HIDE DEF l
  <1>3. /\ leases' \in [Clients -> LeaseState] /\ leases'[c] = l
        /\ \A d \in Clients : d # c => leases'[d] = leases[d]
    BY <1>1, <1>2, TypeParts DEF IInv, StoreTyped
  <1>4. TypeOK'
    <2>1. StoreTyped'
      BY <1>2, <1>3, TypeParts DEF IInv, StoreTyped, GoodStore
    <2>2. QueueTyped' /\ stage' \in StageState /\ CallerTyped' /\ GateTyped' /\ FlagsTyped'
      BY <1>2, TypeParts DEF IInv, QueueTyped, CallerTyped, GateTyped, FlagsTyped,
                             queueVars, callerVars, gateVars, workerVars
    <2> QED
      BY <2>1, <2>2, PartsType
  <1>5. QueueInv' /\ HookInv' /\ StageInv' /\ WriteInv' /\ FenceInv' /\ RotationInv'
    BY <1>2 DEF IInv, QueueInv, HookInv, StageInv, WriteInv, FenceInv, FenceFollowsQueue,
                RotationInv, Rotating, NoStage, queueVars, callerVars, gateVars, workerVars
  <1>6. SessionLeaseInv'
    <2>1. session' = session /\ session.generation \in Nat
      BY <1>2, TypeParts DEF IInv, GateTyped, SessionState, gateVars
    <2> QED
      BY <1>1, <1>2, <1>3, <2>1 DEF IInv, SessionLeaseInv, SessionAsserts
  <1>7. LifecycleInv'
    <2>1. /\ UNCHANGED <<queue, stage, account, lifecycle>>
          /\ account.serverGeneration \in Nat /\ account.accountGeneration \in Nat
      BY <1>2, TypeParts DEF IInv, GateTyped, AccountState, gateVars, queueVars
    <2> QED
      BY <1>1, <1>2, <1>3, <2>1 DEF IInv, LifecycleInv, Stale
  <1>8. BootInv'
    BY <1>2 DEF BootInv, workerVars
  <1> QED
    BY <1>4, <1>5, <1>6, <1>7, <1>8 DEF IInv

\* A transition that a caller starts closes the session fence and joins the queue.
LEMMA EnqueueEffect ==
    ASSUME IInv, ~blocked, NEW e \in Transitions, RunTransition(e)
    PROVE  /\ ids' = ids + 1 /\ e.id = ids + 1
           /\ session' = [generation |-> session.generation + 1, latest |-> e.id,
                          state |-> "transitioning",
                          terminal |-> IF e.reason = "keyRotation" THEN e.id ELSE 0]
           /\ session' \in SessionState
           /\ queue' \in Seq(Transitions) /\ queue' # <<>> /\ Len(queue') = Len(queue) + 1
           /\ queue'[Len(queue) + 1] = e
           /\ \A i \in 1 .. Len(queue) : queue'[i] = queue[i]
           /\ queue # <<>> => /\ Head(queue') = Head(queue)
                              /\ stage' = stage /\ starting' = starting
           /\ queue = <<>> => /\ Head(queue') = e
                              /\ stage'.at = "starting" /\ stage'.writes = 0
                              /\ starting' = starting \cup {e}
           /\ stage' \in StageState
           /\ UNCHANGED <<account, lifecycle>>
PROOF
  <1>1. queue \in Seq(Transitions) /\ session \in SessionState /\ ids \in Nat
    BY TypeParts DEF IInv, QueueTyped, GateTyped
  <1>2. /\ ids' = ids + 1 /\ e.id = ids + 1 /\ queue' = Append(queue, e)
        /\ UNCHANGED <<account, lifecycle>>
    BY <1>1 DEF RunTransition
  <1>3. session' = [generation |-> session.generation + 1, latest |-> e.id,
                    state |-> "transitioning",
                    terminal |-> IF e.reason = "keyRotation" THEN e.id ELSE 0]
    <2>1. session.terminal = 0 /\ session.latest <= ids /\ session.latest \in Nat
      BY <1>1 DEF IInv, FenceInv, QueueInv, SessionState
    <2> QED
      BY <1>1, <1>2, <2>1 DEF RunTransition, Fenced
  <1>4. session' \in SessionState
    BY <1>1, <1>2, <1>3 DEF SessionState
  <1>5. /\ queue' \in Seq(Transitions) /\ queue' # <<>> /\ Len(queue') = Len(queue) + 1
        /\ queue'[Len(queue) + 1] = e
        /\ \A i \in 1 .. Len(queue) : queue'[i] = queue[i]
        /\ queue # <<>> => Head(queue') = Head(queue)
        /\ queue = <<>> => Head(queue') = e
    BY <1>1, <1>2
  <1>6. /\ queue # <<>> => stage' = stage /\ starting' = starting
        /\ queue = <<>> => /\ stage'.at = "starting" /\ stage'.writes = 0
                           /\ starting' = starting \cup {e}
        /\ stage' \in StageState
    <2>1. CASE queue = <<>>
      <3>1. stage' = [NoStage EXCEPT !.at = "starting"] /\ starting' = starting \cup {e}
        BY <2>1 DEF RunTransition, Begun
      <3>2. NoStage \in StageState /\ NoStage.writes = 0
        BY DEF NoStage, StageState
      <3>3. stage' \in StageState /\ stage'.at = "starting" /\ stage'.writes = 0
        BY <3>1, <3>2 DEF StageState
      <3> QED
        BY <2>1, <3>1, <3>3
    <2>2. CASE queue # <<>>
      BY <2>2, TypeParts DEF IInv, RunTransition
    <2> QED
      BY <2>1, <2>2
  <1> QED
    BY <1>2, <1>3, <1>4, <1>5, <1>6

\* ... and keeps what depends on the queue and the session fence alone.
LEMMA EnqueueKeeps ==
    ASSUME IInv, ~blocked, NEW e \in Transitions, RunTransition(e), boot = "ready",
           IsActivation(e) => e.target \in Accounts,
           activation' \in ActivationState,
           activation'.reason # "none" => activation'.target \in Accounts,
           UNCHANGED <<storageVars, workerVars>>
    PROVE  /\ StoreTyped' /\ QueueTyped' /\ stage' \in StageState /\ GateTyped'
           /\ QueueInv' /\ HookInv' /\ StageInv' /\ WriteInv'
           /\ SessionLeaseInv' /\ LifecycleInv' /\ BootInv'
PROOF
  <1> DEFINE q == queue'
             n == Len(queue)
  <1>1. /\ ids' = ids + 1 /\ e.id = ids + 1
        /\ session'.generation = session.generation + 1 /\ session'.latest = e.id
        /\ session'.state = "transitioning"
        /\ session' \in SessionState
        /\ q \in Seq(Transitions) /\ q # <<>> /\ Len(q) = n + 1 /\ q[n + 1] = e
        /\ \A i \in 1 .. n : q[i] = queue[i]
        /\ queue # <<>> => Head(q) = Head(queue) /\ stage' = stage /\ starting' = starting
        /\ queue = <<>> => /\ Head(q) = e /\ stage'.at = "starting" /\ stage'.writes = 0
                           /\ starting' = starting \cup {e}
        /\ stage' \in StageState
        /\ UNCHANGED <<account, lifecycle>>
    BY EnqueueEffect
  <1>2. n \in Nat /\ ids \in Nat /\ starting \subseteq Transitions
    BY TypeParts DEF IInv, QueueTyped
  <1>3. StoreTyped'
    BY TypeParts DEF IInv, StoreTyped, GoodStore, storageVars
  <1>4. QueueTyped' /\ GateTyped'
    BY <1>1, <1>2, TypeParts DEF IInv, QueueTyped, GateTyped
  <1> HIDE DEF q, n
  <1>5. QueueInv'
    <2>1. \A i \in 1 .. n + 1 : i \in 1 .. n \/ i = n + 1
      BY <1>2
    <2>2. \A i \in 1 .. n : queue[i].id > 0 /\ queue[i].id <= ids /\ queue[i].id \in Nat
      <3>1. \A i \in 1 .. n : queue[i] \in Transitions
        BY TypeParts DEF IInv, QueueTyped, n
      <3> QED
        BY <3>1 DEF IInv, QueueInv, Transitions, n
    <2>3. \A i, j \in 1 .. n + 1 : i < j => q[i].id < q[j].id
      <3>1. ASSUME NEW i \in 1 .. n + 1, NEW j \in 1 .. n + 1, i < j
            PROVE  q[i].id < q[j].id
        <4>1. i \in 1 .. n
          BY <1>2, <3>1
        <4>2. CASE j \in 1 .. n
          BY <1>1, <4>1, <4>2 , <3>1 DEF IInv, QueueInv, n
        <4>3. CASE j = n + 1
          BY <1>1, <1>2, <2>2, <4>1, <4>3
        <4> QED
          BY <2>1, <4>2, <4>3
      <3> QED
        BY <3>1
    <2>4. \A i \in 1 .. n + 1 :
             /\ q[i].id > 0 /\ q[i].id <= ids + 1
             /\ IsActivation(q[i]) => q[i].target \in Accounts
      <3>1. \A i \in 1 .. n : IsActivation(queue[i]) => queue[i].target \in Accounts
        BY DEF IInv, QueueInv, n
      <3> QED
        BY <1>1, <1>2, <2>1, <2>2, <3>1
    <2>5. queue' = q /\ Len(q) = n + 1
      BY <1>1 DEF q
    <2> QED
      BY <1>1, <1>2, <2>3, <2>4, <2>5 DEF QueueInv
  <1>6. HookInv'
    <2>1. \A x \in starting : x.id <= ids /\ x.id \in Nat
      BY <1>2 DEF IInv, HookInv, Transitions
    <2>2. CASE queue = <<>>
      BY <1>1, <1>2, <2>1, <2>2 DEF HookInv, q
    <2>3. CASE queue # <<>>
      BY <1>1, <1>2, <2>1, <2>3 DEF IInv, HookInv, q
    <2> QED
      BY <2>2, <2>3
  <1>7. StageInv' /\ WriteInv'
    BY <1>1 DEF IInv, StageInv, WriteInv, storageVars, q
  <1>8. SessionLeaseInv'
    BY <1>1, TypeParts DEF IInv, SessionLeaseInv, SessionAsserts, storageVars, StoreTyped,
                           LeaseState, GateTyped, SessionState
  <1>9. LifecycleInv'
    BY <1>1 DEF IInv, LifecycleInv, Stale, storageVars, q
  <1>10. BootInv'
    BY DEF BootInv, workerVars
  <1> QED
    BY <1>1, <1>3, <1>4, <1>5, <1>6, <1>7, <1>8, <1>9, <1>10

\* A caller's transition other than a key rotation is queued.
LEMMA CallerStep ==
    ASSUME IInv, ~blocked, NEW e \in Transitions, RunTransition(e), boot = "ready",
           e.reason # "keyRotation", IsActivation(e) => e.target \in Accounts,
           activation' \in ActivationState,
           activation'.reason # "none" => activation'.target \in Accounts,
           UNCHANGED <<storageVars, pending, blocked, rotation, workerVars, partial>>
    PROVE  IInv'
PROOF
  <1>1. /\ StoreTyped' /\ QueueTyped' /\ stage' \in StageState /\ GateTyped'
        /\ QueueInv' /\ HookInv' /\ StageInv' /\ WriteInv'
        /\ SessionLeaseInv' /\ LifecycleInv' /\ BootInv'
    BY EnqueueKeeps
  <1>2. TypeOK'
    <2>1. CallerTyped' /\ FlagsTyped'
      BY TypeParts DEF IInv, CallerTyped, FlagsTyped, workerVars
    <2> QED
      BY <1>1, <2>1, PartsType
  <1>3. /\ session'.terminal = 0 /\ session'.state = "transitioning"
        /\ Len(queue) \in Nat /\ Len(queue') = Len(queue) + 1
        /\ queue'[Len(queue) + 1] = e
        /\ \A i \in 1 .. Len(queue) : queue'[i] = queue[i]
        /\ Head(queue') = IF queue = <<>> THEN e ELSE Head(queue)
        /\ queue # <<>> => stage' = stage
    BY EnqueueEffect, TypeParts DEF IInv, QueueTyped
  <1>4. FenceInv'
    <2>1. \A i \in 1 .. Len(queue) + 1 : i \in 1 .. Len(queue) \/ i = Len(queue) + 1
      BY <1>3
    <2>2. \A i \in 1 .. Len(queue') : queue'[i].reason # "keyRotation"
      BY <1>3, <2>1 DEF IInv, FenceInv
    <2> QED
      BY <1>3, <2>2 DEF FenceInv, FenceFollowsQueue
  <1>5. RotationInv'
    <2>1. ~Rotating'
      BY <1>3, RotatingBlocks DEF IInv, Rotating
    <2> QED
      BY <1>3, <2>1 DEF IInv, RotationInv, storageVars, workerVars
  <1> QED
    BY <1>1, <1>2, <1>4, <1>5 DEF IInv

LEMMA ActivateStep ==
    ASSUME IInv, Activate
    PROVE  IInv'
PROOF
  <1> DEFINE e == NewTransition(activation.reason, activation.target, NoServer)
  <1>1. /\ activation.reason \in {"login", "unlock"} /\ activation.target \in Accounts
        /\ activation \in ActivationState /\ ids \in Nat /\ boot = "ready"
    BY TypeParts DEF IInv, CallerTyped, QueueTyped, ActivationState, Activate, QueueInv,
                     BootInv
  <1>2. /\ ~blocked /\ RunTransition(e)
        /\ activation' = [activation EXCEPT !.id = ids + 1]
        /\ UNCHANGED <<storageVars, pending, blocked, rotation, workerVars, partial>>
    BY DEF Activate
  <1>3. /\ e.id = ids + 1 /\ e.reason = activation.reason /\ e.target = activation.target
        /\ e \in [id : Nat, reason : {activation.reason}, target : Targets, server : Places]
    BY <1>1 DEF NewTransition, Targets, Places
  <1>4. e.reason \in Reasons
    BY <1>2 DEF RunTransition
  <1>5. e \in Transitions
    BY <1>3, <1>4 DEF Transitions
  <1>6. activation' \in ActivationState /\ activation'.target \in Accounts
    BY <1>1, <1>2 DEF ActivationState
  <1> HIDE DEF e
  <1> QED
    BY <1>1, <1>2, <1>3, <1>5, <1>6, CallerStep

LEMMA RequestStep ==
    ASSUME IInv, NEW r \in Reasons, NEW a \in Targets, NEW s \in Places, Request(r, a, s)
    PROVE  IInv'
PROOF
  <1> DEFINE e == NewTransition(r, a, s)
  <1>1. /\ ~blocked /\ RunTransition(e) /\ boot = "ready"
        /\ r \notin {"login", "unlock", "keyRotation"}
        /\ activation' = NoActivation \/ activation' = activation
        /\ UNCHANGED <<storageVars, pending, blocked, rotation, workerVars, partial>>
    BY DEF Request
  <1>2. /\ e \in Transitions /\ e.reason = r
    BY TypeParts DEF IInv, QueueTyped, NewTransition, Transitions
  <1>3. /\ activation' \in ActivationState
        /\ activation'.reason # "none" => activation'.target \in Accounts
    BY <1>1, TypeParts DEF IInv, CallerTyped, QueueInv, NoActivation, ActivationState, Targets
  <1> HIDE DEF e
  <1>4. e.reason # "keyRotation" /\ ~IsActivation(e)
    BY <1>1, <1>2 DEF IsActivation
  <1> QED
    BY <1>1, <1>2, <1>3, <1>4, CallerStep

\* A key rotation commits in an unlocked session, hence on an idle queue, and blocks.
LEMMA RotationCommitsStep ==
    ASSUME IInv, RotationCommits
    PROVE  IInv'
PROOF
  <1> DEFINE e == NewTransition("keyRotation", leases[rotation.client].account, NoServer)
  <1>1. /\ rotation.at = "marked" /\ LeasesAssert(rotation.client) /\ RunTransition(e)
        /\ blocked' = TRUE /\ activation' = NoActivation /\ rotation' = NoRotation
        /\ UNCHANGED <<storageVars, pending, workerVars, partial>>
    BY DEF RotationCommits
  <1>2. session.state = "unlocked"
    BY <1>1 DEF LeasesAssert, SessionAsserts
  <1>3. /\ rotation.client \in Clients /\ pending /\ rotated = NoAccount
        /\ queue = <<>> /\ ~blocked /\ stored.open /\ boot = "ready"
    BY <1>1, <1>2 DEF IInv, RotationInv, FenceInv, FenceFollowsQueue, BootInv
  <1>4. e \in Transitions /\ e.reason = "keyRotation"
    <2>1. leases[rotation.client].account \in Targets
      BY <1>3, TypeParts DEF IInv, StoreTyped, LeaseState
    <2>2. ids + 1 \in Nat /\ "keyRotation" \in Reasons
      BY <1>1, TypeParts DEF IInv, QueueTyped, RunTransition, NewTransition
    <2> QED
      BY <2>1, <2>2 DEF NewTransition, Transitions, Places
  <1>5. /\ activation' \in ActivationState /\ activation'.reason = "none"
        /\ rotation' \in RotationState /\ rotation'.at = "idle"
    BY <1>1 DEF NoActivation, ActivationState, Targets, NoRotation, RotationState
  <1> HIDE DEF e
  <1>6. /\ StoreTyped' /\ QueueTyped' /\ stage' \in StageState /\ GateTyped'
        /\ QueueInv' /\ HookInv' /\ StageInv' /\ WriteInv'
        /\ SessionLeaseInv' /\ LifecycleInv' /\ BootInv'
    BY <1>1, <1>3, <1>4, <1>5, EnqueueKeeps DEF IsActivation
  <1>7. TypeOK'
    <2>1. CallerTyped' /\ FlagsTyped'
      BY <1>1, <1>5, TypeParts DEF IInv, CallerTyped, FlagsTyped, workerVars
    <2> QED
      BY <1>6, <2>1, PartsType
  <1>8. /\ session'.terminal = e.id /\ session'.state = "transitioning"
        /\ Len(queue') = 1 /\ Head(queue') = e /\ queue'[1] = e
        /\ stage'.at = "starting" /\ e.id # 0
    <2>1. Len(queue) = 0 /\ ids \in Nat
      BY <1>3, TypeParts DEF IInv, QueueTyped
    <2> QED
      BY <1>1, <1>3, <1>4, <2>1, EnqueueEffect
  <1>9. FenceInv'
    BY <1>1, <1>4, <1>8 DEF FenceInv, FenceFollowsQueue
  <1>10. RotationInv'
    <2>1. stored.active # NoAccount
      BY <1>3, TypeParts DEF IInv, StoreTyped, GoodStore
    <2> QED
      BY <1>1, <1>3, <1>5, <1>8, <2>1 DEF RotationInv, storageVars
  <1> QED
    BY <1>6, <1>7, <1>9, <1>10 DEF IInv

\* The start hook of a transition closes the account gate under a new generation,
\* or, for a lock or an unlock, leaves it with what storage names.
LEMMA LifecycleStartsStep ==
    ASSUME IInv, NEW e \in starting, LifecycleStarts(e)
    PROVE  IInv'
PROOF
  <1>1. /\ Recoverable(e) /\ starting' = starting \ {e}
        /\ stage' = IF HeadIs(e) /\ stage.at = "starting"
                    THEN [stage EXCEPT !.at = "acting"] ELSE stage
        /\ account' = AccountBegun(e) /\ lifecycle' = Lifecycle(e)
        /\ UNCHANGED <<storageVars, pending, queue, ids, callerVars, session, workerVars,
                       partial>>
    BY DEF LifecycleStarts
  <1>2. /\ e \in Transitions /\ e.id \in Nat /\ stage \in StageState
        /\ account \in AccountState /\ lifecycle \in LifecycleState
    BY TypeParts DEF IInv, QueueTyped, GateTyped, Transitions
  <1>3. Recovered \in SnapshotState
    <2>1. Current \in SnapshotState
      BY TypeParts DEF IInv, StoreTyped, GoodStore, Current, NoSnapshot, SnapshotState, Places,
                       Targets
    <2> QED
      BY <1>2, <2>1 DEF Recovered, AccountState
  <1>4. /\ account' \in AccountState /\ lifecycle' \in LifecycleState
        /\ account'.serverGeneration = account.serverGeneration
                                       + (IF Kind(e.reason) = "server" THEN 1 ELSE 0)
        /\ account'.accountGeneration = account.accountGeneration
                                        + (IF Kind(e.reason) = "account" THEN 1 ELSE 0)
        /\ lifecycle'.kind = Kind(e.reason)
        /\ Kind(e.reason) # "none" => lifecycle'.id = e.id
    <2>1. Kind(e.reason) \in {"none", "account", "server"}
      BY KindsOfReasons
    <2>2. account' \in AccountState
      BY <1>1, <1>2, <1>3 DEF AccountBegun, AccountState
    <2>3. lifecycle' \in LifecycleState
      BY <1>1, <1>2, <1>3, <2>1 DEF Lifecycle, NoLifecycle, LifecycleState, AccountState,
                                    SnapshotState, Places
    <2> QED
      BY <1>1, <2>2, <2>3 DEF AccountBegun, Lifecycle, NoLifecycle
  <1>5. /\ stage' \in StageState
        /\ \/ stage' = stage
           \/ /\ HeadIs(e) /\ stage.at = "starting" /\ stage'.at = "acting"
              /\ stage'.writes = stage.writes /\ stage'.ok = stage.ok
    BY <1>1, <1>2 DEF StageState
  <1>6. TypeOK'
    <2>1. StoreTyped' /\ QueueTyped' /\ CallerTyped' /\ FlagsTyped'
      BY <1>1, TypeParts DEF IInv, StoreTyped, QueueTyped, CallerTyped, FlagsTyped,
                             storageVars, callerVars, workerVars, GoodStore
    <2>2. GateTyped'
      BY <1>1, <1>4, TypeParts DEF IInv, GateTyped
    <2> QED
      BY <1>5, <2>1, <2>2, PartsType
  <1>7. QueueInv' /\ FenceInv' /\ SessionLeaseInv'
    BY <1>1 DEF IInv, QueueInv, FenceInv, FenceFollowsQueue, SessionLeaseInv, SessionAsserts,
                storageVars, callerVars
  <1>8. HookInv'
    BY <1>1, <1>5 DEF IInv, HookInv, HeadIs
  <1>9. StageInv' /\ WriteInv'
    BY <1>1, <1>5 DEF IInv, StageInv, WriteInv, HeadIs, storageVars
  <1>10. RotationInv'
    <2>1. CASE stage' = stage
      BY <1>1, <2>1 DEF IInv, RotationInv, Rotating, storageVars, callerVars, workerVars
    <2>2. CASE stage.at = "starting" /\ stage'.at = "acting" /\ stage'.writes = stage.writes
      <3>1. stage.writes = 0
        BY <2>2 DEF IInv, StageInv
      <3> QED
        BY <1>1, <2>2, <3>1 DEF IInv, RotationInv, Rotating, storageVars, callerVars,
                                workerVars
    <2> QED
      BY <1>5, <2>1, <2>2
  <1>11. LifecycleInv'
    <2>1. ASSUME stage'.at \in {"acting", "validating", "undoing"},
                 Kind(Head(queue').reason) # "none"
          PROVE  lifecycle'.kind # "none" /\ lifecycle'.id = Head(queue').id
      <3>1. CASE HeadIs(e)
        BY <1>1, <1>4, <2>1, <3>1 DEF HeadIs
      <3>2. CASE ~HeadIs(e)
        <4>1. stage' = stage /\ queue' = queue /\ queue # <<>>
          BY <1>1, <1>5, <2>1, <3>2 DEF IInv, StageInv
        <4>2. /\ lifecycle.kind # "none" /\ lifecycle.id = Head(queue).id
              /\ e.id <= Head(queue).id
          BY <2>1, <4>1 DEF IInv, LifecycleInv, HookInv
        <4>3. lifecycle.id \in Nat
          BY <1>2 DEF LifecycleState
        <4> QED
          BY <1>1, <1>2, <4>2, <4>3 DEF Recoverable
      <3> QED
        BY <3>1, <3>2
    <2>2. ASSUME NEW c \in Clients, leases'[c].kind # "none"
          PROVE  /\ leases'[c].serverGeneration <= account'.serverGeneration
                 /\ leases'[c].accountGeneration <= account'.accountGeneration
                 /\ lifecycle'.kind # "none" => Stale(c)'
      <3>1. leases' = leases /\ leases[c] \in LeaseState
        BY <1>1, TypeParts DEF IInv, StoreTyped, storageVars
      <3>2. /\ leases[c].serverGeneration \in Nat /\ leases[c].accountGeneration \in Nat
            /\ account.serverGeneration \in Nat /\ account.accountGeneration \in Nat
        BY <1>2, <3>1 DEF LeaseState, AccountState
      <3>3. /\ leases[c].serverGeneration <= account.serverGeneration
            /\ leases[c].accountGeneration <= account.accountGeneration
        BY <2>2, <3>1 DEF IInv, LifecycleInv
      <3>4. Kind(e.reason) \in {"none", "account", "server"}
        BY KindsOfReasons
      <3> QED
        BY <1>4, <3>1, <3>2, <3>3, <3>4 DEF Stale
    <2> QED
      BY <2>1, <2>2 DEF LifecycleInv
  <1>12. BootInv'
    <2>1. boot = "ready"
      BY DEF IInv, BootInv
    <2> QED
      BY <1>1, <2>1 DEF BootInv, workerVars
  <1> QED
    BY <1>6, <1>7, <1>8, <1>9, <1>10, <1>11, <1>12 DEF IInv

\* A start hook that throws fails its transition, and may leave the gate shut.
LEMMA LifecycleStartFailsStep ==
    ASSUME IInv, NEW e \in starting, LifecycleStartFails(e)
    PROVE  IInv'
PROOF
  <1>1. /\ starting' = starting \ {e}
        /\ stage' = IF HeadIs(e) /\ stage.at = "starting"
                    THEN [stage EXCEPT !.at = "failing"] ELSE stage
        /\ UNCHANGED <<storageVars, pending, queue, ids, callerVars, session, workerVars,
                       partial>>
    BY DEF LifecycleStartFails
  <1>2. \/ account' = account /\ lifecycle' = lifecycle
        \/ /\ Recoverable(e) /\ lifecycle' = NoLifecycle
           /\ account' = [account EXCEPT !.snapshot = NoSnapshot]
    BY DEF LifecycleStartFails
  <1>3. /\ e \in Transitions /\ e.id \in Nat /\ stage \in StageState
        /\ account \in AccountState /\ lifecycle \in LifecycleState
    BY TypeParts DEF IInv, QueueTyped, GateTyped, Transitions
  <1>4. /\ account' \in AccountState /\ lifecycle' \in LifecycleState
        /\ account'.serverGeneration = account.serverGeneration
        /\ account'.accountGeneration = account.accountGeneration
    <2>1. NoSnapshot \in SnapshotState /\ NoLifecycle \in LifecycleState
      BY DEF NoLifecycle, NoSnapshot, SnapshotState, LifecycleState, Places, Targets
    <2> QED
      BY <1>2, <1>3, <2>1 DEF AccountState
  <1>5. stage' \in StageState /\ (stage' = stage \/ stage'.at = "failing")
    BY <1>1, <1>3 DEF StageState
  <1>6. TypeOK'
    <2>1. StoreTyped' /\ QueueTyped' /\ CallerTyped' /\ FlagsTyped'
      BY <1>1, TypeParts DEF IInv, StoreTyped, QueueTyped, CallerTyped, FlagsTyped,
                             storageVars, callerVars, workerVars, GoodStore
    <2>2. GateTyped'
      BY <1>1, <1>4, TypeParts DEF IInv, GateTyped
    <2> QED
      BY <1>5, <2>1, <2>2, PartsType
  <1>7. QueueInv' /\ FenceInv' /\ SessionLeaseInv'
    BY <1>1 DEF IInv, QueueInv, FenceInv, FenceFollowsQueue, SessionLeaseInv, SessionAsserts,
                storageVars, callerVars
  <1>8. HookInv'
    BY <1>1, <1>5 DEF IInv, HookInv
  <1>9. StageInv' /\ WriteInv'
    BY <1>1, <1>5 DEF IInv, StageInv, WriteInv, HeadIs, storageVars
  <1>10. RotationInv'
    BY <1>1, <1>5 DEF IInv, RotationInv, Rotating, storageVars, callerVars, workerVars
  <1>11. LifecycleInv'
    <2>1. ASSUME stage'.at \in {"acting", "validating", "undoing"},
                 Kind(Head(queue').reason) # "none"
          PROVE  lifecycle'.kind # "none" /\ lifecycle'.id = Head(queue').id
      <3>1. stage' = stage /\ queue' = queue /\ queue # <<>>
        BY <1>1, <1>5, <2>1 DEF IInv, StageInv
      <3>2. /\ lifecycle.kind # "none" /\ lifecycle.id = Head(queue).id
            /\ e.id <= Head(queue).id
        BY <2>1, <3>1 DEF IInv, LifecycleInv, HookInv
      <3>3. lifecycle.id \in Nat
        BY <1>3 DEF LifecycleState
      <3> QED
        BY <1>2, <1>3, <3>1, <3>2, <3>3 DEF Recoverable
    <2>2. leases' = leases /\ (lifecycle' = lifecycle \/ lifecycle'.kind = "none")
      BY <1>1, <1>2 DEF storageVars, NoLifecycle
    <2> QED
      BY <1>4, <2>1, <2>2 DEF IInv, LifecycleInv, Stale
  <1>12. BootInv'
    <2>1. boot = "ready"
      BY DEF IInv, BootInv
    <2> QED
      BY <1>1, <2>1 DEF BootInv, workerVars
  <1> QED
    BY <1>6, <1>7, <1>8, <1>9, <1>10, <1>11, <1>12 DEF IInv

\* When the head leaves, the next transition waits for its start.
LEMMA EndKeeps ==
    ASSUME IInv, queue # <<>>, Ended, activation' = activation,
           session'.latest = session.latest
    PROVE  /\ QueueTyped' /\ stage' = NoStage /\ stage' \in StageState
           /\ QueueInv' /\ HookInv' /\ StageInv' /\ WriteInv'
           /\ \A i \in 1 .. Len(queue') : i + 1 \in 1 .. Len(queue) /\ queue'[i] = queue[i + 1]
           /\ queue' # <<>> => 2 \in 1 .. Len(queue) /\ Head(queue') = queue[2]
PROOF
  <1> DEFINE q == queue'
             n == Len(queue)
  <1>1. /\ q = Tail(queue) /\ stage' = NoStage /\ ids' = ids /\ starting' = starting
    BY DEF Ended
  <1>2. /\ n \in Nat /\ n > 0 /\ Head(queue) = queue[1] /\ q \in Seq(Transitions)
        /\ Len(q) = n - 1 /\ \A i \in 1 .. Len(q) : q[i] = queue[i + 1]
        /\ \A i \in 1 .. n : queue[i] \in Transitions
    BY <1>1, HeadFacts, TypeParts DEF IInv, QueueTyped
  <1>3. \A i \in 1 .. Len(q) : i + 1 \in 1 .. n
    BY <1>2
  <1>4. q # <<>> => Len(q) > 0 /\ Head(q) = queue[2] /\ 2 \in 1 .. n /\ q[Len(q)] = queue[n]
    <2>1. q # <<>> => Len(q) # 0
      BY <1>2, EmptySeq
    <2> QED
      BY <1>2, <2>1
  <1>5. QueueTyped' /\ stage' \in StageState
    BY <1>1, <1>2, NoStageType, TypeParts DEF IInv, QueueTyped, StageState
  <1> HIDE DEF q, n
  <1>6. QueueInv'
    <2>1. \A i, j \in 1 .. Len(q) : i < j => q[i].id < q[j].id
      BY <1>2, <1>3 DEF IInv, QueueInv, n
    <2>2. \A i \in 1 .. Len(q) :
             /\ q[i].id > 0 /\ q[i].id <= ids
             /\ IsActivation(q[i]) => q[i].target \in Accounts
      BY <1>2, <1>3 DEF IInv, QueueInv, n
    <2>3. q # <<>> => q[Len(q)].id = session'.latest
      BY <1>4 DEF IInv, QueueInv, n
    <2> QED
      BY <1>1, <2>1, <2>2, <2>3 DEF IInv, QueueInv, q
  <1>7. HookInv'
    <2>1. q # <<>> => queue[1].id < queue[2].id /\ queue[1].id \in Nat /\ queue[2].id \in Nat
      BY <1>2, <1>4 DEF IInv, QueueInv, n, Transitions
    <2>2. \A e \in starting : e.id \in Nat /\ e.id <= queue[1].id /\ e.id <= ids
      BY <1>2, TypeParts DEF IInv, HookInv, QueueTyped, Transitions
    <2> QED
      BY <1>1, <1>4, <2>1, <2>2 DEF HookInv, q
  <1>8. StageInv' /\ WriteInv'
    BY <1>1 DEF StageInv, WriteInv, NoStage
  <1> QED
    BY <1>1, <1>2, <1>3, <1>4, <1>5, <1>6, <1>7, <1>8 DEF q, n

\* ... and disturbs nothing else, unless the fences hear of a settlement.
LEMMA EndStep ==
    ASSUME IInv, stage.at # "none", Ended,
           UNCHANGED <<storageVars, pending, callerVars, session, workerVars, partial>>,
           account' \in AccountState, lifecycle' \in LifecycleState,
           account'.serverGeneration = account.serverGeneration,
           account'.accountGeneration = account.accountGeneration,
           lifecycle'.kind = "none" \/ lifecycle' = lifecycle
    PROVE  IInv'
PROOF
  <1>1. queue # <<>> /\ session.state # "unlocked" /\ boot = "ready"
    BY QueueCloses
  <1>2. /\ QueueTyped' /\ stage' = NoStage /\ stage' \in StageState
        /\ QueueInv' /\ HookInv' /\ StageInv' /\ WriteInv'
        /\ \A i \in 1 .. Len(queue') : i + 1 \in 1 .. Len(queue) /\ queue'[i] = queue[i + 1]
        /\ queue' # <<>> => 2 \in 1 .. Len(queue) /\ Head(queue') = queue[2]
    BY <1>1, EndKeeps DEF callerVars
  <1>3. TypeOK'
    <2>1. StoreTyped' /\ CallerTyped' /\ GateTyped' /\ FlagsTyped'
      BY TypeParts DEF IInv, StoreTyped, CallerTyped, GateTyped, FlagsTyped, GoodStore,
                       storageVars, callerVars, workerVars
    <2> QED
      BY <1>2, <2>1, PartsType
  <1>4. blocked => queue' = <<>>
    <2>1. blocked => Rotating
      BY <1>1 DEF IInv, FenceInv, Rotating
    <2> QED
      BY <2>1, RotatingBlocks DEF IInv, Ended
  <1>5. FenceInv' /\ SessionLeaseInv'
    BY <1>1, <1>2, <1>4 DEF IInv, FenceInv, FenceFollowsQueue, SessionLeaseInv, SessionAsserts,
                            callerVars, storageVars
  <1>6. RotationInv'
    <2>1. ~Rotating'
      <3>1. SUFFICES ASSUME queue' # <<>>, queue[2].reason = "keyRotation"
                     PROVE  FALSE
        BY <1>2 DEF Rotating
      <3> QED
        BY <1>2, <1>4, <3>1 DEF IInv, FenceInv
    <2> QED
      BY <1>2, <2>1 DEF IInv, RotationInv, storageVars, callerVars, workerVars
  <1>7. LifecycleInv'
    BY <1>2 DEF IInv, LifecycleInv, Stale, NoStage, storageVars
  <1>8. BootInv'
    BY <1>1 DEF BootInv, workerVars
  <1> QED
    BY <1>2, <1>3, <1>5, <1>6, <1>7, <1>8 DEF IInv

LEMMA SettlementFailsStep ==
    ASSUME IInv, SettlementFails
    PROVE  IInv'
  BY EndStep, TypeParts DEF SettlementFails, IInv, GateTyped, gateVars

\* A failed transition settles, or ends unheard if it is a key rotation.
LEMMA FailureSettlesStep ==
    ASSUME IInv, FailureSettles
    PROVE  IInv'
PROOF
  <1>1. /\ stage.at = "failing"
        /\ UNCHANGED <<storageVars, pending, callerVars, gateVars, workerVars, partial>>
    BY DEF FailureSettles
  <1>2. CASE Head(queue).reason = "keyRotation"
    BY <1>1, <1>2, EndStep, TypeParts DEF FailureSettles, IInv, GateTyped, gateVars
  <1>3. CASE Head(queue).reason # "keyRotation"
    <2>1. /\ UNCHANGED <<queue, starting, ids>>
          /\ stage' = [stage EXCEPT !.at = "settling", !.ok = FALSE]
      BY <1>3 DEF FailureSettles
    <2>2. stage' \in StageState /\ stage'.at = "settling"
      BY <2>1, TypeParts DEF IInv, StageState
    <2>3. TypeOK'
      <3>1. StoreTyped' /\ QueueTyped' /\ CallerTyped' /\ GateTyped' /\ FlagsTyped'
        BY <1>1, <2>1, TypeParts DEF IInv, StoreTyped, QueueTyped, CallerTyped, GateTyped,
               FlagsTyped, GoodStore, storageVars, callerVars, gateVars, workerVars
      <3> QED
        BY <2>2, <3>1, PartsType
    <2>4. QueueInv' /\ FenceInv' /\ SessionLeaseInv' /\ BootInv'
      BY <1>1, <2>1 DEF IInv, QueueInv, FenceInv, FenceFollowsQueue, SessionLeaseInv,
             SessionAsserts, BootInv, storageVars, callerVars, gateVars, workerVars
    <2>5. HookInv' /\ StageInv' /\ WriteInv' /\ LifecycleInv'
      BY <1>1, <2>1, <2>2 DEF IInv, HookInv, StageInv, WriteInv, LifecycleInv, Stale,
                              storageVars, gateVars
    <2>6. RotationInv'
      BY <1>1, <1>3, <2>1, <2>2 DEF IInv, RotationInv, Rotating, storageVars, callerVars,
                                    gateVars, workerVars
    <2> QED
      BY <2>3, <2>4, <2>5, <2>6 DEF IInv
  <1> QED
    BY <1>2, <1>3

\* The account lifecycle of the head settles with what storage names.
LEMMA LifecycleSettlesStep ==
    ASSUME IInv, LifecycleSettles
    PROVE  IInv'
PROOF
  <1>1. /\ stage.at = "settling"
        /\ UNCHANGED <<storageVars, pending, callerVars, session, workerVars, partial>>
    BY DEF LifecycleSettles
  <1>2. /\ Current \in SnapshotState /\ NoSnapshot \in SnapshotState
        /\ NoLifecycle \in LifecycleState
    BY TypeParts DEF IInv, StoreTyped, GoodStore, Current, NoSnapshot, SnapshotState, Places,
                     Targets, NoLifecycle, LifecycleState
  <1>3. /\ account' \in AccountState /\ lifecycle' \in LifecycleState
        /\ account'.serverGeneration = account.serverGeneration
        /\ account'.accountGeneration = account.accountGeneration
        /\ lifecycle'.kind = "none" \/ lifecycle' = lifecycle
    <2>1. account \in AccountState /\ lifecycle \in LifecycleState /\ NoLifecycle.kind = "none"
      BY TypeParts DEF IInv, GateTyped, NoLifecycle
    <2>2. \/ account' = account /\ lifecycle' = lifecycle
          \/ /\ lifecycle' = NoLifecycle
             /\ \E s \in {Current, NoSnapshot} : account' = [account EXCEPT !.snapshot = s]
      BY DEF LifecycleSettles
    <2> QED
      BY <1>2, <2>1, <2>2 DEF AccountState
  <1>4. CASE Ended
    BY <1>1, <1>3, <1>4, EndStep
  <1>5. CASE /\ stage' = [stage EXCEPT !.at = "publishing", !.open = stored.open]
             /\ UNCHANGED <<queue, starting, ids>>
    <2>1. /\ stage' \in StageState /\ stage'.at = "publishing" /\ stage'.open = stored.open
          /\ stage'.ok = stage.ok
      BY <1>5, TypeParts DEF IInv, StageState, StoreTyped, GoodStore
    <2>2. TypeOK'
      <3>1. StoreTyped' /\ QueueTyped' /\ CallerTyped' /\ GateTyped' /\ FlagsTyped'
        BY <1>1, <1>3, <1>5, TypeParts DEF IInv, StoreTyped, QueueTyped, CallerTyped,
               GateTyped, FlagsTyped, GoodStore, storageVars, callerVars, workerVars
      <3> QED
        BY <2>1, <3>1, PartsType
    <2>3. QueueInv' /\ FenceInv' /\ SessionLeaseInv'
      BY <1>1, <1>5 DEF IInv, QueueInv, FenceInv, FenceFollowsQueue, SessionLeaseInv,
             SessionAsserts, storageVars, callerVars, workerVars
    <2>4. HookInv' /\ WriteInv' /\ LifecycleInv'
      BY <1>1, <1>3, <1>5, <2>1 DEF IInv, HookInv, WriteInv, LifecycleInv, Stale, storageVars
    <2>5. StageInv'
      BY <1>1, <1>5, <2>1 DEF IInv, StageInv, storageVars
    <2>6. RotationInv'
      BY <1>1, <1>5, <2>1 DEF IInv, RotationInv, Rotating, storageVars, callerVars, workerVars
    <2>7. BootInv'
      BY <1>1, QueueCloses DEF BootInv, workerVars
    <2> QED
      BY <2>2, <2>3, <2>4, <2>5, <2>6, <2>7 DEF IInv
  <1> QED
    BY <1>4, <1>5 DEF LifecycleSettles

\* The session fence accepts a settlement only of the newest transition, which is
\* then the only one; a key rotation that settles is that one, and has succeeded.
LEMMA SettlementPublishedStep ==
    ASSUME IInv, SettlementPublished
    PROVE  IInv'
PROOF
  <1> DEFINE e == Head(queue)
  <1>1. /\ stage.at = "publishing" /\ Ended
        /\ session' = Published(session, e, stage.ok, stage.open)
        /\ blocked' = IF e.reason = "keyRotation" THEN FALSE ELSE blocked
        /\ partial' = (partial /\ ~stage.ok)
        /\ UNCHANGED <<storageVars, pending, activation, rotation, account, lifecycle,
                       workerVars>>
    BY DEF SettlementPublished
  <1>2. queue # <<>> /\ session.state # "unlocked" /\ boot = "ready"
    BY <1>1, QueueCloses
  <1>3. /\ session \in SessionState /\ stage.ok \in BOOLEAN /\ stage.open = stored.open
        /\ e = queue[1] /\ Len(queue) \in Nat /\ Len(queue) > 0
    BY <1>1, <1>2, TypeParts, HeadFacts DEF IInv, StageInv, GateTyped, StageState
  <1>4. e.reason = "keyRotation" <=> blocked
    BY <1>2, RotatingBlocks DEF IInv, FenceInv, Rotating
  <1>5. blocked => /\ stage.ok /\ ~pending /\ e.id = session.terminal
                   /\ Accepts(session, e, stage.ok)
    <2>1. blocked => Rotating
      BY <1>2, <1>4 DEF Rotating
    <2> QED
      BY <1>1, <2>1, RotatingBlocks DEF IInv, RotationInv, FenceInv, Accepts
  <1>6. Accepts(session, e, stage.ok) => queue' = <<>>
    <2>1. CASE blocked
      BY <1>1, <1>4, <2>1, <1>2, RotatingBlocks DEF IInv, Rotating, Ended
    <2>2. CASE ~blocked
      <3>1. SUFFICES ASSUME e.id = session.latest, queue' # <<>>
                     PROVE  FALSE
        BY <2>2 DEF Accepts, IInv, FenceInv
      <3>2. Len(queue) # 1
        <4>1. Len(queue) = 1 => Len(Tail(queue)) = 0 /\ Tail(queue) \in Seq(Transitions)
          BY <1>2, HeadFacts DEF IInv
        <4> QED
          BY <1>1, <3>1, <4>1, EmptySeq DEF Ended
      <3>3. 1 \in 1 .. Len(queue) /\ Len(queue) \in 1 .. Len(queue) /\ 1 < Len(queue)
        <4>1. \A n \in Nat : n > 0 /\ n # 1 => 1 \in 1 .. n /\ n \in 1 .. n /\ 1 < n
          OBVIOUS
        <4> QED
          BY <1>3, <3>2, <4>1
      <3>4. queue[1].id < queue[Len(queue)].id /\ queue[Len(queue)].id = session.latest
        BY <1>2, <3>3 DEF IInv, QueueInv
      <3>5. session.latest \in Nat
        BY <1>3 DEF SessionState
      <3> QED
        BY <1>3, <3>1, <3>4, <3>5
    <2> QED
      BY <2>1, <2>2
  <1>7. /\ session' \in SessionState /\ session'.latest = session.latest
        /\ session'.generation = session.generation
        /\ IF Accepts(session, e, stage.ok)
           THEN /\ session'.terminal = 0
                /\ session'.state = IF stored.open THEN "unlocked" ELSE "closed"
           ELSE session' = session
    <2>1. CASE Accepts(session, e, stage.ok)
      <3>1. session' = [session EXCEPT !.state = IF stored.open THEN "unlocked" ELSE "closed",
                                       !.terminal = 0]
        BY <1>1, <1>3, <2>1 DEF Published
      <3> QED
        BY <1>3, <2>1, <3>1 DEF SessionState
    <2>2. CASE ~Accepts(session, e, stage.ok)
      BY <1>1, <1>3, <2>2 DEF Published
    <2> QED
      BY <2>1, <2>2
  <1>8. /\ QueueTyped' /\ stage' = NoStage /\ stage' \in StageState
        /\ QueueInv' /\ HookInv' /\ StageInv' /\ WriteInv'
        /\ \A i \in 1 .. Len(queue') : i + 1 \in 1 .. Len(queue) /\ queue'[i] = queue[i + 1]
        /\ queue' # <<>> => 2 \in 1 .. Len(queue) /\ Head(queue') = queue[2]
    BY <1>1, <1>2, <1>7, EndKeeps
  <1>9. TypeOK'
    <2>1. StoreTyped' /\ CallerTyped' /\ FlagsTyped'
      BY <1>1, <1>3, TypeParts DEF IInv, StoreTyped, CallerTyped, FlagsTyped, GoodStore,
                             storageVars, workerVars
    <2>2. GateTyped'
      BY <1>1, <1>7, TypeParts DEF IInv, GateTyped
    <2> QED
      BY <1>8, <2>1, <2>2, PartsType
  <1>10. blocked' = FALSE
    BY <1>1, <1>4, TypeParts DEF IInv, CallerTyped
  <1>11. FenceInv'
    <2>1. session'.terminal = 0
      BY <1>5, <1>7 DEF IInv, FenceInv
    <2>2. \A i \in 1 .. Len(queue') : queue'[i].reason # "keyRotation"
      <3>1. CASE blocked
        BY <1>5, <1>6, <3>1
      <3>2. CASE ~blocked
        BY <1>8, <3>2 DEF IInv, FenceInv
      <3> QED
        BY <3>1, <3>2
    <2>3. session'.state = "unlocked" => stored.open /\ queue' = <<>>
      BY <1>2, <1>6, <1>7
    <2> QED
      BY <1>1, <1>10, <2>1, <2>2, <2>3 DEF FenceInv, FenceFollowsQueue, storageVars
  <1>12. SessionLeaseInv'
    <2>1. \A c \in Clients : leases[c].kind = "session" =>
             /\ leases[c].session < session.generation
             /\ leases[c].session \in Nat /\ session.generation \in Nat
      BY <1>2, <1>3, TypeParts DEF IInv, SessionLeaseInv, StoreTyped, LeaseState, SessionState
    <2> QED
      BY <1>1, <1>7, <2>1 DEF SessionLeaseInv, SessionAsserts, storageVars
  <1>13. RotationInv'
    <2>1. rotated = NoAccount
      BY <1>2, <1>5 DEF IInv, RotationInv
    <2>2. ~Rotating'
      <3>1. CASE blocked
        BY <1>5, <1>6, <3>1 DEF Rotating
      <3>2. CASE ~blocked
        BY <1>8, <3>2 DEF IInv, FenceInv, Rotating
      <3> QED
        BY <3>1, <3>2
    <2> QED
      BY <1>1, <1>10, <2>1, <2>2 DEF IInv, RotationInv, storageVars
  <1>14. LifecycleInv' /\ BootInv'
    BY <1>1, <1>2, <1>8 DEF IInv, LifecycleInv, Stale, BootInv, NoStage, storageVars,
                            workerVars
  <1> QED
    BY <1>8, <1>9, <1>11, <1>12, <1>13, <1>14 DEF IInv

\* Startup opens the gates over what storage names, once no rotation is pending.
LEMMA StartupInitializesStep ==
    ASSUME IInv, StartupInitializes
    PROVE  IInv'
PROOF
  <1>1. /\ boot = "recovering" /\ ~pending /\ boot' = "ready"
        /\ account' = [account EXCEPT !.snapshot = Current]
        /\ session' = [session EXCEPT !.state = IF stored.open THEN "unlocked" ELSE "closed"]
         /\ UNCHANGED <<storageVars, pending, queueVars, callerVars, lifecycle, restarts,
                        partial>>
    BY DEF StartupInitializes, Recovering, NeedsReset
  <1>2. /\ queue = <<>> /\ \A c \in Clients : leases[c].kind = "none"
        /\ ~blocked /\ lifecycle.kind = "none" /\ rotation.at = "idle" /\ rotated = NoAccount
    BY <1>1 DEF IInv, BootInv, RotationInv
  <1>3. /\ session' \in SessionState /\ account' \in AccountState
        /\ session'.latest = session.latest /\ session'.terminal = session.terminal
        /\ session'.state = IF stored.open THEN "unlocked" ELSE "closed"
    <2>1. Current \in SnapshotState /\ session \in SessionState /\ account \in AccountState
      BY TypeParts DEF IInv, StoreTyped, GoodStore, GateTyped, Current, NoSnapshot,
                       SnapshotState, Places, Targets
    <2> QED
      BY <1>1, <2>1 DEF SessionState, AccountState
  <1>4. TypeOK'
    <2>1. StoreTyped' /\ QueueTyped' /\ stage' \in StageState /\ CallerTyped' /\ FlagsTyped'
      BY <1>1, TypeParts DEF IInv, StoreTyped, QueueTyped, CallerTyped, FlagsTyped, GoodStore,
                             storageVars, queueVars, callerVars
    <2>2. GateTyped'
      BY <1>1, <1>3, TypeParts DEF IInv, GateTyped
    <2> QED
      BY <2>1, <2>2, PartsType
  <1>5. QueueInv' /\ HookInv' /\ StageInv' /\ WriteInv'
    BY <1>1, <1>3 DEF IInv, QueueInv, HookInv, StageInv, WriteInv, NoStage, storageVars,
                      queueVars, callerVars
  <1>6. FenceInv'
    BY <1>1, <1>2, <1>3 DEF IInv, FenceInv, FenceFollowsQueue, storageVars, queueVars,
                            callerVars
  <1>7. SessionLeaseInv' /\ RotationInv' /\ LifecycleInv' /\ BootInv'
    BY <1>1, <1>2 DEF IInv, SessionLeaseInv, SessionAsserts, RotationInv, Rotating,
           LifecycleInv, StageInv, BootInv, storageVars, queueVars, callerVars
  <1> QED
    BY <1>4, <1>5, <1>6, <1>7 DEF IInv

\* A restart forgets everything but storage, the marker and the last id.
LEMMA RestartStep ==
    ASSUME IInv, Restart
    PROVE  IInv'
PROOF
  <1>1. PICK o \in {stored.open, FALSE} : stored' = [stored EXCEPT !.open = o]
    BY DEF Restart
  <1>2. /\ restarts' = restarts + 1 /\ queue' = <<>> /\ stage' = NoStage /\ starting' = {}
        /\ activation' = NoActivation /\ blocked' = FALSE /\ rotation' = NoRotation
        /\ session' = NewSession /\ account' = NewAccount /\ lifecycle' = NoLifecycle
        /\ leases' = NoLeases /\ boot' = "recovering" /\ partial' = FALSE
        /\ UNCHANGED <<pending, ids, rotated>>
    BY DEF Restart
  <1>3. /\ GoodStore(stored') /\ stored'.accounts = stored.accounts
        /\ stored'.active = stored.active
    BY <1>1, TypeParts DEF IInv, StoreTyped, GoodStore
  <1>4. \A c \in Clients : leases'[c].kind = "none" /\ leases'[c] \in LeaseState
    BY <1>2, NoLeaseType DEF NoLeases, NoLease
  <1>5. TypeOK'
    <2>1. StoreTyped'
      BY <1>2, <1>3, NoLeaseType, TypeParts DEF IInv, StoreTyped, NoLeases
    <2>2. QueueTyped' /\ stage' \in StageState /\ FlagsTyped'
      <3>1. <<>> \in Seq(Transitions)
        BY EmptySeq
      <3>2. ids \in Nat /\ restarts \in Nat /\ pending \in BOOLEAN
        BY TypeParts DEF IInv, QueueTyped, FlagsTyped
      <3>3. QueueTyped' /\ FlagsTyped'
        <4>1. queue' \in Seq(Transitions) /\ starting' \subseteq Transitions /\ ids' \in Nat
          BY <1>2, <3>1, <3>2
        <4>2. FlagsTyped'
          <5>1. restarts' \in Nat
            BY <1>2, <3>2
          <5>2. pending' \in BOOLEAN /\ partial' \in BOOLEAN
            BY <1>2, <3>2
          <5> QED
            BY <1>2, <5>1, <5>2 DEF FlagsTyped
        <4> QED
          BY <4>1, <4>2 DEF QueueTyped
      <3>4. stage' \in StageState
        BY <1>2, NoStageType DEF StageState
      <3> QED
        BY <3>3, <3>4
    <2>3. CallerTyped'
      BY <1>2 DEF CallerTyped, NoActivation, ActivationState, NoRotation, RotationState,
                  Targets
    <2>4. GateTyped'
      BY <1>2 DEF GateTyped, NewSession, SessionState, NewAccount, AccountState, NoSnapshot,
                  SnapshotState, NoLifecycle, LifecycleState, Places, Targets
    <2> QED
      BY <2>1, <2>2, <2>3, <2>4, PartsType
  <1>6. QueueInv' /\ HookInv' /\ StageInv' /\ WriteInv' /\ FenceInv' /\ BootInv'
    <2>1. ids \in Nat /\ Len(<<>>) = 0
      BY TypeParts DEF IInv, QueueTyped
    <2> QED
      BY <1>2, <1>4, <2>1 DEF QueueInv, HookInv, StageInv, WriteInv, FenceInv,
             FenceFollowsQueue, BootInv, NoStage, NewSession, NoActivation, NoRotation,
             NoLifecycle
  <1>7. SessionLeaseInv' /\ LifecycleInv'
    BY <1>2, <1>4 DEF SessionLeaseInv, SessionAsserts, LifecycleInv, NoStage
  <1>8. RotationInv'
    BY <1>2, <1>3 DEF IInv, RotationInv, Rotating, NoRotation, NewSession
  <1> QED
    BY <1>5, <1>6, <1>7, <1>8 DEF IInv

\* A worker that has just started, over whatever storage holds.
LEMMA InitHolds ==
    ASSUME Init
    PROVE  IInv
PROOF
  <1>1. /\ pending = FALSE /\ ids = 0 /\ restarts = 0
        /\ rotated = NoAccount /\ partial = FALSE
        /\ queue = <<>> /\ stage = NoStage /\ starting = {}
        /\ activation = NoActivation /\ blocked = FALSE /\ rotation = NoRotation
        /\ session = NewSession /\ account = NewAccount /\ lifecycle = NoLifecycle
        /\ leases = NoLeases /\ boot = "recovering"
    BY DEF Init
  <1>2. GoodStore(stored)
    <2>1. PICK s \in Places, as \in SUBSET Accounts, a \in Targets, o \in BOOLEAN :
              /\ IF as = {} THEN a = NoAccount ELSE a \in as
              /\ o => a # NoAccount
              /\ stored = [server |-> s, accounts |-> as, active |-> a, open |-> o]
      BY DEF Init
    <2> QED
      BY <2>1 DEF GoodStore
  <1>3. \A c \in Clients : leases[c].kind = "none" /\ leases[c] \in LeaseState
    BY <1>1, NoLeaseType DEF NoLeases, NoLease
  <1>4. TypeOK
    <2>1. leases \in [Clients -> LeaseState] /\ stage \in StageState
      BY <1>1, NoLeaseType, NoStageType DEF NoLeases, StageState
    <2>2. activation \in ActivationState /\ rotation \in RotationState
      BY <1>1 DEF NoActivation, ActivationState, NoRotation, RotationState, Targets
    <2>3. /\ session \in SessionState /\ account \in AccountState
          /\ lifecycle \in LifecycleState
      BY <1>1 DEF NewSession, SessionState, NewAccount, AccountState, NoSnapshot,
                  SnapshotState, NoLifecycle, LifecycleState, Places, Targets
    <2>4. queue \in Seq(Transitions) /\ starting \subseteq Transitions
      BY <1>1, EmptySeq
    <2> QED
      BY <1>1, <1>2, <2>1, <2>2, <2>3, <2>4 DEF TypeOK, GoodStore, LeaseState, StageState,
             ActivationState, RotationState, SessionState, AccountState, SnapshotState,
             LifecycleState, Targets
  <1>5. QueueInv /\ HookInv /\ StageInv /\ WriteInv /\ FenceInv /\ BootInv
    BY <1>1, <1>3 DEF QueueInv, HookInv, StageInv, WriteInv, FenceInv,
           FenceFollowsQueue, BootInv, NoStage, NewSession, NoActivation, NoRotation,
           NoLifecycle
  <1>6. SessionLeaseInv /\ LifecycleInv /\ RotationInv
    BY <1>1, <1>3 DEF SessionLeaseInv, SessionAsserts, LifecycleInv, NoStage, RotationInv,
                      Rotating, NoRotation
  <1> QED
    BY <1>4, <1>5, <1>6 DEF IInv

-----------------------------------------------------------------------------
(* The theorems.                                                           *)

LEMMA StepKeeps ==
    ASSUME IInv, [Next]_vars
    PROVE  IInv'
PROOF
  <1>1. CASE Callers
    BY <1>1, CaptureStep, BeginAttemptStep, ActivateStep, RequestStep DEF Callers
  <1>2. CASE Hooks
    BY <1>2, LifecycleStartsStep, LifecycleStartFailsStep, ImmediateStartFailsStep DEF Hooks
  <1>3. CASE Rotation
    BY <1>3, RotationStartsStep, RotationMarksStep, RotationMarkFailsStep,
       RotationCommitsStep, RotationWithdrawsStep, RotationUnmarkedStep DEF Rotation
  <1>4. CASE HeadStep
    BY <1>4, BeginNextStep, ActionWritesStep, RotationPostsStep, MarkerClearedStep,
       ActionReturnsStep, ActionFailsStep, ActivationValidatedStep, ActivationUndoneStep,
       FailureSettlesStep, LifecycleSettlesStep, SettlementFailsStep,
       SettlementPublishedStep DEF HeadStep
  <1>5. CASE Startup
    BY <1>5, StartupResetsStep, StartupClearsMarkerStep, StartupFailsStep,
       StartupInitializesStep DEF Startup
  <1>6. CASE Restart
    BY <1>6, RestartStep
  <1>7. CASE UNCHANGED vars
    <2>1. TypeOK'
      BY <1>7 DEF IInv, TypeOK, vars, storageVars, queueVars, callerVars, gateVars, workerVars
    <2>2. QueueInv' /\ HookInv' /\ StageInv' /\ WriteInv' /\ FenceInv'
      BY <1>7 DEF IInv, QueueInv, HookInv, StageInv, WriteInv, FenceInv, FenceFollowsQueue,
                  NoStage, vars, storageVars, queueVars, callerVars, gateVars, workerVars
    <2>3. SessionLeaseInv' /\ RotationInv' /\ LifecycleInv' /\ BootInv'
      BY <1>7 DEF IInv, SessionLeaseInv, SessionAsserts, RotationInv, Rotating, LifecycleInv,
                  Stale, BootInv, vars, storageVars, queueVars, callerVars, gateVars, workerVars
    <2> QED
      BY <2>1, <2>2, <2>3 DEF IInv
  <1> QED
    BY <1>1, <1>2, <1>3, <1>4, <1>5, <1>6, <1>7 DEF Next

\* The inductive invariant of the session transitions (runSessionTransition,
\* SessionGate, AccountLeaseGate, AccountTransitionCoordinator and startup).
THEOREM SessionInvariant == Spec => []IInv
  <1>1. Init => IInv
    BY InitHolds
  <1>2. IInv /\ [Next]_vars => IInv'
    BY StepKeeps
  <1> QED
    BY <1>1, <1>2, PTL DEF Spec

\* Storage, the queue and the fences keep their types: no write of any
\* transition leaves an account active that the registry does not hold.
THEOREM SessionTypes == Spec => []TypeOK
  <1>1. IInv => TypeOK
    BY DEF IInv
  <1> QED
    BY <1>1, SessionInvariant, PTL

\* The session fence is only open over an unlocked session and an idle queue
\* (SessionGate.handleTransition).
THEOREM FenceIsQueued == Spec => []FenceFollowsQueue
  <1>1. IInv => FenceFollowsQueue
    BY DEF IInv, FenceInv
  <1> QED
    BY <1>1, SessionInvariant, PTL

\* A session lease that asserts stands for a session that has not been locked
\* since (SessionGate.capture, assert).
THEOREM SessionLeasesHold == Spec => []SessionLeasesFenced
  <1>1. IInv => SessionLeasesFenced
    BY DEF IInv, SessionLeaseInv, SessionLeasesFenced
  <1> QED
    BY <1>1, SessionInvariant, PTL

\* A replaced account key is never used again before it is erased, whatever
\* fails and however often the worker restarts (RotationPendingStore).
THEOREM RotatedStaysClosed == Spec => []RotatedNeverReused
  <1>1. IInv => RotatedNeverReused
    BY DEF IInv, RotationInv, RotatedNeverReused
  <1> QED
    BY <1>1, SessionInvariant, PTL

\* Only these steps write to storage.
LEMMA Writers ==
    ASSUME [Next]_vars, stored' # stored
    PROVE  ActionWrites \/ ActivationUndone \/ StartupResets \/ Restart
PROOF
  <1>1. ~Callers
    BY DEF Callers, Capture, BeginAttempt, Activate, Request, storageVars
  <1>2. ~Hooks
    BY DEF Hooks, LifecycleStarts, LifecycleStartFails, ImmediateStartFails, storageVars
  <1>3. ~Rotation
    BY DEF Rotation, RotationStarts, RotationMarks, RotationMarkFails, RotationCommits,
           RotationWithdraws, RotationUnmarked, storageVars
  <1>4. HeadStep => ActionWrites \/ ActivationUndone
    BY DEF HeadStep, BeginNext, RotationPosts, MarkerCleared, ActionReturns, ActionFails,
           ActivationValidated, FailureSettles, LifecycleSettles, SettlementFails,
           SettlementPublished, storageVars
  <1>5. Startup => StartupResets
    BY DEF Startup, StartupClearsMarker, StartupFails, StartupInitializes, storageVars
  <1> QED
    BY <1>1, <1>2, <1>3, <1>4, <1>5 DEF Next, vars, storageVars

\* While a committed key rotation is unresolved no step of any actor installs
\* credentials or unlocks a session (terminalSessionBlocked).
THEOREM BlockHolds == Spec => BlockedInstallsNothing
PROOF
   <1> DEFINE Shrinks == /\ stored'.accounts \subseteq stored.accounts
                         /\ stored'.open => stored.open
  <1>1. ASSUME IInv, [Next]_vars, blocked, blocked', stored' # stored
        PROVE  Shrinks
    <2>1. /\ Locked.accounts = stored.accounts /\ ~Locked.open
          /\ LoggedOut.accounts = stored.accounts /\ ~LoggedOut.open
          /\ Reset.accounts = {} /\ ~Reset.open
      BY <1>1, TypeParts DEF IInv, StoreTyped, GoodStore, Locked, LoggedOut, Reset
    <2>2. CASE ActionWrites
      <3>1. PICK s \in NextWrites(Head(queue), stage.writes) : Write(s)
        BY <2>2 DEF ActionWrites
      <3>2. Head(queue).reason = "keyRotation"
        BY <1>1, <2>2, QueueCloses DEF IInv, FenceInv, ActionWrites
      <3>3. s = LoggedOut \/ s = Reset
        BY <3>1, <3>2 DEF NextWrites
      <3> QED
        BY <2>1, <3>1, <3>3 DEF Write, StoredBecomes
    <2>3. CASE ActivationUndone
      <3>1. PICK s \in {stored, Locked, LoggedOut, Reset} : stored' = s
        BY <2>3 DEF ActivationUndone, Write, StoredBecomes
      <3> QED
        BY <2>1, <3>1
    <2>4. CASE StartupResets
      BY <2>1, <2>4 DEF StartupResets, Write, StoredBecomes
    <2>5. CASE Restart
      BY <1>1, <2>5 DEF Restart
    <2> QED
      BY <1>1, <2>2, <2>3, <2>4, <2>5, Writers
  <1>2. IInv /\ [Next]_vars => [blocked /\ blocked' => Shrinks]_vars
    BY <1>1
  <1> QED
    BY <1>2, SessionInvariant, PTL DEF Spec, BlockedInstallsNothing

\* Only these steps open the session fence.
LEMMA Openers ==
    ASSUME IInv, [Next]_vars, session' # session, session'.state = "unlocked"
    PROVE  SettlementPublished \/ StartupInitializes
PROOF
  <1>1. ASSUME NEW e, RunTransition(e)
        PROVE  FALSE
    BY <1>1 DEF RunTransition, Fenced
  <1>2. ~Callers
    BY <1>1 DEF Callers, Capture, BeginAttempt, Activate, Request, gateVars
  <1>3. ~Hooks
    BY DEF Hooks, LifecycleStarts, LifecycleStartFails, ImmediateStartFails, gateVars
  <1>4. ~Rotation
    BY <1>1 DEF Rotation, RotationStarts, RotationMarks, RotationMarkFails, RotationCommits,
                RotationWithdraws, RotationUnmarked, gateVars
  <1>5. HeadStep => SettlementPublished
    BY DEF HeadStep, BeginNext, ActionWrites, RotationPosts, MarkerCleared, ActionReturns,
           ActionFails, ActivationValidated, ActivationUndone, FailureSettles,
           LifecycleSettles, SettlementFails, gateVars
  <1>6. Startup => StartupInitializes
    BY DEF Startup, StartupResets, StartupClearsMarker, StartupFails, gateVars
  <1>7. ~Restart
    BY DEF Restart, NewSession
  <1> QED
    BY <1>2, <1>3, <1>4, <1>5, <1>6, <1>7 DEF Next, vars, gateVars

\* What a failed activation left unlocked is authorized by no activation's
\* settlement (SessionGate.handleTransition, FAIL_CLOSED_FAILURE_REASONS).
THEOREM PartialStaysClosed == Spec => PartialNotActivated
PROOF
  <1> DEFINE Opens == partial' /\ session'.state = "unlocked" /\ session.state # "unlocked"
             Other == Head(queue).reason \notin {"login", "unlock", "keyRotation"}
  <1>1. ASSUME IInv, [Next]_vars, Opens
        PROVE  Other
    <2>1. ~StartupInitializes
      BY <1>1 DEF StartupInitializes, Recovering, IInv, BootInv
    <2>2. SettlementPublished
      BY <1>1, <2>1, Openers
    <2>3. ~stage.ok /\ session' = Published(session, Head(queue), stage.ok, stage.open)
      BY <1>1, <2>2 DEF SettlementPublished
    <2>4. Accepts(session, Head(queue), stage.ok)
      BY <1>1, <2>3 DEF Published
    <2> QED
      BY <2>3, <2>4 DEF Accepts, FailClosed
  <1>2. IInv /\ [Next]_vars => [Opens => Other]_vars
    BY <1>1
  <1> QED
    BY <1>2, SessionInvariant, PTL DEF Spec, PartialNotActivated

-----------------------------------------------------------------------------
(* Without unlocks.  An unlock writes the account it read when its attempt *)
(* began, behind an account gate that a lock or an unlock does not close   *)
(* (see UnlockedNamesStorage); every other transition that changes the     *)
(* identity in storage does so behind its own closed gate.                 *)

NoUnlock == "unlock" \notin Reasons

UnlockWrites == stage.at \in {"acting", "undoing"} /\ Head(queue).reason = "unlock"

LEMMA NoUnlockWrites ==
    ASSUME NoUnlock, IInv
    PROVE  ~UnlockWrites
PROOF
  <1>1. UnlockWrites => queue # <<>>
    BY QueueCloses DEF UnlockWrites
  <1>2. queue # <<>> => Head(queue).reason \in Reasons
    BY HeadFacts DEF IInv, Transitions
  <1> QED
    BY <1>1, <1>2 DEF NoUnlock, UnlockWrites

\* Behind an open account gate an action other than an unlock writes no other
\* identity.
LEMMA QuietWrites ==
    ASSUME IInv, ~UnlockWrites, NEW s, Write(s),
           \/ /\ stage.at = "acting" /\ s \in NextWrites(Head(queue), stage.writes)
           \/ stage.at = "undoing",
           lifecycle.kind = "none"
    PROVE  SameIdentity(s)
PROOF
  <1>1. queue # <<>>
    BY QueueCloses
  <1>2. Kind(Head(queue).reason) = "none"
    BY DEF IInv, LifecycleInv
  <1>3. Head(queue).reason \in Reasons
    BY <1>1, HeadFacts DEF IInv, Transitions
  <1>4. Head(queue).reason = "lock"
    BY <1>2, <1>3, BoundAssumption, KindsOfReasons DEF UnlockWrites
  <1>5. s = Locked
    BY <1>4 DEF IInv, StageInv, IsActivation, NextWrites
  <1> QED
    BY <1>5, TypeParts DEF IInv, StoreTyped, GoodStore, Locked, SameIdentity

\* A write to storage outdates no account lease behind its gate.
LEMMA WriteNames ==
    ASSUME IInv, IdentityInv, NEW s, GoodStore(s), Write(s), UNCHANGED <<gateVars, boot>>,
           lifecycle.kind = "none" => SameIdentity(s) \/ boot # "ready"
    PROVE  IdentityInv'
PROOF
  <1>1. /\ stored' = s
        /\ \A c \in Clients : /\ leases'[c].kind = leases[c].kind
                              /\ leases[c].kind # "none" => LeaseSees(s, c)
    BY WriteEffect DEF IInv
  <1>2. ASSUME NEW c \in Clients, leases'[c].kind # "none", leases'[c].moved
        PROVE  Stale(c)'
    <2>1. leases[c].kind # "none" /\ LeaseSees(s, c) /\ boot = "ready"
      BY <1>1, <1>2 DEF IInv, BootInv
    <2>2. Stale(c)
      BY <1>2, <2>1 DEF IInv, LifecycleInv, IdentityInv, LeaseSees
    <2> QED
      BY <2>1, <2>2 DEF Stale, LeaseSees, gateVars
  <1>3. GateNamesStorage'
    <2>1. SUFFICES ASSUME boot = "ready", GateOpen
                   PROVE  account.snapshot = Current'
      BY DEF GateNamesStorage, GateOpen, gateVars
    <2>2. SameIdentity(s) /\ account.snapshot = Current
      BY <2>1 DEF GateOpen, IdentityInv, GateNamesStorage
    <2> QED
      BY <1>1, <2>2 DEF Current, SameIdentity
  <1> QED
    BY <1>2, <1>3 DEF IdentityInv

LEMMA IdentityKeeps ==
    ASSUME IInv, IdentityInv, ~UnlockWrites, [Next]_vars
    PROVE  IdentityInv'
PROOF
  <1>1. CASE ActionWrites
    <2>1. PICK s \in NextWrites(Head(queue), stage.writes) : Write(s)
      BY <1>1 DEF ActionWrites
    <2>2. stage.at = "acting" /\ UNCHANGED <<gateVars, boot>>
      BY <1>1 DEF ActionWrites, workerVars
    <2>3. GoodStore(s)
      BY <2>2, QueueCloses, NextWritesGood DEF IInv
    <2>4. lifecycle.kind = "none" => SameIdentity(s)
      BY <2>1, <2>2, QuietWrites
    <2> QED
      BY <2>1, <2>2, <2>3, <2>4, WriteNames
  <1>2. CASE ActivationUndone
    <2>1. PICK s \in {stored, Locked, LoggedOut, Reset} : Write(s)
      BY <1>2 DEF ActivationUndone
    <2>2. stage.at = "undoing" /\ UNCHANGED <<gateVars, boot>>
      BY <1>2 DEF ActivationUndone, workerVars
    <2>3. GoodStore(s)
      BY TypeParts DEF IInv, StoreTyped, GoodStore, Locked, LoggedOut, Reset, Targets
    <2>4. lifecycle.kind = "none" => SameIdentity(s)
      BY <2>1, <2>2, QuietWrites
    <2> QED
      BY <2>1, <2>2, <2>3, <2>4, WriteNames
  <1>3. CASE StartupResets
    <2>1. PICK s \in {LoggedOut, Reset} : Write(s)
      BY <1>3 DEF StartupResets
    <2>2. boot # "ready" /\ UNCHANGED <<gateVars, boot>>
      BY <1>3 DEF StartupResets, Recovering, workerVars
    <2>3. GoodStore(s)
      BY TypeParts DEF IInv, StoreTyped, GoodStore, LoggedOut, Reset, Targets
    <2> QED
      BY <2>1, <2>2, <2>3, WriteNames
  <1>4. CASE Restart \/ StartupFails \/ StartupInitializes
    <2>1. boot # "ready" \/ Restart
      BY <1>4 DEF StartupFails, StartupInitializes, Recovering
    <2>2. \A c \in Clients : leases'[c].kind = "none"
      BY <1>4, <2>1 DEF IInv, BootInv, Restart, StartupFails, StartupInitializes, storageVars,
                        NoLeases, NoLease
    <2>3. GateNamesStorage'
      <3>1. account \in AccountState
        BY TypeParts DEF IInv, GateTyped
      <3>2. StartupInitializes => account'.snapshot = Current
        BY <3>1 DEF StartupInitializes, AccountState
      <3>3. StartupInitializes => Current' = Current
        BY DEF StartupInitializes, Current, storageVars
      <3> QED
        BY <1>4, <3>2, <3>3 DEF GateNamesStorage, Restart, StartupFails
    <2> QED
      BY <2>2, <2>3 DEF IdentityInv
  <1>5. ASSUME NEW c \in Clients, NEW k \in {"account", "session"}, Capture(c, k)
        PROVE  IdentityInv'
    <2>1. /\ leases'[c].moved = FALSE
          /\ \A d \in Clients : d # c => leases'[d] = leases[d]
          /\ UNCHANGED <<stored, account, lifecycle, boot>>
      BY <1>5, TypeParts DEF IInv, StoreTyped, Capture, gateVars, workerVars
    <2> QED
      BY <2>1 DEF IdentityInv, Stale, GateNamesStorage, GateOpen, Current
  <1>6. ASSUME UNCHANGED <<storageVars, boot>>,
               account'.serverGeneration >= account.serverGeneration,
               account'.accountGeneration >= account.accountGeneration,
               account'.serverGeneration \in Nat, account'.accountGeneration \in Nat,
               GateOpen' => account'.snapshot = Current \/ (GateOpen /\ account' = account)
                            \/ (GateOpen /\ account'.snapshot = account.snapshot)
        PROVE  IdentityInv'
    <2>1. ASSUME NEW c \in Clients, leases[c].kind # "none", leases[c].moved
          PROVE  Stale(c)'
      <3>1. /\ leases[c].serverGeneration \in Nat /\ leases[c].accountGeneration \in Nat
            /\ account.serverGeneration \in Nat /\ account.accountGeneration \in Nat
        BY TypeParts DEF IInv, StoreTyped, LeaseState, GateTyped, AccountState
      <3>2. Stale(c) /\ leases' = leases
        BY <1>6, <2>1 DEF IdentityInv, storageVars
      <3> QED
        BY <1>6, <3>1, <3>2 DEF Stale
    <2>2. GateNamesStorage'
      BY <1>6 DEF IdentityInv, GateNamesStorage, Current, storageVars
    <2> QED
      BY <1>6, <2>1, <2>2 DEF IdentityInv, storageVars
  <1>7. account \in AccountState /\ account.serverGeneration \in Nat
        /\ account.accountGeneration \in Nat
    BY TypeParts DEF IInv, GateTyped, AccountState
  <1>8. ASSUME NEW e \in starting, LifecycleStarts(e)
        PROVE  IdentityInv'
    <2>1. /\ account' = AccountBegun(e) /\ lifecycle' = Lifecycle(e)
          /\ UNCHANGED <<storageVars, boot>>
      BY <1>8 DEF LifecycleStarts, workerVars
    <2>2. /\ account'.serverGeneration \in Nat /\ account'.accountGeneration \in Nat
          /\ account'.serverGeneration >= account.serverGeneration
          /\ account'.accountGeneration >= account.accountGeneration
          /\ account'.snapshot = Recovered
      BY <1>7, <2>1 DEF AccountBegun
    <2>3. GateOpen' => account'.snapshot = Current
                       \/ (GateOpen /\ account'.snapshot = account.snapshot)
      BY <2>2 DEF GateOpen, Recovered
    <2> QED
      BY <1>6, <2>1, <2>2, <2>3
  <1>9. ASSUME NEW e \in starting, LifecycleStartFails(e)
        PROVE  IdentityInv'
    <2>1. /\ UNCHANGED <<storageVars, boot>>
          /\ \/ account' = account /\ lifecycle' = lifecycle
             \/ account' = [account EXCEPT !.snapshot = NoSnapshot]
      BY <1>9 DEF LifecycleStartFails, workerVars
    <2>2. /\ account'.serverGeneration = account.serverGeneration
          /\ account'.accountGeneration = account.accountGeneration
          /\ account'.snapshot = NoSnapshot \/ (account' = account /\ lifecycle' = lifecycle)
      BY <1>7, <2>1 DEF AccountState
    <2>3. GateOpen' => GateOpen /\ account' = account
      BY <2>2 DEF GateOpen
    <2> QED
      BY <1>6, <1>7, <2>1, <2>2, <2>3
  <1>10. CASE LifecycleSettles
    <2>1. /\ UNCHANGED <<storageVars, boot>>
          /\ \/ account' = account /\ lifecycle' = lifecycle
             \/ \E s \in {Current, NoSnapshot} : account' = [account EXCEPT !.snapshot = s]
      BY <1>10 DEF LifecycleSettles, workerVars
    <2>2. /\ account'.serverGeneration = account.serverGeneration
          /\ account'.accountGeneration = account.accountGeneration
          /\ \/ account'.snapshot \in {Current, NoSnapshot}
             \/ account' = account /\ lifecycle' = lifecycle
      BY <1>7, <2>1 DEF AccountState
    <2>3. GateOpen' => account'.snapshot = Current \/ (GateOpen /\ account' = account)
      BY <2>2 DEF GateOpen
    <2> QED
      BY <1>6, <1>7, <2>1, <2>2, <2>3
  <1>11. CASE UNCHANGED <<stored, leases, account, lifecycle, boot>>
    BY <1>11 DEF IdentityInv, Stale, GateNamesStorage, GateOpen, Current
  <1>12. CASE Callers
    BY <1>5, <1>11, <1>12 DEF Callers, BeginAttempt, Activate, Request, RunTransition,
                              storageVars, gateVars, workerVars
  <1>13. CASE Hooks
    BY <1>8, <1>9, <1>11, <1>13 DEF Hooks, ImmediateStartFails, storageVars, gateVars,
                                    workerVars
  <1>14. CASE Rotation
    BY <1>11, <1>14 DEF Rotation, RotationStarts, RotationMarks, RotationMarkFails,
           RotationCommits, RotationWithdraws, RotationUnmarked, RunTransition,
           storageVars, gateVars, workerVars
  <1>15. CASE HeadStep
    BY <1>1, <1>2, <1>10, <1>11, <1>15 DEF HeadStep, BeginNext, RotationPosts, MarkerCleared,
           ActionReturns, ActionFails, ActivationValidated, FailureSettles, SettlementFails,
           SettlementPublished, storageVars, gateVars, workerVars
  <1>16. CASE Startup
    BY <1>3, <1>4, <1>11, <1>16 DEF Startup, StartupClearsMarker, storageVars, gateVars,
                                    workerVars
  <1> QED
    BY <1>4, <1>11, <1>12, <1>13, <1>14, <1>15, <1>16 DEF Next, vars, storageVars, gateVars,
           workerVars

\* Of all the steps of all the actors only a write of an unlock, or of its
\* rollback, can make an account lease or the account gate name an identity that
\* storage no longer names (unlock, commitUnlockedLogin).
THEOREM OnlyUnlocksMislead == Spec => [][IdentityInv /\ ~IdentityInv' => UnlockWrites]_vars
PROOF
  <1>1. IInv /\ [Next]_vars => [IdentityInv /\ ~IdentityInv' => UnlockWrites]_vars
    BY IdentityKeeps
  <1> QED
    BY <1>1, SessionInvariant, PTL DEF Spec

\* Without unlocks, then, they never do.
LEMMA IdentityInvariant ==
    ASSUME NoUnlock
    PROVE  Spec => []IdentityInv
PROOF
  <1>1. Init => IdentityInv
    BY DEF Init, IdentityInv, GateNamesStorage, NoLeases, NoLease
  <1>2. IInv /\ IdentityInv /\ [Next]_vars => IdentityInv'
    BY IdentityKeeps, NoUnlockWrites
  <1> QED
    BY <1>1, <1>2, SessionInvariant, PTL DEF Spec

\* Without unlocks an account lease that asserts proves that storage has named
\* its server and account since it was captured (AccountLeaseGate.assert).
THEOREM AccountLeasesHold == NoUnlock => (Spec => []AccountLeasesFenced)
PROOF
  <1> SUFFICES ASSUME NoUnlock PROVE Spec => []AccountLeasesFenced
    OBVIOUS
  <1>1. IInv /\ IdentityInv => AccountLeasesFenced
    <2>1. SUFFICES ASSUME IInv, IdentityInv, NEW c \in Clients, AccountAsserts(c)
                   PROVE  ~leases[c].moved
      BY DEF AccountLeasesFenced
    <2>2. /\ leases[c].serverGeneration \in Nat /\ leases[c].accountGeneration \in Nat
      BY <2>1, TypeParts DEF IInv, StoreTyped, LeaseState
    <2> QED
      BY <2>1, <2>2 DEF IdentityInv, AccountAsserts, Stale
  <1> QED
    BY <1>1, SessionInvariant, IdentityInvariant, PTL

\* Without unlocks an open account gate names the identity of storage
\* (AccountTransitionCoordinator).
THEOREM GateNames == NoUnlock => (Spec => []GateNamesStorage)
PROOF
  <1> SUFFICES ASSUME NoUnlock PROVE Spec => []GateNamesStorage
    OBVIOUS
  <1>1. IdentityInv => GateNamesStorage
    BY DEF IdentityInv
  <1> QED
    BY <1>1, IdentityInvariant, PTL

=============================================================================
