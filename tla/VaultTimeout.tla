---------------------------- MODULE VaultTimeout ----------------------------
(***************************************************************************)
(* The vault timeout of one extension worker: VaultTimeoutController       *)
(* (background/vault-timeout-controller.ts), the release gate that hands   *)
(* out secrets (background/vault-release-gate.ts), and the queue of        *)
(* session transitions they are wired to in background/index.ts: a         *)
(* transition suspends the controller when it is requested and awaits it   *)
(* when it settles, and an expired run locks the vault by a transition of  *)
(* its own.                                                                *)
(*                                                                         *)
(* A step is one synchronous run of the worker, from one await to the      *)
(* next.  There are two clocks: the wall clock, which the user may set     *)
(* back, and the monotonic clock, which starts anew with the worker.       *)
(***************************************************************************)
EXTENDS Naturals, Sequences

CONSTANTS
    Clients,         \* requests that record activity and release a secret
    Nobody,          \* no client
    Never,           \* no timeout
    Timeouts,        \* the timeouts that settings and policy may select
    MaxTime,         \* bound: both clocks
    MaxUnlocks,      \* bound: session bindings
    MaxLocks,        \* bound: lock requests
    MaxChanges,      \* bound: changes of the timeout setting
    MaxRollbacks,    \* bound: times the wall clock is set back
    MaxRestarts,     \* bound: restarts of the worker
    MaxFaults,       \* bound: refused storage writes and failed actions
    MaxDisturbances, \* bound: all of the five above together
    MaxPause         \* bound: the time one operation of the controller takes

ASSUME NoneAssumption == Nobody \notin Clients /\ Never \notin Nat

ASSUME BoundAssumption ==
    /\ Timeouts \subseteq Nat \cup {Never}
    /\ {MaxTime, MaxUnlocks, MaxLocks, MaxChanges, MaxRollbacks, MaxRestarts, MaxFaults,
      MaxDisturbances, MaxPause}
         \subseteq Nat

VARIABLES
    wall, mono,   \* Date.now and performance.now
    timeout,      \* the effective setting
    stale,        \* is a reconfiguration after a change of it still due
    session,      \* is the vault unlocked, and under which session binding
    activity,     \* the stored activity record
    recovery,     \* the stored reset-all marker
    ctl,          \* VaultTimeoutController: phase, generation, run, target
    op,           \* the operation that holds the controller's serializer
    alarm,        \* when the browser will fire the timeout alarm
    actions,      \* actionTail: the bindings to lock, in order
    act,          \* the terminal action under way
    queue, stage, \* the transition queue and the stage of its head
    gate,         \* SessionGate
    clients,
    boot,
    used,         \* how often each bounded event, and a new session, has happened
    idle, high    \* ghosts: time since the last activity; latest release

clockVars == <<wall, mono, idle, high>>
settingVars == <<timeout, stale>>
storageVars == <<session, activity, recovery>>
ctlVars == <<ctl, alarm>>
actionVars == <<actions, act>>
queueVars == <<queue, stage, gate>>
vars == <<clockVars, settingVars, storageVars, ctlVars, op, actionVars, queueVars, clients, boot,
          used>>

-----------------------------------------------------------------------------
Times == Nat \cup {Never}

NoRun == [generation |-> 0, binding |-> 0, timeout |-> Never, active |-> 0, seen |-> 0,
          deadline |-> Never, monoDeadline |-> Never, expired |-> FALSE]
NoOp == [kind |-> "none", at |-> "none", client |-> Nobody, generation |-> 0, binding |-> 0,
         timeout |-> Never, now |-> 0, mono |-> 0, flag |-> FALSE]
NoStage == [at |-> "none", ok |-> FALSE, open |-> FALSE, threw |-> FALSE]
NoActivity == [binding |-> 0, active |-> 0, seen |-> 0]
IdleClient == [pc |-> "idle", generation |-> 0, binding |-> 0, session |-> 0,
               deadline |-> Never]

TypeOK ==
    /\ wall \in Nat /\ mono \in Nat /\ idle \in Nat /\ high \in Nat
    /\ timeout \in Timeouts /\ stale \in BOOLEAN /\ recovery \in BOOLEAN
    /\ session \in [open : BOOLEAN, binding : Nat]
    /\ session.open <=> session.binding # 0
    /\ activity \in [binding : Nat, active : Nat, seen : Nat]
    /\ activity.active <= activity.seen
    /\ ctl.phase \in {"uninitialized", "ready", "transitioning", "failed"}
    /\ ctl.generation \in Nat /\ ctl.target \in Nat
    /\ ctl.run \in [generation : Nat, binding : Nat, timeout : Times, active : Nat,
                    seen : Nat, deadline : Times, monoDeadline : Times, expired : BOOLEAN]
    /\ ctl.run # NoRun => ctl.run.generation = ctl.generation
    /\ op.kind \in {"none", "initialize", "settle", "reconfigure", "checkpoint",
                    "activity", "alarm"}
    /\ op.at \in {"none", "reading", "seeding", "observing", "running", "ending"}
    /\ alarm \in Times /\ actions \in Seq(Nat)
    /\ act.at \in {"idle", "armed", "applying", "locking", "applied"}
    /\ act.armed \in BOOLEAN /\ act.ok \in BOOLEAN /\ act.sticky \in BOOLEAN
    /\ act.at = "idle" \/ actions # <<>>
    /\ queue \in Seq([reason : {"unlock", "lock"}, by : {"user", "timeout"}])
    /\ stage.at \in {"none", "acting", "settling", "reconciling", "awaiting", "publishing"}
    /\ gate \in [generation : Nat, open : BOOLEAN]
    /\ \A c \in Clients : clients[c].pc \in {"idle", "captured", "checking", "proved",
                                             "released"}
    /\ boot \in {"starting", "hydrating", "ready", "failed"}

Init ==
    /\ wall = 0 /\ mono = 0 /\ idle = 0 /\ high = 0
    /\ timeout \in Timeouts /\ stale = FALSE
    /\ session = [open |-> FALSE, binding |-> 0] /\ activity = NoActivity /\ recovery = FALSE
    /\ ctl = [phase |-> "uninitialized", generation |-> 0, run |-> NoRun, target |-> 0]
    /\ op = NoOp /\ alarm = Never /\ actions = <<>>
    /\ act = [at |-> "idle", armed |-> FALSE, ok |-> FALSE, sticky |-> FALSE]
    /\ queue = <<>> /\ stage = NoStage /\ gate = [generation |-> 0, open |-> FALSE]
    /\ clients = [c \in Clients |-> IdleClient]
    /\ boot = "starting"
    /\ used = [unlocks |-> 0, sessions |-> 0, locks |-> 0, changes |-> 0, rollbacks |-> 0,
               restarts |-> 0, faults |-> 0]
-----------------------------------------------------------------------------
(* Time, and the bounded events.                                           *)

Spend(what, bound) == used[what] < bound /\ used' = [used EXCEPT ![what] = @ + 1]

Disturb(what, bound) ==
    /\ used.locks + used.changes + used.rollbacks + used.restarts + used.faults < MaxDisturbances
    /\ Spend(what, bound)

Tick ==
    /\ wall < MaxTime /\ mono < MaxTime /\ (op = NoOp \/ mono < op.mono + MaxPause)
    /\ wall' = wall + 1 /\ mono' = mono + 1 /\ idle' = idle + 1
    /\ UNCHANGED <<high, settingVars, storageVars, ctlVars, op, actionVars, queueVars, clients,
                   boot, used>>

Rollback ==
    /\ wall > 0 /\ wall' = wall - 1
    /\ Disturb("rollbacks", MaxRollbacks)
    /\ UNCHANGED <<mono, idle, high, settingVars, storageVars, ctlVars, op, actionVars, queueVars,
                   clients, boot>>

-----------------------------------------------------------------------------
(* The run: one hydrated deadline of one session binding.                  *)

Run == ctl.run

After(t, timeoutMs) == IF timeoutMs = Never THEN Never ELSE t + timeoutMs
Reached(deadline, t) == deadline # Never /\ t >= deadline

(* Mutant of Due: a wall clock that went back goes unnoticed.              *)
DueUnlessSetBack(run) == Reached(run.deadline, wall) \/ Reached(run.monoDeadline, mono)

(* observeAndExpireIfDue: the wall clock went back, or a deadline is over. *)
Due(run) ==
    wall < run.seen \/ Reached(run.deadline, wall) \/ Reached(run.monoDeadline, mono)

Alive == Run # NoRun /\ ~Run.expired
Serving == ctl.phase = "ready" /\ Alive
Free == op = NoOp

(* expire, when condition holds: the run ends and its action is queued.    *)
ExpireIf(condition, run) ==
    IF condition /\ run # NoRun /\ ~run.expired
    THEN /\ ctl' = [ctl EXCEPT !.run = [run EXCEPT !.expired = TRUE]]
         /\ actions' = Append(actions, run.binding)
    ELSE /\ ctl' = [ctl EXCEPT !.run = run]
         /\ UNCHANGED actions

(* enterFailedState and finishFailClosed; a settlement inside a terminal   *)
(* action does not queue another one.                                      *)
FailClosed(target, queued) ==
    /\ ctl' = [ctl EXCEPT !.phase = "failed", !.generation = @ + 1, !.run = NoRun]
    /\ actions' = IF queued THEN Append(actions, target) ELSE actions

Executing == act.at \in {"applying", "locking"}

-----------------------------------------------------------------------------
(* Session transitions (runSessionTransition), as the controller sees them. *)

(* Mutant of Transition: the session gate stays open until the settlement. *)
TransitionGateOpen(reason, by) ==
    /\ queue' = Append(queue, [reason |-> reason, by |-> by])
    /\ gate' = [gate EXCEPT !.generation = @ + 1]
    /\ stage' = IF queue = <<>> THEN [NoStage EXCEPT !.at = "acting"] ELSE stage

Transition(reason, by) ==
    /\ queue' = Append(queue, [reason |-> reason, by |-> by])
    /\ gate' = [generation |-> gate.generation + 1, open |-> FALSE]
    /\ stage' = IF queue = <<>> THEN [NoStage EXCEPT !.at = "acting"] ELSE stage

(* Mutant of Suspended: the run outlives its generation.                   *)
SuspendedWithRun ==
    /\ ctl' = [ctl EXCEPT !.phase = "transitioning", !.generation = @ + 1]
    /\ alarm' = Never

(* transitionStarted, in the synchronous part of the request.              *)
Suspended ==
    /\ ctl' = [ctl EXCEPT !.phase = "transitioning", !.generation = @ + 1, !.run = NoRun]
    /\ alarm' = Never

RequestUnlock ==
    /\ boot = "ready" /\ Spend("unlocks", MaxUnlocks)
    /\ Transition("unlock", "user") /\ Suspended
    /\ UNCHANGED <<clockVars, settingVars, storageVars, op, actionVars, clients, boot>>

RequestLock ==
    /\ boot = "ready" /\ Disturb("locks", MaxLocks)
    /\ Transition("lock", "user") /\ Suspended
    /\ UNCHANGED <<clockVars, settingVars, storageVars, op, actionVars, clients, boot>>

TransitionActs ==
    /\ stage.at = "acting"
    /\ IF Head(queue).reason = "unlock"
       THEN /\ session' = [open |-> TRUE, binding |-> used.sessions + 1]
            /\ used' = [used EXCEPT !.sessions = @ + 1]
       ELSE /\ session' = [open |-> FALSE, binding |-> 0]
            /\ UNCHANGED used
    /\ stage' = [stage EXCEPT !.at = "settling", !.ok = TRUE]
    /\ UNCHANGED <<clockVars, settingVars, activity, recovery, ctlVars, op, actionVars, queue, gate,
                   clients, boot>>

TransitionFails ==
    /\ stage.at = "acting" /\ Disturb("faults", MaxFaults)
    /\ stage' = [stage EXCEPT !.at = "settling"]
    /\ UNCHANGED <<clockVars, settingVars, storageVars, ctlVars, op, actionVars, queue, gate,
                   clients, boot>>

(* transitionSettled, once the controller's serializer is free.            *)
SettlementStarts ==
    /\ stage.at = "settling" /\ Free
    /\ stage' = [stage EXCEPT !.at = "reconciling", !.open = session.open]
    /\ op' = [NoOp EXCEPT !.kind = "settle", !.at = "reading", !.mono = mono,
                            !.flag = stage.ok /\ session.open]
    /\ ctl' = [ctl EXCEPT !.target = 0]
    /\ UNCHANGED <<clockVars, settingVars, storageVars, alarm, actionVars, queue, gate, clients,
                   boot, used>>

(* Mutant of StageAfter: the settlement awaits every pending action.       *)
StageAfterAwaits(threw, pending) ==
    IF op.kind # "settle" THEN stage
    ELSE [stage EXCEPT !.at = IF pending = <<>> THEN "publishing" ELSE "awaiting",
                       !.threw = threw]

(* ... which then awaits the pending terminal actions, if there are any and *)
(* it does not itself settle the transition of one.                        *)
StageAfter(threw, pending) ==
    IF op.kind # "settle" THEN stage
    ELSE [stage EXCEPT !.at = IF Executing \/ pending = <<>> THEN "publishing" ELSE "awaiting",
                       !.threw = threw]

SettlementAwaited ==
    /\ stage.at = "awaiting" /\ actions = <<>>
    /\ stage' = [stage EXCEPT !.at = "publishing"]
    /\ UNCHANGED <<clockVars, settingVars, storageVars, ctlVars, op, actionVars, queue, gate,
                   clients, boot, used>>

(* The settled event reaches the session gate if the settlement did not    *)
(* throw, and the latest transition decides.                               *)
TransitionEnds ==
    /\ stage.at = "publishing"
    /\ LET e == Head(queue)
           heard == ~stage.threw /\ Len(queue) = 1 /\ (stage.ok \/ e.reason # "unlock")
       IN /\ gate' = IF heard THEN [gate EXCEPT !.open = stage.open] ELSE gate
          /\ act' = IF e.by = "timeout"
                    THEN [act EXCEPT !.at = "applied", !.ok = stage.ok /\ ~stage.threw]
                    ELSE act
    /\ queue' = Tail(queue)
    /\ stage' = IF Len(queue) > 1 THEN [NoStage EXCEPT !.at = "acting"] ELSE NoStage
    /\ UNCHANGED <<clockVars, settingVars, storageVars, ctlVars, op, actions, clients, boot, used>>

-----------------------------------------------------------------------------
(* reconcile: read the session, hydrate its activity record, start a run.  *)

OpMoves(at) == op' = [op EXCEPT !.at = at]
OpEnds == op' = NoOp

(* The session is not unlocked: there is nothing to time out.              *)
ReconcileClosed ==
    /\ op.at = "reading" /\ ~session.open
    /\ ctl' = [ctl EXCEPT !.phase = "ready", !.generation = @ + 1, !.run = NoRun, !.target = 0]
    /\ OpEnds /\ stage' = StageAfter(FALSE, actions) /\ alarm' = Never
    /\ UNCHANGED <<clockVars, settingVars, storageVars, actionVars, queue, gate, clients, boot,
                   used>>

ReconcileReads ==
    /\ op.at = "reading" /\ session.open
    /\ ctl' = [ctl EXCEPT !.target = session.binding]
    /\ op' = [op EXCEPT !.at = "seeding", !.binding = session.binding, !.timeout = timeout]
    /\ UNCHANGED <<clockVars, settingVars, storageVars, alarm, actionVars, queueVars, clients, boot, used>>

(* An unlock starts the clock; a hydrated record keeps it.                 *)
ReconcileSeeds ==
    /\ op.at = "seeding"
    /\ IF op.flag \/ activity.binding # op.binding
       THEN /\ activity' = [binding |-> op.binding, active |-> wall, seen |-> wall]
            /\ idle' = 0
            /\ high' = IF activity.binding # op.binding THEN 0 ELSE high
       ELSE UNCHANGED <<activity, idle, high>>
    /\ OpMoves("observing")
    /\ UNCHANGED <<wall, mono, settingVars, session, recovery, ctlVars, actionVars, queueVars,
                   clients, boot, used>>

ReconcileObserves ==
    /\ op.at = "observing"
    /\ activity' = IF wall >= activity.seen THEN [activity EXCEPT !.seen = wall] ELSE activity
    /\ op' = [op EXCEPT !.at = "running", !.now = wall]
    /\ UNCHANGED <<clockVars, settingVars, session, recovery, ctlVars, actionVars, queueVars,
                   clients, boot, used>>

Remaining(deadline, now) == IF deadline > now THEN deadline - now ELSE 0

NewRun ==
    LET deadline == After(activity.active, op.timeout) IN
    [generation |-> ctl.generation + 1, binding |-> op.binding, timeout |-> op.timeout,
     active |-> activity.active, seen |-> activity.seen, deadline |-> deadline,
     monoDeadline |-> IF deadline = Never THEN Never
                      ELSE mono + Remaining(deadline, op.now),
     expired |-> op.now < activity.seen \/ Reached(deadline, op.now)]

ReconcileRuns ==
    /\ op.at = "running"
    /\ ctl' = [ctl EXCEPT !.generation = @ + 1, !.run = NewRun,
                          !.phase = IF NewRun.expired THEN "ready" ELSE @]
    /\ IF NewRun.expired
       THEN actions' = Append(actions, op.binding) /\ OpEnds /\ stage' = StageAfter(FALSE, actions')
       ELSE /\ op' = [op EXCEPT !.at = "ending", !.generation = ctl.generation + 1]
            /\ UNCHANGED <<actions, stage>>
    /\ UNCHANGED <<clockVars, settingVars, storageVars, alarm, act, queue, gate, clients, boot,
                   used>>

(* The run an operation works on, unless it is no longer the current one.  *)
OpCurrent == Run # NoRun /\ Run.generation = op.generation

(* Mutant of Scheduled: the alarm is cleared after it is created.          *)
ScheduledThenCleared(deadline) == alarm' = IF ~OpCurrent THEN alarm ELSE Never

(* schedule: the alarm of a run that is still current, at its deadline.    *)
Scheduled(deadline) ==
    alarm' = IF ~OpCurrent THEN alarm ELSE IF Run.expired THEN Never ELSE deadline

(* The alarm is scheduled, and the controller serves again.                *)
ReconcileEnds ==
    /\ op.at = "ending" /\ op.kind \in {"initialize", "settle", "reconfigure"}
    /\ ctl' = [ctl EXCEPT !.phase = "ready"] /\ Scheduled(Run.deadline)
    /\ OpEnds /\ stage' = StageAfter(FALSE, actions)
    /\ UNCHANGED <<clockVars, settingVars, storageVars, actionVars, queue, gate, clients, boot,
                   used>>

(* enterFailedState: the session being reconciled, or else the run, or the *)
(* run that a reconfiguration replaces.                                    *)
FailTarget ==
    IF ctl.target # 0 THEN ctl.target ELSE IF Run # NoRun THEN Run.binding ELSE op.binding

ReconcileFails ==
    /\ op.at \in {"reading", "seeding", "observing", "ending"}
    /\ op.kind \in {"initialize", "settle", "reconfigure"}
    /\ Disturb("faults", MaxFaults)
    /\ FailClosed(FailTarget, ~(op.kind = "settle" /\ Executing))
    /\ OpEnds /\ stage' = StageAfter(TRUE, actions')
    /\ boot' = IF op.kind = "initialize" THEN "failed" ELSE boot
    /\ UNCHANGED <<clockVars, settingVars, storageVars, alarm, act, queue, gate, clients>>

(* A change of the settings or of the policy, and the reconfigure that     *)
(* follows it; a transition under way will read the new setting itself.    *)
ChangeTimeout(t) ==
    /\ boot = "ready" /\ t # timeout /\ Disturb("changes", MaxChanges)
    /\ timeout' = t /\ stale' = TRUE
    /\ UNCHANGED <<clockVars, storageVars, ctlVars, op, actionVars, queueVars, clients, boot>>

(* Mutant of Reconfigure: the phase is looked at before the serializer.    *)
ReconfigureUnserialized ==
    /\ boot = "ready" /\ stale /\ (Free \/ ctl.phase = "transitioning")
    /\ stale' = FALSE
    /\ IF ctl.phase \in {"ready", "failed"}
       THEN /\ ctl' = [ctl EXCEPT !.phase = "transitioning", !.generation = @ + 1, !.run = NoRun,
                                  !.target = 0]
            /\ op' = [NoOp EXCEPT !.kind = "reconfigure", !.at = "reading", !.mono = mono,
                                  !.binding = Run.binding]
       ELSE UNCHANGED <<ctl, op>>
    /\ UNCHANGED <<clockVars, timeout, storageVars, alarm, actionVars, queueVars, clients, boot, used>>

Reconfigure ==
    /\ boot = "ready" /\ stale /\ Free
    /\ stale' = FALSE
    /\ IF ctl.phase \in {"ready", "failed"}
       THEN /\ ctl' = [ctl EXCEPT !.phase = "transitioning", !.generation = @ + 1, !.run = NoRun,
                                  !.target = 0]
            /\ op' = [NoOp EXCEPT !.kind = "reconfigure", !.at = "reading", !.mono = mono,
                                  !.binding = Run.binding]
       ELSE UNCHANGED <<ctl, op>>
    /\ UNCHANGED <<clockVars, timeout, storageVars, alarm, actionVars, queueVars, clients, boot, used>>

(* failClosed, when the settings cannot be applied.                        *)
SettingsFail ==
    /\ boot = "ready" /\ Free /\ ctl.phase # "failed" /\ Disturb("faults", MaxFaults)
    /\ FailClosed(FailTarget, TRUE)
    /\ UNCHANGED <<clockVars, settingVars, storageVars, alarm, op, act, queueVars, clients, boot>>

-----------------------------------------------------------------------------
(* Alarms, system lock and activity.                                       *)

(* preflight of any session gate entry.                                    *)
PreflightExpires ==
    /\ boot = "ready" /\ Serving /\ Due(Run)
    /\ ExpireIf(TRUE, Run)
    /\ UNCHANGED <<clockVars, settingVars, storageVars, alarm, op, act, queueVars, clients, boot, used>>

SystemLocked ==
    /\ boot = "ready" /\ Free /\ Serving
    /\ ExpireIf(TRUE, Run)
    /\ UNCHANGED <<clockVars, settingVars, storageVars, alarm, op, act, queueVars, clients, boot, used>>

(* Mutant of Observed: what was seen is only kept in memory.               *)
ObservedInMemory == UNCHANGED activity

(* persistObservation: the wall clock as seen now becomes durable, unless  *)
(* it went back.                                                           *)
Observed ==
    activity' = IF wall >= Run.seen
                THEN [binding |-> Run.binding, active |-> Run.active, seen |-> wall]
                ELSE activity

OpOf(kind, c) ==
    [NoOp EXCEPT !.kind = kind, !.at = "ending", !.client = c, !.generation = Run.generation,
                 !.now = wall, !.mono = mono, !.flag = Run.expired \/ Due(Run)]

(* An alarm fires once; handleAlarm ignores one that is not for a run.     *)
AlarmFires ==
    /\ boot = "ready" /\ Free /\ Reached(alarm, wall)
    /\ alarm' = Never
    /\ IF ctl.phase = "ready" /\ Run.deadline # Never
       THEN /\ Observed
            /\ ExpireIf(Due(Run), Run)
            /\ op' = IF wall >= Run.seen THEN OpOf("alarm", Nobody) ELSE NoOp
       ELSE UNCHANGED <<activity, ctl, actions, op>>
    /\ UNCHANGED <<clockVars, settingVars, session, recovery, act, queueVars, clients, boot,
                   used>>

AlarmEnds ==
    /\ op.kind = "alarm"
    /\ ctl' = IF OpCurrent /\ op.now >= Run.seen THEN [ctl EXCEPT !.run.seen = op.now] ELSE ctl
    /\ IF op.flag THEN UNCHANGED alarm ELSE Scheduled(Run.deadline)
    /\ OpEnds
    /\ UNCHANGED <<clockVars, settingVars, storageVars, actionVars, queueVars, clients, boot,
                   used>>

LeaseCurrent(c) ==
    /\ Alive
    /\ Run.generation = clients[c].generation /\ Run.binding = clients[c].binding

RecordActivity(c) ==
    /\ boot = "ready" /\ Free /\ clients[c].pc = "captured" /\ LeaseCurrent(c)
    /\ IF Due(Run)
       THEN Observed /\ UNCHANGED idle
       ELSE /\ activity' = [binding |-> Run.binding, active |-> wall, seen |-> wall]
            /\ idle' = 0
    /\ ExpireIf(Due(Run), Run)
    /\ op' = OpOf("activity", c)
    /\ UNCHANGED <<wall, mono, high, alarm, settingVars, session, recovery, act, queueVars, clients, boot,
                   used>>

ActivityEnds ==
    /\ op.kind = "activity"
    /\ ctl' = IF ~OpCurrent THEN ctl
              ELSE IF op.flag
              THEN [ctl EXCEPT !.run.seen = IF op.now >= @ THEN op.now ELSE @]
              ELSE [ctl EXCEPT !.run.active = op.now,
                               !.run.seen = IF op.now >= @ THEN op.now ELSE @,
                               !.run.deadline = After(op.now, Run.timeout),
                               !.run.monoDeadline = After(op.mono, Run.timeout)]
    /\ IF op.flag THEN UNCHANGED alarm ELSE Scheduled(After(op.now, Run.timeout))
    /\ OpEnds
    /\ UNCHANGED <<clockVars, settingVars, storageVars, actionVars, queueVars, clients, boot, used>>

-----------------------------------------------------------------------------
(* The release of a secret: capture, durable checkpoint, final assertion.  *)

Capture(c) ==
    /\ boot = "ready" /\ clients[c].pc \in {"idle", "released"}
    /\ gate.open /\ Serving /\ ~Due(Run)
    /\ clients' = [clients EXCEPT ![c] =
         [pc |-> "captured", generation |-> Run.generation, binding |-> Run.binding,
          session |-> gate.generation, deadline |-> Never]]
    /\ UNCHANGED <<clockVars, settingVars, storageVars, ctlVars, op, actionVars, queueVars, boot, used>>

Denied(c) == clients' = [clients EXCEPT ![c] = IdleClient]

(* checkpointRelease observes the wall clock durably ...                   *)
Checkpoint(c) ==
    /\ Free /\ clients[c].pc = "captured"
    /\ IF LeaseCurrent(c)
       THEN /\ Observed
            /\ ExpireIf(Due(Run), Run)
            /\ op' = OpOf("checkpoint", c)
            /\ clients' = [clients EXCEPT ![c].pc = "checking"]
       ELSE Denied(c) /\ UNCHANGED <<activity, ctl, actions, op>>
    /\ UNCHANGED <<alarm, clockVars, settingVars, session, recovery, act, queueVars, boot, used>>

(* Mutant of LateInCheckpoint: the clocks as sampled before the write.     *)
LateBeforeCheckpoint == Reached(Run.deadline, op.now) \/ Reached(Run.monoDeadline, op.mono)

(* ... and checks both clocks again once that is on disk.                  *)
LateInCheckpoint ==
    wall < op.now \/ Reached(Run.deadline, wall) \/ Reached(Run.monoDeadline, mono)

CheckpointEnds ==
    /\ op.kind = "checkpoint"
    /\ IF OpCurrent /\ ~op.flag /\ ~LateInCheckpoint
       THEN /\ clients' = [clients EXCEPT ![op.client].pc = "proved",
                                          ![op.client].deadline = Run.monoDeadline]
            /\ ctl' = [ctl EXCEPT !.run.seen = IF op.now >= @ THEN op.now ELSE @]
            /\ high' = IF op.now > high THEN op.now ELSE high
            /\ UNCHANGED actions
       ELSE Denied(op.client) /\ ExpireIf(OpCurrent, Run) /\ UNCHANGED high
    /\ OpEnds
    /\ UNCHANGED <<wall, mono, idle, settingVars, storageVars, alarm, act, queueVars, boot, used>>

(* A refused write of an observation or of activity ends the run.          *)
ObservationFails ==
    /\ op.kind \in {"checkpoint", "activity", "alarm"} /\ Disturb("faults", MaxFaults)
    /\ ExpireIf(OpCurrent, Run)
    /\ IF op.kind = "checkpoint" THEN Denied(op.client) ELSE UNCHANGED clients
    /\ OpEnds
    /\ UNCHANGED <<clockVars, settingVars, storageVars, alarm, act, queueVars, boot>>

SessionHolds(c) == gate.open /\ gate.generation = clients[c].session

(* VaultReleaseGate.assert: synchronous, without sampling the wall clock.  *)
Release(c) ==
    /\ clients[c].pc = "proved"
    /\ LET late == Reached(clients[c].deadline, mono) IN
       /\ clients' = IF SessionHolds(c) /\ ctl.phase = "ready" /\ LeaseCurrent(c) /\ ~late
                     THEN [clients EXCEPT ![c].pc = "released"]
                     ELSE [clients EXCEPT ![c] = IdleClient]
       /\ ExpireIf(SessionHolds(c) /\ late, Run)
    /\ UNCHANGED <<clockVars, settingVars, storageVars, alarm, op, act, queueVars, boot, used>>

-----------------------------------------------------------------------------
(* executeTerminalAction: arm the reset-all marker, lock or log out by a   *)
(* session transition, and disarm.                                         *)

ActionArms ==
    /\ act.at = "idle" /\ actions # <<>>
    /\ recovery' = TRUE
    /\ act' = [act EXCEPT !.at = "armed", !.armed = TRUE]
    /\ UNCHANGED <<clockVars, settingVars, session, activity, ctlVars, op, actions, queueVars, clients,
                   boot, used>>

ActionArmFails ==
    /\ act.at = "idle" /\ actions # <<>> /\ Disturb("faults", MaxFaults)
    /\ act' = [act EXCEPT !.at = "armed", !.armed = FALSE]
    /\ UNCHANGED <<clockVars, settingVars, storageVars, ctlVars, op, actions, queueVars, clients, boot>>

(* Without a target only the marker remains, for the next startup.         *)
ActionApplies ==
    /\ act.at = "armed"
    /\ act' = IF Head(actions) = 0 THEN [act EXCEPT !.at = "applied", !.ok = FALSE]
              ELSE [act EXCEPT !.at = "applying"]
    /\ alarm' = Never
    /\ UNCHANGED <<clockVars, settingVars, storageVars, ctl, op, actions, queueVars, clients, boot,
                   used>>

(* applyAction of index.ts: only the session the run belonged to is locked. *)
ActionRequests ==
    /\ act.at = "applying" /\ session.binding = Head(actions)
    /\ Transition("lock", "timeout") /\ Suspended
    /\ act' = [act EXCEPT !.at = "locking"]
    /\ UNCHANGED <<clockVars, settingVars, storageVars, op, actions, clients, boot, used>>

ActionIsMoot ==
    /\ act.at = "applying" /\ session.binding # Head(actions)
    /\ act' = [act EXCEPT !.at = "applied", !.ok = TRUE]
    /\ UNCHANGED <<clockVars, settingVars, storageVars, ctlVars, op, actions, queueVars, clients, boot,
                   used>>

(* A failed action leaves the marker armed for good.                       *)
ActionEnds ==
    /\ act.at = "applied"
    /\ recovery' = IF act.ok THEN recovery /\ ~(act.armed /\ ~act.sticky) ELSE TRUE
    /\ act' = [at |-> "idle", armed |-> FALSE, ok |-> FALSE, sticky |-> act.sticky \/ ~act.ok]
    /\ actions' = Tail(actions)
    /\ UNCHANGED <<clockVars, settingVars, session, activity, ctlVars, op, queueVars, clients, boot,
                   used>>

-----------------------------------------------------------------------------
(* Startup: recoverVaultTimeoutBrowserSession, then initialize; requests   *)
(* wait for both.                                                          *)

StartupRecovers ==
    /\ boot = "starting" /\ recovery
    /\ session' = [open |-> FALSE, binding |-> 0] /\ recovery' = FALSE
    /\ UNCHANGED <<clockVars, settingVars, activity, ctlVars, op, actionVars, queueVars, clients, boot,
                   used>>

StartupInitializes ==
    /\ boot = "starting" /\ ~recovery
    /\ boot' = "hydrating"
    /\ gate' = [gate EXCEPT !.open = session.open]
    /\ op' = [NoOp EXCEPT !.kind = "initialize", !.at = "reading", !.mono = mono]
    /\ UNCHANGED <<clockVars, settingVars, storageVars, ctlVars, actionVars, queue, stage, clients,
                   used>>

StartupEnds ==
    /\ boot = "hydrating" /\ Free /\ actions = <<>>
    /\ boot' = "ready"
    /\ UNCHANGED <<clockVars, settingVars, storageVars, ctlVars, op, actionVars, queueVars, clients,
                   used>>

(* The browser stops the worker; the stored records survive.               *)
Restart ==
    /\ Disturb("restarts", MaxRestarts)
    /\ mono' = 0
    /\ ctl' = [phase |-> "uninitialized", generation |-> 0, run |-> NoRun, target |-> 0]
    /\ op' = NoOp /\ actions' = <<>>
    /\ act' = [at |-> "idle", armed |-> FALSE, ok |-> FALSE, sticky |-> FALSE]
    /\ queue' = <<>> /\ stage' = NoStage /\ gate' = [generation |-> 0, open |-> FALSE]
    /\ clients' = [c \in Clients |-> IdleClient]
    /\ boot' = "starting" /\ stale' = FALSE
    /\ UNCHANGED <<wall, idle, high, timeout, storageVars, alarm>>

-----------------------------------------------------------------------------
Clock == Tick \/ Rollback

Requests ==
    \/ RequestUnlock \/ RequestLock
    \/ \E t \in Timeouts : ChangeTimeout(t)
    \/ Reconfigure
    \/ \E c \in Clients : Capture(c) \/ RecordActivity(c) \/ Checkpoint(c)
    \/ PreflightExpires \/ SystemLocked \/ SettingsFail

Transitions ==
    TransitionActs \/ TransitionFails \/ SettlementStarts \/ SettlementAwaited \/ TransitionEnds

Operations ==
    \/ ReconcileClosed \/ ReconcileReads \/ ReconcileSeeds \/ ReconcileObserves
    \/ ReconcileRuns \/ ReconcileEnds \/ ReconcileFails
    \/ AlarmEnds \/ ActivityEnds \/ CheckpointEnds \/ ObservationFails

Actions ==
    \/ ActionArms \/ ActionArmFails \/ ActionApplies \/ ActionRequests \/ ActionIsMoot
    \/ ActionEnds

Startup == StartupRecovers \/ StartupInitializes \/ StartupEnds

Next ==
    \/ Clock \/ Requests \/ AlarmFires \/ \E c \in Clients : Release(c)
    \/ Transitions \/ Operations \/ Actions \/ Startup \/ Restart

Spec == Init /\ [][Next]_vars

(* Every promise settles, and the browser fires a due alarm.               *)
FairSpec ==
    /\ Spec
    /\ WF_vars(Transitions) /\ WF_vars(Operations) /\ WF_vars(Actions) /\ WF_vars(Startup)
    /\ WF_vars(AlarmFires)
    /\ \A c \in Clients : WF_vars(Release(c))

-----------------------------------------------------------------------------
(* Properties.                                                             *)

(* A secret leaves only from the unlocked session it was captured in       *)
(* (VaultReleaseGate.assert).  Unless the wall clock is set back, it was   *)
(* proved within the timeout of the last recorded activity, across         *)
(* restarts of the worker, changes of the setting and time that passes     *)
(* while an observation is written (checkpointRelease).                    *)
ReleasesAreProved ==
    [][\A c \in Clients :
         /\ clients[c].pc = "proved" /\ clients'[c].pc = "released"
              => session.open /\ session.binding = clients[c].binding
         /\ clients[c].pc = "checking" /\ clients'[c].pc = "proved" /\ used.rollbacks = 0
              => ~Reached(Run.timeout, idle)]_vars

(* Once a change of the setting has been applied, the run that serves      *)
(* requests counts with the new timeout (reconfigure, reconcile).          *)
EffectiveTimeout == Serving /\ Free /\ ~stale => Run.timeout = timeout

(* A secret is never proved at a wall clock behind that of an earlier      *)
(* release of the session, in this worker or the one before                *)
(* (persistObservation, reconcile).                                        *)
NeverBehindRelease ==
    [][\A c \in Clients :
         clients[c].pc = "checking" /\ clients'[c].pc = "proved" => wall >= high]_vars

(* No transition waits for a timeout action that waits for a transition    *)
(* behind it ("does not deadlock when a timeout action settles its own     *)
(* session transition", vault-timeout-controller.test.ts).                 *)
NoCircularWait == ~(stage.at = "awaiting" /\ act.at = "locking")

(* A session whose timeout is over is locked, whether or not the worker is *)
(* restarted meanwhile (schedule, handleAlarm, executeTerminalAction), and  *)
(* the transition queue drains: no settlement waits for the transition     *)
(* behind it.                                                              *)
TimeoutLocks ==
    /\ \A b \in 1..MaxUnlocks :
         (session.binding = b /\ activity.binding = b
            /\ Reached(After(activity.active, timeout), wall)) ~> session.binding # b
    /\ []<>(queue = <<>>)

=============================================================================
