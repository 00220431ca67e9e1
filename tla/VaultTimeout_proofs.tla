------------------------- MODULE VaultTimeout_proofs -------------------------
(***************************************************************************)
(* The safety of the vault timeout, for any clients, timeouts and clocks   *)
(* and any number of unlocks, locks, faults and restarts.                  *)
(***************************************************************************)
EXTENDS VaultTimeout, SequenceTheorems, TLAPS

-----------------------------------------------------------------------------
(* The inductive invariant.                                                *)

Reconciling == {"initialize", "settle", "reconfigure"}
Observing == {"checkpoint", "activity", "alarm"}
Hydrating == {"seeding", "observing", "running"}

RunRec == [generation : Nat, binding : Nat, timeout : Times, active : Nat, seen : Nat,
           deadline : Times, monoDeadline : Times, expired : BOOLEAN]
CtlRec == [phase : {"uninitialized", "ready", "transitioning", "failed"}, generation : Nat,
           run : RunRec, target : Nat]
OpRec == [kind : {"none"} \cup Reconciling \cup Observing,
          at : {"none", "reading", "ending"} \cup Hydrating, client : Clients \cup {Nobody},
          generation : Nat, binding : Nat, timeout : Times, now : Nat, mono : Nat,
          flag : BOOLEAN]
ActRec == [at : {"idle", "armed", "applying", "locking", "applied"}, armed : BOOLEAN,
           ok : BOOLEAN, sticky : BOOLEAN]
StageRec == [at : {"none", "acting", "settling", "reconciling", "awaiting", "publishing"},
             ok : BOOLEAN, open : BOOLEAN, threw : BOOLEAN]
EntryRec == [reason : {"unlock", "lock"}, by : {"user", "timeout"}]
ClientRec == [pc : {"idle", "captured", "checking", "proved", "released"}, generation : Nat,
              binding : Nat, session : Nat, deadline : Times]
UsedRec == [unlocks : Nat, sessions : Nat, locks : Nat, changes : Nat, rollbacks : Nat,
            restarts : Nat, faults : Nat]

\* Every variable is of its type.
ClockTypes == wall \in Nat /\ mono \in Nat /\ idle \in Nat /\ high \in Nat
StorageTypes ==
    /\ timeout \in Timeouts /\ stale \in BOOLEAN /\ recovery \in BOOLEAN
    /\ session \in [open : BOOLEAN, binding : Nat]
    /\ activity \in [binding : Nat, active : Nat, seen : Nat]
ControlTypes ==
    ctl \in CtlRec /\ op \in OpRec /\ alarm \in Times /\ actions \in Seq(Nat) /\ act \in ActRec
QueueTypes ==
    /\ queue \in Seq(EntryRec) /\ stage \in StageRec
    /\ gate \in [generation : Nat, open : BOOLEAN]
OtherTypes ==
    /\ clients \in [Clients -> ClientRec]
    /\ boot \in {"starting", "hydrating", "ready", "failed"} /\ used \in UsedRec

Types == ClockTypes /\ StorageTypes /\ ControlTypes /\ QueueTypes /\ OtherTypes

\* The queue has a stage while it is not empty, and one operation at a time
\* holds the serializer.
ShapeInv ==
    /\ queue = <<>> <=> stage.at = "none"
    /\ stage.at = "acting" => ~stage.ok
    /\ op = NoOp <=> op.at = "none"
    /\ op.at \in Hydrating \cup {"reading"} => op.kind \in Reconciling
    /\ op.at = "ending" => op.kind \in Reconciling \cup Observing
    /\ op.kind = "settle" <=> stage.at = "reconciling"
    /\ op.kind = "settle" /\ op.flag => stage.ok /\ session.open
    /\ op.kind \in {"initialize", "reconfigure"} => ~op.flag
    /\ boot = "starting" =>
         ctl.run = NoRun /\ op = NoOp /\ queue = <<>> /\ actions = <<>> /\ ~gate.open

\* A terminal action under way is the first of the list, and the queue holds
\* at most the one transition it waits for.
ActionInv ==
    /\ act.at = "idle" \/ actions # <<>>
    /\ \A i \in 1 .. Len(queue) : queue[i].by = "timeout" => act.at = "locking"
    /\ \A i, j \in 1 .. Len(queue) :
         queue[i].by = "timeout" /\ queue[j].by = "timeout" => i = j

\* Bindings are handed out in order, and a hydrated record names the session.
BindingInv ==
    /\ session.open <=> session.binding # 0
    /\ session.binding <= used.sessions /\ activity.binding <= used.sessions
    /\ op.at \in Hydrating => op.binding <= used.sessions
    /\ op.at \in {"observing", "running"} => activity.binding = op.binding

\* The session gate is open only for the unlocked session, and the run is of
\* that session unless a transition has just changed it.
GateInv ==
    /\ gate.open => queue = <<>> /\ session.open
    /\ stage.at \in {"reconciling", "awaiting", "publishing"} => stage.open = session.open
    /\ op.at \in Hydrating /\ stage.at # "settling" => op.binding = session.binding
    /\ Run # NoRun =>
         /\ stage.at \notin {"settling", "reconciling"} => Run.binding = session.binding
         /\ stage.at = "reconciling" /\ op.at = "ending" => Run.binding = session.binding

\* A run is of its generation, counts from the stored activity with a timeout
\* that is in force, and serves unless an operation is about to let it.
RunInv ==
    /\ op.at \in Hydrating => op.timeout = timeout \/ stale
    /\ activity.active <= activity.seen /\ Run.active <= Run.seen
    /\ Run # NoRun =>
         /\ Run.generation = ctl.generation /\ Run.generation > 0
         /\ Run.deadline = After(Run.active, Run.timeout)
         /\ Run.timeout = timeout \/ stale
         /\ ctl.phase # "ready" => op.at = "ending" /\ op.kind \in Reconciling
         /\ op.at \notin {"observing", "running"} => activity.binding = Run.binding

\* While the wall clock is not set back, no recorded activity is later than
\* the last one.
ClockInv ==
    used.rollbacks = 0 =>
      /\ activity.seen <= wall /\ activity.active + idle <= wall
      /\ Run.seen <= wall /\ Run.active + idle <= wall
      /\ op.now <= wall
      /\ op.kind = "activity" /\ ~op.flag => op.now + idle <= wall

\* A lease of the run was captured since the last transition was requested.
LeaseInv ==
    /\ \A c \in Clients :
         /\ clients[c].generation <= ctl.generation
         /\ Run # NoRun /\ Run.generation = clients[c].generation => queue = <<>>
    /\ op.kind = "checkpoint" =>
         /\ op.client \in Clients /\ clients[op.client].pc = "checking"
         /\ op.generation = clients[op.client].generation
         /\ ~op.flag => high <= op.now /\ op.now <= activity.seen

\* The wall clock of a release is on disk and in the run, unless the session
\* it served is gone.
HighInv ==
    /\ high <= activity.seen
    /\ Run # NoRun => high <= Run.seen
    /\ stage.at \in {"settling", "reconciling"} /\ stage.ok /\ session.open
         /\ activity.binding = session.binding => high = 0

IInv ==
    /\ Types /\ ShapeInv /\ ActionInv /\ BindingInv /\ GateInv /\ RunInv /\ ClockInv
    /\ LeaseInv /\ HighInv

-----------------------------------------------------------------------------
(* Lemmas about the operators of the model.                                *)

\* The records that stand for nothing, and their fields.
LEMMA NoneTypes ==
    /\ NoRun \in RunRec /\ NoOp \in OpRec /\ NoStage \in StageRec /\ IdleClient \in ClientRec
    /\ NoRun.generation = 0 /\ NoRun.binding = 0 /\ NoRun.active = 0 /\ NoRun.seen = 0
    /\ NoRun.deadline = Never /\ NoRun.expired = FALSE
    /\ NoOp.kind = "none" /\ NoOp.at = "none" /\ NoOp.now = 0 /\ NoOp.flag = FALSE
    /\ NoStage.at = "none" /\ NoStage.ok = FALSE
    /\ IdleClient.generation = 0 /\ IdleClient.pc = "idle"
  BY DEF NoRun, NoOp, NoStage, IdleClient, RunRec, OpRec, StageRec, ClientRec, Times,
         Reconciling, Observing, Hydrating

\* The types of the variables, and of the fields the invariant speaks of.
LEMMA Typed ==
    ASSUME IInv
    PROVE  /\ ctl \in CtlRec /\ op \in OpRec /\ act \in ActRec /\ stage \in StageRec
           /\ queue \in Seq(EntryRec) /\ actions \in Seq(Nat) /\ alarm \in Times
           /\ clients \in [Clients -> ClientRec] /\ used \in UsedRec
           /\ session \in [open : BOOLEAN, binding : Nat]
           /\ activity \in [binding : Nat, active : Nat, seen : Nat]
           /\ gate \in [generation : Nat, open : BOOLEAN]
           /\ timeout \in Times
  BY BoundAssumption DEF IInv, Types, ClockTypes, StorageTypes, ControlTypes, QueueTypes,
                         OtherTypes, Times

LEMMA Fields ==
    ASSUME IInv
    PROVE  /\ wall \in Nat /\ mono \in Nat /\ idle \in Nat /\ high \in Nat
           /\ session.binding \in Nat /\ session.open \in BOOLEAN /\ gate.generation \in Nat
           /\ activity.binding \in Nat /\ activity.active \in Nat /\ activity.seen \in Nat
           /\ ctl.generation \in Nat /\ ctl.target \in Nat /\ Run \in RunRec
           /\ Run.generation \in Nat /\ Run.binding \in Nat /\ Run.active \in Nat
           /\ Run.seen \in Nat /\ Run.timeout \in Times /\ Run.deadline \in Times
           /\ Run.monoDeadline \in Times /\ Run.expired \in BOOLEAN
           /\ op.generation \in Nat /\ op.binding \in Nat /\ op.now \in Nat /\ op.mono \in Nat
           /\ op.timeout \in Times /\ op.flag \in BOOLEAN
           /\ used.sessions \in Nat /\ used.rollbacks \in Nat
           /\ \A c \in Clients : clients[c].generation \in Nat
PROOF
  <1>1. wall \in Nat /\ mono \in Nat /\ idle \in Nat /\ high \in Nat
    BY DEF IInv, Types, ClockTypes
  <1>2. Run \in RunRec /\ ctl.generation \in Nat /\ ctl.target \in Nat
    BY Typed DEF Run, CtlRec
  <1> QED
    BY <1>1, <1>2, Typed DEF RunRec, OpRec, UsedRec, ClientRec

\* A queue and its tail.
LEMMA QueueTail ==
    ASSUME NEW S, NEW s \in Seq(S), s # <<>>
    PROVE  /\ Len(s) \in Nat \ {0} /\ Head(s) = s[1] /\ s[1] \in S
           /\ Tail(s) \in Seq(S) /\ Len(Tail(s)) = Len(s) - 1
           /\ \A i \in 1 .. Len(Tail(s)) : Tail(s)[i] = s[i + 1]
           /\ Tail(s) = <<>> <=> Len(s) = 1
PROOF
  <1>1. Len(s) \in Nat \ {0} /\ Head(s) = s[1] /\ s[1] \in S
    BY EmptySeq, HeadTailProperties, ElementOfSeq
  <1>2. /\ Tail(s) \in Seq(S) /\ Len(Tail(s)) = Len(s) - 1
        /\ \A i \in 1 .. Len(Tail(s)) : Tail(s)[i] = s[i + 1]
    BY HeadTailProperties
  <1> QED
    BY <1>1, <1>2, EmptySeq

\* A queue and what is appended to it.
LEMMA QueueAppend ==
    ASSUME NEW S, NEW s \in Seq(S), NEW e \in S
    PROVE  /\ Append(s, e) \in Seq(S) /\ Append(s, e) # <<>> /\ Len(s) \in Nat
           /\ Len(Append(s, e)) = Len(s) + 1
           /\ \A i \in 1 .. Len(s) : Append(s, e)[i] = s[i]
           /\ Append(s, e)[Len(s) + 1] = e
           /\ s = <<>> <=> Len(s) = 0
  BY EmptySeq, AppendProperties, LenProperties

\* One bounded event more.
LEMMA Counted ==
    ASSUME IInv, NEW bound,
           NEW w \in {"unlocks", "locks", "changes", "rollbacks", "restarts", "faults"},
           Spend(w, bound) \/ Disturb(w, bound)
    PROVE  /\ used' \in UsedRec
           /\ used'.sessions = used.sessions
           /\ used'.rollbacks = used.rollbacks + (IF w = "rollbacks" THEN 1 ELSE 0)
PROOF
  <1>1. used' = [used EXCEPT ![w] = @ + 1] /\ used \in UsedRec
    BY Typed DEF Spend, Disturb
  <1> QED
    BY <1>1 DEF UsedRec

\* What Transition does to the queue.
Queued(reason, by) ==
    /\ queue' \in Seq(EntryRec) /\ queue' # <<>> /\ Len(queue') = Len(queue) + 1
    /\ Len(queue) \in Nat /\ (queue = <<>> <=> Len(queue) = 0)
    /\ \A i \in 1 .. Len(queue) : queue'[i] = queue[i]
    /\ queue'[Len(queue) + 1].reason = reason /\ queue'[Len(queue) + 1].by = by
    /\ stage' \in StageRec
    /\ IF queue = <<>> THEN stage'.at = "acting" /\ ~stage'.ok ELSE stage' = stage
    /\ gate' \in [generation : Nat, open : BOOLEAN] /\ ~gate'.open

\* A requested transition is the last of the queue and closes the gate.
LEMMA TransitionEffect ==
    ASSUME IInv, NEW reason \in {"unlock", "lock"}, NEW by \in {"user", "timeout"},
           Transition(reason, by)
    PROVE  Queued(reason, by)
PROOF
  <1> DEFINE e == [reason |-> reason, by |-> by]
  <1>1. e \in EntryRec /\ e.reason = reason /\ e.by = by /\ queue \in Seq(EntryRec)
    BY Typed DEF EntryRec
  <1>2. queue' = Append(queue, e)
    BY DEF Transition
  <1>3. /\ stage' \in StageRec
        /\ IF queue = <<>> THEN stage'.at = "acting" /\ ~stage'.ok ELSE stage' = stage
    BY Typed, NoneTypes DEF Transition, StageRec, NoStage
  <1>4. gate' \in [generation : Nat, open : BOOLEAN] /\ ~gate'.open
    <2>1. gate' = [generation |-> gate.generation + 1, open |-> FALSE]
      BY DEF Transition
    <2> QED
      BY <2>1, Fields
  <1> HIDE DEF e
  <1> QED
    BY <1>1, <1>2, <1>3, <1>4, QueueAppend DEF Queued

\* A suspended controller has no run, and its generation is new.
LEMMA SuspendedEffect ==
    ASSUME IInv, Suspended
    PROVE  /\ ctl' \in CtlRec /\ ctl'.run = NoRun /\ ctl'.generation = ctl.generation + 1
           /\ alarm' \in Times
PROOF
  <1>1. /\ ctl' = [ctl EXCEPT !.phase = "transitioning", !.generation = @ + 1, !.run = NoRun]
        /\ alarm' = Never
    BY DEF Suspended
  <1>2. NoRun \in RunRec /\ ctl \in CtlRec /\ ctl.generation + 1 \in Nat /\ ctl.target \in Nat
    <2>1. NoRun \in RunRec /\ ctl \in CtlRec
      BY Typed, NoneTypes
    <2>2. ctl.generation \in Nat /\ ctl.target \in Nat
      BY Fields
    <2> QED
      BY <2>1, <2>2
  <1>3. ctl' = [phase |-> "transitioning", generation |-> ctl.generation + 1, run |-> NoRun,
                target |-> ctl.target]
    BY <1>1, <1>2 DEF CtlRec
  <1> QED
    BY <1>1, <1>2, <1>3 DEF CtlRec, Times

\* So has one that failed.
LEMMA FailClosedEffect ==
    ASSUME IInv, NEW target \in Nat, NEW queued \in BOOLEAN, FailClosed(target, queued)
    PROVE  /\ ctl' \in CtlRec /\ ctl'.run = NoRun /\ ctl'.generation = ctl.generation + 1
           /\ actions' \in Seq(Nat) /\ (actions # <<>> => actions' # <<>>)
PROOF
  <1>1. ctl' \in CtlRec /\ ctl'.run = NoRun /\ ctl'.generation = ctl.generation + 1
    <2>1. ctl' = [ctl EXCEPT !.phase = "failed", !.generation = @ + 1, !.run = NoRun]
      BY DEF FailClosed
    <2>2. /\ NoRun \in RunRec /\ ctl \in CtlRec
          /\ ctl.generation + 1 \in Nat /\ ctl.target \in Nat
      <3>1. NoRun \in RunRec /\ ctl \in CtlRec
        BY Typed, NoneTypes
      <3>2. ctl.generation \in Nat /\ ctl.target \in Nat
        BY Fields
      <3> QED
        BY <3>1, <3>2
    <2>3. ctl' = [phase |-> "failed", generation |-> ctl.generation + 1, run |-> NoRun,
                  target |-> ctl.target]
      BY <2>1, <2>2 DEF CtlRec
    <2> QED
      BY <2>2, <2>3 DEF CtlRec
  <1>2. actions' = Append(actions, target) \/ actions' = actions
    BY DEF FailClosed
  <1>3. Append(actions, target) \in Seq(Nat) /\ Append(actions, target) # <<>>
    <2>1. actions \in Seq(Nat)
      BY Typed
    <2> QED
      BY <2>1, QueueAppend
  <1>4. actions \in Seq(Nat)
    BY Typed
  <1> QED
    BY <1>1, <1>2, <1>3, <1>4

LEMMA FailTargetType ==
    ASSUME IInv
    PROVE  FailTarget \in Nat
  BY Fields DEF FailTarget

\* The controller keeps its run, and the run its deadline.
SameRun ==
    /\ ctl' \in CtlRec /\ ctl'.phase = ctl.phase /\ ctl'.generation = ctl.generation
    /\ ctl'.run = NoRun <=> ctl.run = NoRun
    /\ ctl'.run.generation = ctl.run.generation /\ ctl'.run.binding = ctl.run.binding
    /\ ctl'.run.timeout = ctl.run.timeout
    /\ ctl'.run \in RunRec

SameDeadline ==
    ctl'.run.active = ctl.run.active /\ ctl'.run.deadline = ctl.run.deadline

MoreActions ==
    /\ actions' \in Seq(Nat) /\ (actions # <<>> => actions' # <<>>)
    /\ Run = NoRun => actions' = actions

LEMMA ExpireEffect ==
    ASSUME IInv, NEW condition, ExpireIf(condition, Run)
    PROVE  SameRun /\ SameDeadline /\ ctl'.run.seen = ctl.run.seen /\ MoreActions
PROOF
  <1>1. CASE condition /\ Run # NoRun /\ ~Run.expired
    <2> DEFINE r == [Run EXCEPT !.expired = TRUE]
    <2>1. /\ r \in RunRec /\ r.generation = Run.generation /\ r.binding = Run.binding
          /\ r.timeout = Run.timeout /\ r.active = Run.active /\ r.seen = Run.seen
          /\ r.deadline = Run.deadline
      BY Fields DEF RunRec
    <2>2. r.generation > 0
      BY <1>1, <2>1 DEF IInv, RunInv
    <2>3. r # NoRun
      <3> HIDE DEF r
      <3> QED
        BY <2>2, NoneTypes
    <2>4. ctl' = [ctl EXCEPT !.run = r] /\ actions' = Append(actions, Run.binding)
      BY <1>1 DEF ExpireIf
    <2>7. ctl.run # NoRun
      BY <1>1 DEF Run
    <2> HIDE DEF r
    <2>5. ctl' \in CtlRec /\ ctl'.run = r /\ ctl'.phase = ctl.phase
          /\ ctl'.generation = ctl.generation /\ ctl'.target = ctl.target
      BY <2>1, <2>4, Typed DEF CtlRec
    <2>6. actions' \in Seq(Nat) /\ actions' # <<>>
      <3>1. actions \in Seq(Nat) /\ Run.binding \in Nat
        BY Typed, Fields
      <3> QED
        BY <2>4, <3>1, QueueAppend
    <2> QED
      BY <1>1, <2>1, <2>3, <2>5, <2>6, <2>7 DEF SameRun, SameDeadline, MoreActions, Run
  <1>2. CASE ~(condition /\ Run # NoRun /\ ~Run.expired)
    <2>1. ctl' = [ctl EXCEPT !.run = Run] /\ actions' = actions
      BY <1>2 DEF ExpireIf
    <2>2. ctl' = ctl
      BY <2>1, Typed DEF CtlRec, Run
    <2> QED
      BY <2>1, <2>2, Typed DEF SameRun, SameDeadline, MoreActions, CtlRec
  <1> QED
    BY <1>1, <1>2

\* What an operation has seen of the clock is in the run once it ends.
LEMMA SeenEffect ==
    ASSUME IInv, Run # NoRun, NEW t \in Nat, ctl' = [ctl EXCEPT !.run.seen = t]
    PROVE  SameRun /\ SameDeadline /\ ctl'.run.seen = t
PROOF
  <1> DEFINE r == [Run EXCEPT !.seen = t]
  <1>1. /\ r \in RunRec /\ r.generation = Run.generation /\ r.binding = Run.binding
        /\ r.timeout = Run.timeout /\ r.active = Run.active /\ r.seen = t
        /\ r.deadline = Run.deadline
    BY Fields DEF RunRec
  <1>2. r.generation > 0
    BY <1>1 DEF IInv, RunInv
  <1>3. r # NoRun
    <2> HIDE DEF r
    <2> QED
      BY <1>2, NoneTypes
  <1>4. ctl.run # NoRun
    BY DEF Run
  <1>5. ctl' = [ctl EXCEPT !.run = r]
    BY Typed DEF Run, CtlRec
  <1> HIDE DEF r
  <1>6. ctl' \in CtlRec /\ ctl'.run = r /\ ctl'.phase = ctl.phase
        /\ ctl'.generation = ctl.generation /\ ctl'.target = ctl.target
    BY <1>1, <1>5, Typed DEF CtlRec
  <1> QED
    BY <1>1, <1>3, <1>6, <1>4 DEF SameRun, SameDeadline, Run

\* The operation that writes an observation or activity.
LEMMA OpOfEffect ==
    ASSUME IInv, NEW kind \in Observing, NEW c \in Clients \cup {Nobody}, op' = OpOf(kind, c)
    PROVE  /\ op' \in OpRec /\ op'.kind = kind /\ op'.at = "ending" /\ op'.client = c
           /\ op'.generation = Run.generation /\ op'.now = wall
           /\ op'.flag = (Run.expired \/ Due(Run))
PROOF
  <1>1. (Run.expired \/ Due(Run)) \in BOOLEAN
    BY Fields DEF Due, Reached
  <1> QED
    BY <1>1, Fields DEF OpOf, OpRec, Observing, NoOp, Times

\* A step that only reads the clock, ends the run or writes what was observed
\* leaves the shape of the worker, the bindings and the gate as they were.
LEMMA ObserverFrame ==
    ASSUME IInv, SameRun, MoreActions, UNCHANGED <<session, queue, stage, gate, boot>>,
           act' = act, used'.sessions = used.sessions, activity'.binding = activity.binding,
           \/ op' = op
           \/ /\ op.kind \notin Reconciling /\ (op = NoOp => Run # NoRun)
              /\ op' = NoOp \/ (op'.kind \in Observing /\ op'.at = "ending")
    PROVE  ShapeInv' /\ ActionInv' /\ BindingInv' /\ GateInv'
PROOF
  <1>1. ActionInv'
    BY DEF IInv, ActionInv, MoreActions
  <1>2. CASE op' = op
    <2>1. ShapeInv'
      BY <1>2, Fields DEF IInv, ShapeInv, SameRun, MoreActions, Run
    <2>2. BindingInv'
      BY <1>2 DEF IInv, BindingInv
    <2>3. GateInv'
      BY <1>2 DEF IInv, GateInv, SameRun, Run
    <2> QED
      BY <1>1, <2>1, <2>2, <2>3
  <1>3. CASE /\ op.kind \notin Reconciling /\ (op = NoOp => Run # NoRun)
             /\ op' = NoOp \/ (op'.kind \in Observing /\ op'.at = "ending")
    <2>1. op'.at \in {"none", "ending"} /\ (op' = NoOp <=> op'.at = "none")
      BY <1>3, NoneTypes
    <2>2. /\ op'.kind \notin Reconciling
          /\ op'.at = "ending" => op'.kind \in Observing
      BY <1>3, NoneTypes DEF Reconciling, Observing
    <2>3. boot # "starting" /\ stage.at # "reconciling"
      BY <1>3 DEF IInv, ShapeInv, Run, Reconciling
    <2>4. ShapeInv'
      BY <2>1, <2>2, <2>3 DEF IInv, ShapeInv, MoreActions, Hydrating, Reconciling
    <2>5. BindingInv'
      BY <2>1 DEF IInv, BindingInv, Hydrating
    <2>6. GateInv'
      BY <2>1, <2>3 DEF IInv, GateInv, SameRun, Run, Hydrating
    <2> QED
      BY <1>1, <2>4, <2>5, <2>6
  <1> QED
    BY <1>2, <1>3

\* Without a run there is little to say of it.
LEMMA RunDropped ==
    ASSUME ctl'.run = NoRun, activity'.active <= activity'.seen,
           op'.at \in Hydrating => op'.timeout = timeout' \/ stale'
    PROVE  RunInv'
PROOF
  <1>1. Run' = NoRun /\ NoRun.active = 0 /\ NoRun.seen = 0
    BY NoneTypes DEF Run
  <1> QED
    BY <1>1 DEF RunInv

LEMMA LeasesDropped ==
    ASSUME IInv, ctl'.run = NoRun, ctl'.generation \in Nat, op'.kind # "checkpoint",
           \A c \in Clients : clients'[c].generation <= ctl'.generation
    PROVE  LeaseInv'
PROOF
  <1>1. Run' = NoRun
    BY DEF Run
  <1> QED
    BY <1>1 DEF LeaseInv

\* A request joins the queue, whatever the worker is doing.
LEMMA RequestStep ==
    ASSUME IInv, NEW reason \in {"unlock", "lock"}, NEW by \in {"user", "timeout"},
           Transition(reason, by), Suspended, boot # "starting",
           UNCHANGED <<clockVars, settingVars, storageVars, op, actions, clients, boot>>,
           act' \in ActRec, used' \in UsedRec, used'.rollbacks = used.rollbacks,
           used'.sessions = used.sessions,
           by = "timeout" => act.at = "applying" /\ act'.at = "locking",
           by = "user" => act' = act
    PROVE  IInv'
PROOF
  <1>1. UNCHANGED <<wall, mono, idle, high, timeout, stale, session, activity, recovery, op,
                    actions, clients, boot>>
    BY DEF clockVars, settingVars, storageVars
  <1>2. Queued(reason, by)
    BY TransitionEffect
  <1>3. /\ ctl' \in CtlRec /\ ctl'.run = NoRun /\ ctl'.generation = ctl.generation + 1
        /\ alarm' \in Times
    BY SuspendedEffect
  <1>4. Types'
    BY <1>1, <1>2, <1>3 DEF IInv, Types, ClockTypes, StorageTypes, ControlTypes, QueueTypes,
                            OtherTypes, Queued
  <1>5. \A i \in 1 .. Len(queue') : i \in 1 .. Len(queue) \/ i = Len(queue) + 1
    BY <1>2 DEF Queued
  <1>6. queue # <<>> => stage' = stage
    BY <1>2 DEF Queued
  <1>7. /\ stage'.at # "none" /\ (stage'.at = "acting" => ~stage'.ok)
        /\ queue = <<>> => stage'.at = "acting" /\ stage.at = "none"
    BY <1>2 DEF Queued, IInv, ShapeInv
  <1>8. ShapeInv'
    BY <1>1, <1>2, <1>3, <1>6, <1>7 DEF IInv, ShapeInv, Queued
  <1>9. ActionInv'
    BY <1>1, <1>2, <1>5 DEF IInv, ActionInv, Queued
  <1>12. BindingInv'
    BY <1>1 DEF IInv, BindingInv
  <1>13. GateInv'
    BY <1>1, <1>2, <1>3, <1>6, <1>7 DEF IInv, GateInv, Queued, Run, ShapeInv
  <1>14. RunInv'
    <2>1. activity'.active <= activity'.seen
      BY <1>1 DEF IInv, RunInv
    <2>2. op'.at \in Hydrating => op'.timeout = timeout' \/ stale'
      BY <1>1 DEF IInv, RunInv
    <2> QED
      BY <1>3, <2>1, <2>2, RunDropped
  <1>15. ClockInv'
    BY <1>1, <1>3, NoneTypes, Fields DEF IInv, ClockInv, Run
  <1>16. LeaseInv'
    <2>1. Run' = NoRun
      BY <1>3 DEF Run
    <2>2. \A c \in Clients : clients'[c].generation <= ctl'.generation
      <3>1. \A c \in Clients : clients[c].generation <= ctl.generation
        BY DEF IInv, LeaseInv
      <3>2. ctl.generation \in Nat
        BY Fields
      <3>3. \A c \in Clients : clients[c].generation \in Nat
        BY Fields
      <3>4. clients' = clients
        BY <1>1
      <3>5. ctl'.generation = ctl.generation + 1
        BY <1>3
      <3> QED
        BY <3>1, <3>2, <3>3, <3>4, <3>5
    <2> QED
      BY <1>1, <2>1, <2>2 DEF IInv, LeaseInv
  <1>17. HighInv'
    <2>1. high' <= activity'.seen /\ Run' = NoRun
      BY <1>1, <1>3 DEF IInv, HighInv, Run
    <2>2. stage'.at \in {"settling", "reconciling"} => stage' = stage
      BY <1>6, <1>7
    <2> QED
      BY <1>1, <2>1, <2>2 DEF IInv, HighInv
  <1> QED
    BY <1>4, <1>8, <1>9, <1>12, <1>13, <1>14, <1>15, <1>16, <1>17 DEF IInv

LEMMA AfterType ==
    ASSUME NEW t \in Nat, NEW m \in Times
    PROVE  After(t, m) \in Times
  BY NoneAssumption DEF After, Times

\* The stage follows the settlement it waits for, and no other operation.
StageFollows ==
    /\ stage' \in StageRec /\ stage'.ok = stage.ok /\ stage'.open = stage.open
    /\ stage.at = "reconciling" => stage'.at \in {"publishing", "awaiting"}
    /\ stage.at # "reconciling" => stage' = stage

LEMMA StageAfterEffect ==
    ASSUME IInv, NEW threw \in BOOLEAN, NEW pending, stage' = StageAfter(threw, pending)
    PROVE  StageFollows
PROOF
  <1>1. stage \in StageRec /\ (op.kind = "settle" <=> stage.at = "reconciling")
    BY Typed DEF IInv, ShapeInv
  <1>2. CASE op.kind # "settle"
    BY <1>1, <1>2 DEF StageAfter, StageFollows
  <1>3. CASE op.kind = "settle"
    <2> DEFINE a == IF Executing \/ pending = <<>> THEN "publishing" ELSE "awaiting"
    <2>1. stage' = [stage EXCEPT !.at = a, !.threw = threw]
      BY <1>3 DEF StageAfter
    <2>2. a \in {"publishing", "awaiting"}
      OBVIOUS
    <2> HIDE DEF a
    <2> QED
      BY <1>1, <1>3, <2>1, <2>2 DEF StageFollows, StageRec
  <1> QED
    BY <1>2, <1>3

\* A reconciliation ends with no run, or with one of the session.
LEMMA ReconcileFrame ==
    ASSUME IInv, op.kind \in Reconciling, op' = NoOp, StageFollows,
           UNCHANGED <<session, activity, queue, gate, act>>, used'.sessions = used.sessions,
           actions # <<>> => actions' # <<>>, boot' # "starting",
           ctl'.run # NoRun /\ stage.at # "settling" => ctl'.run.binding = session.binding
    PROVE  ShapeInv' /\ ActionInv' /\ BindingInv' /\ GateInv'
PROOF
  <1>1. op'.at = "none" /\ op'.kind = "none" /\ stage'.at # "reconciling"
    BY NoneTypes DEF StageFollows
  <1>2. /\ stage'.at = "none" <=> stage.at = "none"
        /\ stage'.at = "acting" <=> stage.at = "acting"
        /\ stage'.at = "settling" <=> stage.at = "settling"
        /\ stage'.ok = stage.ok /\ stage'.open = stage.open
        /\ stage'.at \in {"awaiting", "publishing"} =>
             stage.at \in {"reconciling", "awaiting", "publishing"}
    BY DEF StageFollows
  <1>3. ShapeInv'
    BY <1>1, <1>2 DEF IInv, ShapeInv, Hydrating, Reconciling, Observing
  <1>4. ActionInv'
    BY DEF IInv, ActionInv
  <1>5. BindingInv'
    BY <1>1 DEF IInv, BindingInv, Hydrating
  <1>6. GateInv'
    BY <1>1, <1>2 DEF IInv, GateInv, Run, Hydrating
  <1> QED
    BY <1>3, <1>4, <1>5, <1>6

\* The releases of a session are no later than its record while the stage
\* only follows a settlement.
LEMMA HighKept ==
    ASSUME IInv, UNCHANGED <<session, activity, high, queue>>, used'.sessions = used.sessions,
           stage'.at \in {"settling", "reconciling", "acting"} => stage' = stage,
           ctl'.run # NoRun => high <= ctl'.run.seen
    PROVE  HighInv'
  BY DEF IInv, HighInv, Run

\* What a hydrated run is made of.
LEMMA NewRunFields ==
    ASSUME IInv, op.at = "running"
    PROVE  /\ NewRun \in RunRec /\ NewRun # NoRun
           /\ NewRun.generation = ctl.generation + 1 /\ NewRun.binding = op.binding
           /\ NewRun.timeout = op.timeout /\ NewRun.active = activity.active
           /\ NewRun.seen = activity.seen
           /\ NewRun.deadline = After(activity.active, op.timeout)
           /\ NewRun.expired \in BOOLEAN
PROOF
  <1> DEFINE d == After(activity.active, op.timeout)
             m == IF d = Never THEN Never ELSE mono + Remaining(d, op.now)
             x == op.now < activity.seen \/ Reached(d, op.now)
  <1>1. activity.active \in Nat /\ op.timeout \in Times /\ op.now \in Nat /\ mono \in Nat
    BY Fields
  <1>2. d \in Times
    BY <1>1, AfterType
  <1>3. x \in BOOLEAN
    OBVIOUS
  <1>4. m \in Times
    <2>1. CASE d = Never
      BY <2>1 DEF Times
    <2>2. CASE d # Never
      <3>1. Remaining(d, op.now) \in Nat
        BY <1>1, <1>2, <2>2 DEF Remaining, Times
      <3> QED
        BY <1>1, <2>2, <3>1 DEF Times
    <2> QED
      BY <2>1, <2>2
  <1>5. NewRun = [generation |-> ctl.generation + 1, binding |-> op.binding,
                  timeout |-> op.timeout, active |-> activity.active, seen |-> activity.seen,
                  deadline |-> d, monoDeadline |-> m, expired |-> x]
    BY DEF NewRun
  <1> HIDE DEF d, m, x
  <1>6. ctl.generation + 1 \in Nat /\ op.binding \in Nat /\ activity.seen \in Nat
    BY Fields
  <1>7. /\ NewRun \in RunRec
        /\ NewRun.generation = ctl.generation + 1 /\ NewRun.binding = op.binding
        /\ NewRun.timeout = op.timeout /\ NewRun.active = activity.active
        /\ NewRun.seen = activity.seen /\ NewRun.deadline = d /\ NewRun.expired \in BOOLEAN
    BY <1>1, <1>2, <1>3, <1>4, <1>5, <1>6 DEF RunRec
  <1>8. NewRun # NoRun
    <2>1. ctl.generation \in Nat
      BY Fields
    <2> QED
      BY <1>7, <2>1, NoneTypes
  <1> QED
    BY <1>7, <1>8 DEF d

\* A lease does not outlive the generation it was captured in.
LEMMA LeasesOutlived ==
    ASSUME IInv, clients' = clients, ctl'.run = NoRun, ctl'.generation = ctl.generation + 1,
           op'.kind # "checkpoint"
    PROVE  LeaseInv'
PROOF
  <1>1. ctl.generation \in Nat
    BY Fields
  <1>2. \A c \in Clients : clients[c].generation \in Nat
    BY Fields
  <1>3. \A c \in Clients : clients[c].generation <= ctl.generation
    BY DEF IInv, LeaseInv
  <1>4. \A c \in Clients : clients'[c].generation <= ctl'.generation
    BY <1>1, <1>2, <1>3
  <1> QED
    BY <1>1, <1>4, LeasesDropped

\* Time passes.
LEMMA TickStep ==
    ASSUME IInv, Tick
    PROVE  IInv'
PROOF
  <1>1. UNCHANGED <<high, timeout, stale, session, activity, recovery, ctl, alarm, op,
                         actions, act, queue, stage, gate, clients, boot, used>>
    BY DEF Tick, clockVars, settingVars, storageVars, ctlVars, actionVars, queueVars
  <1>2. wall' = wall + 1 /\ mono' = mono + 1 /\ idle' = idle + 1
    BY DEF Tick
  <1>3. Types'
    BY <1>1, <1>2, Fields DEF IInv, Types, ClockTypes, StorageTypes, ControlTypes,
       QueueTypes, OtherTypes
  <1>4. ShapeInv' /\ ActionInv' /\ BindingInv' /\ GateInv' /\ RunInv' /\ LeaseInv' /\
       HighInv'
    BY <1>1 DEF IInv, ShapeInv, ActionInv, BindingInv, GateInv, Run, RunInv, LeaseInv,
       HighInv
  <1>5. ClockInv'
    BY <1>1, <1>2, Fields DEF IInv, ClockInv, Run
  <1> QED
    BY <1>3, <1>4, <1>5 DEF IInv

\* The user sets the wall clock back.
LEMMA RollbackStep ==
    ASSUME IInv, Rollback
    PROVE  IInv'
PROOF
  <1>1. UNCHANGED <<mono, idle, high, timeout, stale, session, activity, recovery,
                         ctl, alarm, op, actions, act, queue, stage, gate, clients,
                         boot>>
    BY DEF Rollback, Disturb, Spend, clockVars, settingVars, storageVars, ctlVars,
       actionVars, queueVars
  <1>2. used' \in UsedRec /\ used'.sessions = used.sessions
    /\ used'.rollbacks = used.rollbacks + 1
    BY Counted, Fields DEF Rollback
  <1>3. wall' \in Nat
    BY Fields DEF Rollback
  <1>4. Types'
    BY <1>1, <1>2, <1>3 DEF IInv, Types, ClockTypes, StorageTypes, ControlTypes,
       QueueTypes, OtherTypes
  <1>5. ShapeInv' /\ ActionInv' /\ GateInv' /\ RunInv' /\ LeaseInv'
    BY <1>1 DEF IInv, ShapeInv, ActionInv, GateInv, Run, RunInv, LeaseInv
  <1>6. BindingInv'
    BY <1>1, <1>2, <1>3, Fields DEF IInv, BindingInv, Hydrating
  <1>7. ClockInv'
    BY <1>1, <1>2, <1>3, Fields DEF IInv, ClockInv, Run
  <1>8. HighInv'
    BY <1>1, <1>2, <1>3, Fields DEF IInv, HighInv, Run
  <1> QED
    BY <1>4, <1>5, <1>6, <1>7, <1>8 DEF IInv

\* A terminal action arms the reset-all marker.
LEMMA ActionArmsStep ==
    ASSUME IInv, ActionArms
    PROVE  IInv'
PROOF
  <1>1. UNCHANGED <<wall, mono, idle, high, timeout, stale, session, activity, ctl,
                         alarm, op, actions, queue, stage, gate, clients, boot, used>>
    BY DEF ActionArms, clockVars, settingVars, storageVars, ctlVars, actionVars,
       queueVars
  <1>2. recovery' = TRUE /\ act' \in ActRec /\ actions # <<>> /\ act.at = "idle"
    BY Typed DEF ActionArms, ActRec
  <1>3. Types'
    BY <1>1, <1>2 DEF IInv, Types, ClockTypes, StorageTypes, ControlTypes, QueueTypes,
       OtherTypes
  <1>4. ShapeInv' /\ BindingInv' /\ GateInv' /\ RunInv' /\ ClockInv' /\ LeaseInv' /\
       HighInv'
    BY <1>1 DEF IInv, ShapeInv, BindingInv, GateInv, Run, RunInv, ClockInv, LeaseInv,
       HighInv
  <1>5. ActionInv'
    BY <1>1, <1>2, Fields DEF IInv, ActionInv
  <1> QED
    BY <1>3, <1>4, <1>5 DEF IInv

\* ... or cannot.
LEMMA ActionArmFailsStep ==
    ASSUME IInv, ActionArmFails
    PROVE  IInv'
PROOF
  <1>1. UNCHANGED <<wall, mono, idle, high, timeout, stale, session, activity,
                         recovery, ctl, alarm, op, actions, queue, stage, gate,
                         clients, boot>>
    BY DEF ActionArmFails, Disturb, Spend, clockVars, settingVars, storageVars,
       ctlVars, actionVars, queueVars
  <1>2. used' \in UsedRec /\ used'.sessions = used.sessions /\ used'.rollbacks = used.rollbacks
    BY Counted, Fields DEF ActionArmFails
  <1>3. act' \in ActRec /\ actions # <<>> /\ act.at = "idle"
    BY Typed DEF ActionArmFails, ActRec
  <1>4. Types'
    BY <1>1, <1>2, <1>3 DEF IInv, Types, ClockTypes, StorageTypes, ControlTypes,
       QueueTypes, OtherTypes
  <1>5. ShapeInv' /\ GateInv' /\ RunInv' /\ LeaseInv'
    BY <1>1 DEF IInv, ShapeInv, GateInv, Run, RunInv, LeaseInv
  <1>6. ActionInv'
    BY <1>1, <1>2, <1>3, Fields DEF IInv, ActionInv
  <1>7. BindingInv'
    BY <1>1, <1>2, <1>3, Fields DEF IInv, BindingInv, Hydrating
  <1>8. ClockInv'
    BY <1>1, <1>2, <1>3, Fields DEF IInv, ClockInv, Run
  <1>9. HighInv'
    BY <1>1, <1>2, <1>3, Fields DEF IInv, HighInv, Run
  <1> QED
    BY <1>4, <1>5, <1>6, <1>7, <1>8, <1>9 DEF IInv

\* A terminal action looks for its session.
LEMMA ActionAppliesStep ==
    ASSUME IInv, ActionApplies
    PROVE  IInv'
PROOF
  <1>1. UNCHANGED <<wall, mono, idle, high, timeout, stale, session, activity,
                         recovery, ctl, op, actions, queue, stage, gate, clients,
                         boot, used>>
    BY DEF ActionApplies, clockVars, settingVars, storageVars, ctlVars, actionVars,
       queueVars
  <1>2. alarm' \in Times /\ actions # <<>> /\ act.at = "armed"
    BY DEF ActionApplies, Times, IInv, ActionInv
  <1>3. act' \in ActRec
    BY Typed DEF ActionApplies, ActRec
  <1>4. Types'
    BY <1>1, <1>2, <1>3 DEF IInv, Types, ClockTypes, StorageTypes, ControlTypes,
       QueueTypes, OtherTypes
  <1>5. ShapeInv' /\ BindingInv' /\ GateInv' /\ RunInv' /\ ClockInv' /\ LeaseInv' /\
       HighInv'
    BY <1>1 DEF IInv, ShapeInv, BindingInv, GateInv, Run, RunInv, ClockInv, LeaseInv,
       HighInv
  <1>6. ActionInv'
    BY <1>1, <1>2, <1>3, Fields DEF IInv, ActionInv
  <1> QED
    BY <1>4, <1>5, <1>6 DEF IInv

\* The session of a terminal action is gone.
LEMMA ActionIsMootStep ==
    ASSUME IInv, ActionIsMoot
    PROVE  IInv'
PROOF
  <1>1. UNCHANGED <<wall, mono, idle, high, timeout, stale, session, activity,
                         recovery, ctl, alarm, op, actions, queue, stage, gate,
                         clients, boot, used>>
    BY DEF ActionIsMoot, clockVars, settingVars, storageVars, ctlVars, actionVars,
       queueVars
  <1>2. act' \in ActRec
    BY Typed DEF ActionIsMoot, ActRec
  <1>3. actions # <<>> /\ act.at = "applying"
    BY DEF ActionIsMoot, IInv, ActionInv
  <1>4. Types'
    BY <1>1, <1>2, <1>3 DEF IInv, Types, ClockTypes, StorageTypes, ControlTypes,
       QueueTypes, OtherTypes
  <1>5. ShapeInv' /\ BindingInv' /\ GateInv' /\ RunInv' /\ ClockInv' /\ LeaseInv' /\
       HighInv'
    BY <1>1 DEF IInv, ShapeInv, BindingInv, GateInv, Run, RunInv, ClockInv, LeaseInv,
       HighInv
  <1>6. ActionInv'
    BY <1>1, <1>2, <1>3, Fields DEF IInv, ActionInv
  <1> QED
    BY <1>4, <1>5, <1>6 DEF IInv

\* A terminal action is over.
LEMMA ActionEndsStep ==
    ASSUME IInv, ActionEnds
    PROVE  IInv'
PROOF
  <1>1. UNCHANGED <<wall, mono, idle, high, timeout, stale, session, activity, ctl,
                         alarm, op, queue, stage, gate, clients, boot, used>>
    BY DEF ActionEnds, clockVars, settingVars, storageVars, ctlVars, queueVars
  <1>2. recovery' \in BOOLEAN /\ act' \in ActRec /\ act'.at = "idle"
    <2>1. recovery \in BOOLEAN /\ act \in ActRec
      BY Typed DEF IInv, Types, StorageTypes
    <2> QED
      BY <2>1 DEF ActionEnds, ActRec
  <1>3. actions # <<>> /\ actions' = Tail(actions) /\ act.at = "applied"
    BY DEF ActionEnds, IInv, ActionInv
  <1>4. actions' \in Seq(Nat)
    BY <1>3, Typed, QueueTail
  <1>5. boot # "starting"
    BY <1>3 DEF IInv, ShapeInv
  <1>6. Types'
    BY <1>1, <1>2, <1>3, <1>4, <1>5 DEF IInv, Types, ClockTypes, StorageTypes,
       ControlTypes, QueueTypes, OtherTypes
  <1>7. BindingInv' /\ GateInv' /\ RunInv' /\ ClockInv' /\ LeaseInv' /\ HighInv'
    BY <1>1 DEF IInv, BindingInv, GateInv, Run, RunInv, ClockInv, LeaseInv, HighInv
  <1>8. ShapeInv'
    BY <1>1, <1>2, <1>3, <1>4, <1>5, Fields DEF IInv, ShapeInv, Hydrating,
       Reconciling, Observing
  <1>9. ActionInv'
    BY <1>1, <1>2, <1>3, <1>4, <1>5, Fields DEF IInv, ActionInv
  <1> QED
    BY <1>6, <1>7, <1>8, <1>9 DEF IInv

\* Startup forgets the session behind the marker.
LEMMA StartupRecoversStep ==
    ASSUME IInv, StartupRecovers
    PROVE  IInv'
PROOF
  <1>1. UNCHANGED <<wall, mono, idle, high, timeout, stale, activity, ctl, alarm, op,
                         actions, act, queue, stage, gate, clients, boot, used>>
    BY DEF StartupRecovers, clockVars, settingVars, storageVars, ctlVars, actionVars,
       queueVars
  <1>2. /\ session' = [open |-> FALSE, binding |-> 0] /\ recovery' = FALSE /\ boot = "starting"
        /\ session'.open = FALSE /\ session'.binding = 0
    BY DEF StartupRecovers
  <1>3. /\ ctl.run = NoRun /\ op.at = "none" /\ op.kind = "none" /\ queue = <<>>
        /\ stage.at = "none" /\ ~gate.open
    BY <1>2, NoneTypes DEF IInv, ShapeInv
  <1>4. Types'
    BY <1>1, <1>2, <1>3 DEF IInv, Types, ClockTypes, StorageTypes, ControlTypes,
       QueueTypes, OtherTypes
  <1>5. ActionInv' /\ RunInv' /\ ClockInv' /\ LeaseInv'
    BY <1>1 DEF IInv, ActionInv, RunInv, Run, ClockInv, LeaseInv
  <1>6. ShapeInv'
    BY <1>1, <1>2, <1>3, Fields DEF IInv, ShapeInv, Hydrating, Reconciling, Observing
  <1>7. BindingInv'
    BY <1>1, <1>2, <1>3, Fields DEF IInv, BindingInv, Hydrating
  <1>8. GateInv'
    BY <1>1, <1>2, <1>3, Fields DEF IInv, GateInv, Run, Hydrating
  <1>9. HighInv'
    BY <1>1, <1>2, <1>3, Fields DEF IInv, HighInv, Run
  <1> QED
    BY <1>4, <1>5, <1>6, <1>7, <1>8, <1>9 DEF IInv

\* The controller is initialized.
LEMMA StartupInitializesStep ==
    ASSUME IInv, StartupInitializes
    PROVE  IInv'
PROOF
  <1>1. UNCHANGED <<wall, mono, idle, high, timeout, stale, session, activity,
                         recovery, ctl, alarm, actions, act, queue, stage, clients,
                         used>>
    BY DEF StartupInitializes, clockVars, settingVars, storageVars, ctlVars,
       actionVars, queueVars
  <1>2. /\ boot = "starting" /\ boot' = "hydrating"
    /\ gate' = [gate EXCEPT !.open = session.open]
        /\ op' = [NoOp EXCEPT !.kind = "initialize", !.at = "reading", !.mono = mono]
    BY DEF StartupInitializes
  <1>3. /\ op' \in OpRec /\ op'.kind = "initialize" /\ op'.at = "reading" /\ ~op'.flag
        /\ op'.now = 0 /\ op' # NoOp
    BY <1>2, Fields DEF NoOp, OpRec, Reconciling, Observing, Hydrating, Times
  <1>4. gate' \in [generation : Nat, open : BOOLEAN] /\ gate'.open = session.open
    BY <1>2, Typed
  <1>5. /\ ctl.run = NoRun /\ op.at = "none" /\ op.kind = "none" /\ op.now = 0 /\ queue = <<>>
        /\ stage.at = "none"
    BY <1>2, NoneTypes DEF IInv, ShapeInv
  <1>6. boot' = "hydrating"
    BY <1>2
  <1>7. Types'
    BY <1>1, <1>3, <1>4, <1>5, <1>6 DEF IInv, Types, ClockTypes, StorageTypes,
       ControlTypes, QueueTypes, OtherTypes
  <1>8. ActionInv' /\ HighInv'
    BY <1>1 DEF IInv, ActionInv, HighInv, Run
  <1>9. ShapeInv'
    BY <1>1, <1>3, <1>4, <1>5, <1>6, Fields DEF IInv, ShapeInv, Hydrating,
       Reconciling, Observing
  <1>10. BindingInv'
    BY <1>1, <1>3, <1>4, <1>5, <1>6, Fields DEF IInv, BindingInv, Hydrating
  <1>11. GateInv'
    BY <1>1, <1>3, <1>4, <1>5, <1>6, Fields DEF IInv, GateInv, Run, Hydrating
  <1>12. RunInv'
    <2>1. activity'.active <= activity'.seen /\ ctl'.run = NoRun /\ op'.at \notin Hydrating
      BY <1>1, <1>3, <1>5 DEF IInv, RunInv, Hydrating
    <2> QED
      BY <2>1, RunDropped
  <1>13. ClockInv'
    BY <1>1, <1>3, <1>4, <1>5, <1>6, Fields DEF IInv, ClockInv, Run
  <1>14. LeaseInv'
    BY <1>1, <1>3, <1>4, <1>5, <1>6, Fields DEF IInv, LeaseInv, Run
  <1> QED
    BY <1>7, <1>8, <1>9, <1>10, <1>11, <1>12, <1>13, <1>14 DEF IInv

\* Requests are let in.
LEMMA StartupEndsStep ==
    ASSUME IInv, StartupEnds
    PROVE  IInv'
PROOF
  <1>1. UNCHANGED <<wall, mono, idle, high, timeout, stale, session, activity,
                         recovery, ctl, alarm, op, actions, act, queue, stage, gate,
                         clients, used>>
    BY DEF StartupEnds, clockVars, settingVars, storageVars, ctlVars, actionVars,
       queueVars
  <1>2. boot' = "ready" /\ boot = "hydrating"
    BY DEF StartupEnds
  <1>3. Types'
    BY <1>1, <1>2 DEF IInv, Types, ClockTypes, StorageTypes, ControlTypes, QueueTypes,
       OtherTypes
  <1>4. ActionInv' /\ BindingInv' /\ GateInv' /\ RunInv' /\ ClockInv' /\ LeaseInv' /\
       HighInv'
    BY <1>1 DEF IInv, ActionInv, BindingInv, GateInv, Run, RunInv, ClockInv, LeaseInv,
       HighInv
  <1>5. ShapeInv'
    BY <1>1, <1>2, Fields DEF IInv, ShapeInv, Hydrating, Reconciling, Observing
  <1> QED
    BY <1>3, <1>4, <1>5 DEF IInv

\* The worker starts anew.
LEMMA RestartStep ==
    ASSUME IInv, Restart
    PROVE  IInv'
PROOF
  <1>1. UNCHANGED <<wall, idle, high, timeout, session, activity, recovery, alarm>>
    BY DEF Restart, Disturb, Spend, clockVars, settingVars, storageVars, ctlVars
  <1>2. used' \in UsedRec /\ used'.sessions = used.sessions /\ used'.rollbacks = used.rollbacks
    BY Counted, Fields DEF Restart
  <1>3. /\ mono' = 0 /\ op' = NoOp /\ actions' = <<>> /\ queue' = <<>> /\ stage' = NoStage
        /\ clients' = [c \in Clients |-> IdleClient] /\ boot' = "starting" /\ stale' = FALSE
    BY DEF Restart
  <1>4. ctl' \in CtlRec /\ ctl'.generation = 0 /\ ctl'.run = NoRun
    BY NoneTypes DEF Restart, CtlRec
  <1>5. /\ act' \in ActRec /\ act'.at = "idle" /\ ~gate'.open
        /\ gate' \in [generation : Nat, open : BOOLEAN]
    BY DEF Restart, ActRec
  <1>6. queue' \in Seq(EntryRec) /\ actions' \in Seq(Nat) /\ Len(queue') = 0
    BY <1>3, EmptySeq
  <1>7. Types'
    BY <1>1, <1>2, <1>3, <1>4, <1>5, <1>6, NoneTypes DEF IInv, Types, ClockTypes,
       StorageTypes, ControlTypes, QueueTypes, OtherTypes
  <1>8. ShapeInv'
    BY <1>1, <1>2, <1>3, <1>4, <1>5, <1>6, Fields, NoneTypes DEF IInv, ShapeInv,
       Hydrating, Reconciling, Observing
  <1>9. ActionInv'
    BY <1>1, <1>2, <1>3, <1>4, <1>5, <1>6, Fields DEF IInv, ActionInv
  <1>10. BindingInv'
    BY <1>1, <1>2, <1>3, <1>4, <1>5, <1>6, Fields, NoneTypes DEF IInv, BindingInv,
       Hydrating
  <1>11. GateInv'
    BY <1>1, <1>2, <1>3, <1>4, <1>5, <1>6, Fields, NoneTypes DEF IInv, GateInv, Run,
       Hydrating
  <1>12. RunInv'
    <2>1. activity'.active <= activity'.seen /\ op'.at \notin Hydrating
      BY <1>1, <1>3, NoneTypes DEF IInv, RunInv, Hydrating
    <2> QED
      BY <1>4, <2>1, RunDropped
  <1>13. ClockInv'
    BY <1>1, <1>2, <1>3, <1>4, <1>5, <1>6, Fields, NoneTypes DEF IInv, ClockInv, Run
  <1>14. LeaseInv'
    <2>1. op'.kind # "checkpoint" /\ \A c \in Clients : clients'[c].generation = 0
      BY <1>3, NoneTypes
    <2> QED
      BY <1>4, <2>1, LeasesDropped
  <1>15. HighInv'
    BY <1>1, <1>2, <1>3, <1>4, <1>5, <1>6, Fields, NoneTypes DEF IInv, HighInv, Run
  <1> QED
    BY <1>7, <1>8, <1>9, <1>10, <1>11, <1>12, <1>13, <1>14, <1>15 DEF IInv
\* An unlock is requested.
LEMMA RequestUnlockStep ==
    ASSUME IInv, RequestUnlock
    PROVE  IInv'
PROOF
  <1>1. /\ Transition("unlock", "user") /\ Suspended /\ boot = "ready"
        /\ Spend("unlocks", MaxUnlocks)
        /\ UNCHANGED <<clockVars, settingVars, storageVars, op, actions, clients, boot>>
        /\ act' = act
    BY DEF RequestUnlock, actionVars
  <1>2. /\ used' \in UsedRec /\ used'.sessions = used.sessions
        /\ used'.rollbacks = used.rollbacks
    BY <1>1, Counted, Fields
  <1>3. act' \in ActRec
    BY <1>1, Typed
  <1> QED
    BY <1>1, <1>2, <1>3, RequestStep

\* A lock is requested.
LEMMA RequestLockStep ==
    ASSUME IInv, RequestLock
    PROVE  IInv'
PROOF
  <1>1. /\ Transition("lock", "user") /\ Suspended /\ boot = "ready"
        /\ Disturb("locks", MaxLocks)
        /\ UNCHANGED <<clockVars, settingVars, storageVars, op, actions, clients, boot>>
        /\ act' = act
    BY DEF RequestLock, actionVars
  <1>2. /\ used' \in UsedRec /\ used'.sessions = used.sessions
        /\ used'.rollbacks = used.rollbacks
    BY <1>1, Counted, Fields
  <1>3. act' \in ActRec
    BY <1>1, Typed
  <1> QED
    BY <1>1, <1>2, <1>3, RequestStep

\* A terminal action requests the lock of its session.
LEMMA ActionRequestsStep ==
    ASSUME IInv, ActionRequests
    PROVE  IInv'
PROOF
  <1>1. /\ Transition("lock", "timeout") /\ Suspended /\ act.at = "applying"
        /\ UNCHANGED <<clockVars, settingVars, storageVars, op, actions, clients, boot>>
        /\ act' = [act EXCEPT !.at = "locking"] /\ used' = used
    BY DEF ActionRequests
  <1>2. boot # "starting"
    BY <1>1 DEF IInv, ShapeInv, ActionInv
  <1>3. used' \in UsedRec /\ used'.sessions = used.sessions /\ used'.rollbacks = used.rollbacks
    BY <1>1, Typed
  <1>4. act' \in ActRec /\ act'.at = "locking"
    BY <1>1, Typed DEF ActRec
  <1> QED
    BY <1>1, <1>2, <1>3, <1>4, RequestStep

\* The action of the head of the queue changes the session.
LEMMA TransitionActsStep ==
    ASSUME IInv, TransitionActs
    PROVE  IInv'
PROOF
  <1>1. UNCHANGED <<wall, mono, idle, high, timeout, stale, activity, recovery, ctl,
                         alarm, op, actions, act, queue, gate, clients, boot>>
    BY DEF TransitionActs, clockVars, settingVars, storageVars, ctlVars, actionVars,
       queueVars
  <1>2. /\ stage.at = "acting" /\ stage' = [stage EXCEPT !.at = "settling", !.ok = TRUE]
        /\ \/ /\ session' = [open |-> TRUE, binding |-> used.sessions + 1]
              /\ used' = [used EXCEPT !.sessions = @ + 1]
           \/ session' = [open |-> FALSE, binding |-> 0] /\ used' = used
    BY DEF TransitionActs
  <1>3. stage' \in StageRec /\ stage'.at = "settling" /\ stage'.ok
    BY <1>2, Typed DEF StageRec
  <1>4. queue # <<>> /\ boot # "starting" /\ op.kind # "settle" /\ ~gate.open
    BY <1>2 DEF IInv, ShapeInv, GateInv
  <1>5. /\ used' \in UsedRec /\ used'.rollbacks = used.rollbacks
        /\ used'.sessions >= used.sessions
    <2>1. used \in UsedRec /\ used.sessions \in Nat
      BY Typed, Fields
    <2> QED
      BY <1>2, <2>1 DEF UsedRec
  <1>6. /\ session' \in [open : BOOLEAN, binding : Nat] /\ session'.open \in BOOLEAN
        /\ session'.open <=> session'.binding # 0
        /\ session'.open => session'.binding = used.sessions + 1
        /\ session'.binding <= used'.sessions
    <2>1. used \in UsedRec /\ used.sessions \in Nat
      BY Typed, Fields
    <2>2. CASE /\ session' = [open |-> TRUE, binding |-> used.sessions + 1]
               /\ used' = [used EXCEPT !.sessions = @ + 1]
      <3>1. used'.sessions = used.sessions + 1
        BY <2>1, <2>2 DEF UsedRec
      <3> QED
        BY <2>1, <2>2, <3>1
    <2>3. CASE session' = [open |-> FALSE, binding |-> 0] /\ used' = used
      BY <2>1, <2>3
    <2> QED
      BY <1>2, <2>2, <2>3
  <1>7. Types'
    BY <1>1, <1>3, <1>4, <1>5, <1>6 DEF IInv, Types, ClockTypes, StorageTypes,
       ControlTypes, QueueTypes, OtherTypes
  <1>8. ActionInv' /\ RunInv' /\ ClockInv' /\ LeaseInv'
    BY <1>1, <1>5 DEF IInv, ActionInv, RunInv, Run, ClockInv, LeaseInv
  <1>9. ShapeInv'
    BY <1>1, <1>3, <1>4, <1>5, <1>6, Fields DEF IInv, ShapeInv, Hydrating,
       Reconciling, Observing
  <1>10. BindingInv'
    <2>1. /\ used.sessions \in Nat /\ used'.sessions \in Nat
          /\ activity.binding \in Nat /\ op.binding \in Nat
      BY <1>5, Fields DEF UsedRec
    <2> QED
      BY <1>1, <1>5, <1>6, <2>1 DEF IInv, BindingInv
  <1>11. GateInv'
    BY <1>1, <1>3, <1>4, <1>5, <1>6, Fields DEF IInv, GateInv, Run, Hydrating
  <1>12. HighInv'
    <2>1. session'.open => activity'.binding # session'.binding
      BY <1>1, <1>6, Fields DEF IInv, BindingInv
    <2> QED
      BY <1>1, <1>3, <2>1, Fields DEF IInv, HighInv, Run
  <1> QED
    BY <1>7, <1>8, <1>9, <1>10, <1>11, <1>12 DEF IInv

\* ... or throws.
LEMMA TransitionFailsStep ==
    ASSUME IInv, TransitionFails
    PROVE  IInv'
PROOF
  <1>1. UNCHANGED <<wall, mono, idle, high, timeout, stale, session, activity,
                         recovery, ctl, alarm, op, actions, act, queue, gate, clients,
                         boot>>
    BY DEF TransitionFails, Disturb, Spend, clockVars, settingVars, storageVars,
       ctlVars, actionVars, queueVars
  <1>2. used' \in UsedRec /\ used'.sessions = used.sessions /\ used'.rollbacks = used.rollbacks
    BY Counted, Fields DEF TransitionFails
  <1>3. stage.at = "acting" /\ stage' = [stage EXCEPT !.at = "settling"]
    BY DEF TransitionFails
  <1>4. stage' \in StageRec /\ stage'.at = "settling" /\ stage'.ok = stage.ok
    BY <1>3, Typed DEF StageRec
  <1>5. op.kind # "settle" /\ queue # <<>> /\ ~stage.ok
    BY <1>3 DEF IInv, ShapeInv
  <1>6. Types'
    BY <1>1, <1>2, <1>3, <1>4, <1>5 DEF IInv, Types, ClockTypes, StorageTypes,
       ControlTypes, QueueTypes, OtherTypes
  <1>7. ActionInv' /\ RunInv' /\ LeaseInv'
    BY <1>1 DEF IInv, ActionInv, RunInv, Run, LeaseInv
  <1>8. ShapeInv'
    BY <1>1, <1>2, <1>3, <1>4, <1>5, Fields DEF IInv, ShapeInv, Hydrating,
       Reconciling, Observing
  <1>9. BindingInv'
    BY <1>1, <1>2, <1>3, <1>4, <1>5, Fields DEF IInv, BindingInv, Hydrating
  <1>10. GateInv'
    BY <1>1, <1>2, <1>3, <1>4, <1>5, Fields DEF IInv, GateInv, Run, Hydrating
  <1>11. ClockInv'
    BY <1>1, <1>2, <1>3, <1>4, <1>5, Fields DEF IInv, ClockInv, Run
  <1>12. HighInv'
    BY <1>1, <1>2, <1>3, <1>4, <1>5, Fields DEF IInv, HighInv, Run
  <1> QED
    BY <1>6, <1>7, <1>8, <1>9, <1>10, <1>11, <1>12 DEF IInv

\* The controller settles the head of the queue.
LEMMA SettlementStartsStep ==
    ASSUME IInv, SettlementStarts
    PROVE  IInv'
PROOF
  <1>1. UNCHANGED <<wall, mono, idle, high, timeout, stale, session, activity,
                         recovery, alarm, actions, act, queue, gate, clients, boot,
                         used>>
    BY DEF SettlementStarts, Free, clockVars, settingVars, storageVars, ctlVars,
       actionVars, queueVars
  <1>2. stage.at = "settling" /\ op = NoOp /\ op.at = "none"
    BY NoneTypes DEF SettlementStarts, Free
  <1>3. /\ stage' \in StageRec /\ stage'.at = "reconciling" /\ stage'.ok = stage.ok
        /\ stage'.open = session.open
    BY Typed DEF SettlementStarts, StageRec
  <1>4. (stage.ok /\ session.open) \in BOOLEAN
    BY Typed DEF StageRec
  <1>5. /\ op' \in OpRec /\ op'.kind = "settle" /\ op'.at = "reading" /\ op'.now = 0
        /\ op'.flag = (stage.ok /\ session.open) /\ op' # NoOp
    BY <1>4, Fields DEF SettlementStarts, NoOp, OpRec, Reconciling, Observing, Hydrating, Times
  <1>6. ctl' \in CtlRec /\ ctl'.phase = ctl.phase /\ ctl'.generation = ctl.generation
        /\ ctl'.run = ctl.run
    BY Typed DEF SettlementStarts, CtlRec
  <1>7. queue # <<>> /\ boot # "starting"
    BY <1>2 DEF IInv, ShapeInv
  <1>8. Types'
    BY <1>1, <1>2, <1>3, <1>4, <1>5, <1>6, <1>7 DEF IInv, Types, ClockTypes,
       StorageTypes, ControlTypes, QueueTypes, OtherTypes
  <1>9. ActionInv'
    BY <1>1 DEF IInv, ActionInv
  <1>10. ShapeInv'
    BY <1>1, <1>2, <1>3, <1>4, <1>5, <1>6, <1>7, Fields DEF IInv, ShapeInv, Hydrating,
       Reconciling, Observing
  <1>11. BindingInv'
    BY <1>1, <1>2, <1>3, <1>4, <1>5, <1>6, <1>7, Fields DEF IInv, BindingInv,
       Hydrating
  <1>12. GateInv'
    BY <1>1, <1>2, <1>3, <1>4, <1>5, <1>6, <1>7, Fields DEF IInv, GateInv, Run,
       Hydrating
  <1>13. RunInv'
    <2>1. Run' = Run /\ op'.at \notin Hydrating \cup {"ending"}
      /\ op.at \notin Hydrating \cup {"ending"}
      BY <1>2, <1>5, <1>6 DEF Run, Hydrating
    <2> QED
      BY <1>1, <1>6, <2>1 DEF IInv, RunInv, Hydrating
  <1>14. ClockInv'
    BY <1>1, <1>2, <1>3, <1>4, <1>5, <1>6, <1>7, Fields DEF IInv, ClockInv, Run
  <1>15. LeaseInv'
    BY <1>1, <1>2, <1>3, <1>4, <1>5, <1>6, <1>7, Fields DEF IInv, LeaseInv, Run
  <1>16. HighInv'
    BY <1>1, <1>2, <1>3, <1>4, <1>5, <1>6, <1>7, Fields DEF IInv, HighInv, Run
  <1> QED
    BY <1>8, <1>9, <1>10, <1>11, <1>12, <1>13, <1>14, <1>15, <1>16 DEF IInv

\* A settlement has awaited the terminal actions.
LEMMA SettlementAwaitedStep ==
    ASSUME IInv, SettlementAwaited
    PROVE  IInv'
PROOF
  <1>1. UNCHANGED <<wall, mono, idle, high, timeout, stale, session, activity,
                         recovery, ctl, alarm, op, actions, act, queue, gate, clients,
                         boot, used>>
    BY DEF SettlementAwaited, clockVars, settingVars, storageVars, ctlVars,
       actionVars, queueVars
  <1>2. stage.at = "awaiting" /\ queue # <<>> /\ op.kind # "settle" 
    BY DEF SettlementAwaited, IInv, ShapeInv
  <1>3. /\ stage' \in StageRec /\ stage'.at = "publishing" /\ stage'.ok = stage.ok
        /\ stage'.open = stage.open
    BY Typed DEF SettlementAwaited, StageRec
  <1>4. Types'
    BY <1>1, <1>2, <1>3 DEF IInv, Types, ClockTypes, StorageTypes, ControlTypes,
       QueueTypes, OtherTypes
  <1>5. ActionInv' /\ BindingInv' /\ RunInv' /\ ClockInv' /\ LeaseInv'
    BY <1>1 DEF IInv, ActionInv, BindingInv, RunInv, Run, ClockInv, LeaseInv
  <1>6. ShapeInv'
    BY <1>1, <1>2, <1>3, Fields DEF IInv, ShapeInv, Hydrating, Reconciling, Observing
  <1>7. GateInv'
    BY <1>1, <1>2, <1>3, Fields DEF IInv, GateInv, Run, Hydrating
  <1>8. HighInv'
    BY <1>1, <1>2, <1>3, Fields DEF IInv, HighInv, Run
  <1> QED
    BY <1>4, <1>5, <1>6, <1>7, <1>8 DEF IInv

\* The settlement of a transition reaches the session gate.
LEMMA TransitionEndsStep ==
    ASSUME IInv, TransitionEnds
    PROVE  IInv'
PROOF
  <1>1. UNCHANGED <<wall, mono, idle, high, timeout, stale, session, activity,
                         recovery, ctl, alarm, op, actions, clients, boot, used>>
    BY DEF TransitionEnds, clockVars, settingVars, storageVars, ctlVars, actionVars
  <1>2. /\ stage.at = "publishing" /\ queue' = Tail(queue)
        /\ stage' = IF Len(queue) > 1 THEN [NoStage EXCEPT !.at = "acting"] ELSE NoStage
        /\ act' = IF Head(queue).by = "timeout"
                  THEN [act EXCEPT !.at = "applied", !.ok = stage.ok /\ ~stage.threw]
                  ELSE act
    BY DEF TransitionEnds
  <1>3. queue # <<>> /\ op.kind # "settle" /\ stage.open = session.open /\ ~gate.open
        /\ boot # "starting"
    BY <1>2 DEF IInv, ShapeInv, GateInv
  <1>4. /\ Len(queue) \in Nat \ {0} /\ Head(queue) = queue[1]
        /\ queue' \in Seq(EntryRec) /\ Len(queue') = Len(queue) - 1
        /\ \A i \in 1 .. Len(queue') : queue'[i] = queue[i + 1]
        /\ queue' = <<>> <=> Len(queue) = 1
    <2>1. queue \in Seq(EntryRec)
      BY Typed
    <2> QED
      BY <1>2, <1>3, <2>1, QueueTail
  <1>5. /\ stage' \in StageRec /\ ~stage'.ok
        /\ Len(queue) = 1 => stage'.at = "none"
        /\ Len(queue) # 1 => stage'.at = "acting"
    <2>1. Len(queue) > 1 <=> Len(queue) # 1
      BY <1>4
    <2> QED
      BY <1>2, <2>1 DEF NoStage, StageRec
  <1>6. /\ gate' \in [generation : Nat, open : BOOLEAN]
        /\ gate'.open => Len(queue) = 1 /\ session.open
    BY <1>3, Typed DEF TransitionEnds, StageRec
  <1>7. /\ act' \in ActRec /\ (act'.at # "idle" \/ act' = act)
        /\ queue[1].by # "timeout" => act' = act
    <2>1. act \in ActRec /\ stage \in StageRec
      BY Typed
    <2>2. (stage.ok /\ ~stage.threw) \in BOOLEAN
      BY <2>1 DEF StageRec
    <2> QED
      BY <1>2, <1>4, <2>1, <2>2 DEF ActRec
  <1>8. \A i \in 1 .. Len(queue') : i + 1 \in 1 .. Len(queue) /\ i + 1 # 1
    BY <1>4
  <1>9. Types'
    BY <1>1, <1>3, <1>4, <1>5, <1>6, <1>7, <1>8 DEF IInv, Types, ClockTypes,
       StorageTypes, ControlTypes, QueueTypes, OtherTypes
  <1>10. RunInv' /\ ClockInv'
    BY <1>1 DEF IInv, RunInv, Run, ClockInv
  <1>11. ShapeInv'
    <2>1. queue' = <<>> <=> stage'.at = "none"
      BY <1>4, <1>5
    <2>2. stage.at # "reconciling" /\ stage'.at # "reconciling"
      BY <1>2, <1>5
    <2> QED
      BY <1>1, <1>3, <1>5, <2>1, <2>2 DEF IInv, ShapeInv
  <1>12. ActionInv'
    <2>1. 1 \in 1 .. Len(queue)
      BY <1>4
    <2>2. queue[1].by = "timeout" => actions # <<>>
      BY <2>1 DEF IInv, ActionInv
    <2>3. act'.at = "idle" \/ actions' # <<>>
      BY <1>1, <1>7, <2>2 DEF IInv, ActionInv
    <2>4. ASSUME NEW i \in 1 .. Len(queue'), queue'[i].by = "timeout"
          PROVE  act'.at = "locking"
      BY <1>4, <1>7, <1>8, <2>1, <2>4 DEF IInv, ActionInv
    <2>5. ASSUME NEW i \in 1 .. Len(queue'), NEW j \in 1 .. Len(queue'),
                 queue'[i].by = "timeout", queue'[j].by = "timeout"
          PROVE  i = j
      <3>1. i + 1 = j + 1
        BY <1>4, <1>8, <2>5 DEF IInv, ActionInv
      <3> QED
        BY <3>1
    <2> QED
      BY <2>3, <2>4, <2>5 DEF ActionInv
  <1>13. BindingInv'
    BY <1>1, <1>3, <1>4, <1>5, <1>6, <1>7, <1>8, Fields DEF IInv, BindingInv,
       Hydrating
  <1>14. GateInv'
    <2>1. stage'.at \in {"none", "acting"} /\ stage.at = "publishing"
      BY <1>2, <1>5
    <2>2. gate'.open => queue' = <<>> /\ session.open
      BY <1>4, <1>6
    <2> QED
      BY <1>1, <2>1, <2>2 DEF IInv, GateInv, Run
  <1>15. LeaseInv'
    BY <1>1, <1>3, <1>4, <1>5, <1>6, <1>7, <1>8, Fields DEF IInv, LeaseInv, Run
  <1>16. HighInv'
    BY <1>1, <1>5 DEF IInv, HighInv, Run
  <1> QED
    BY <1>9, <1>10, <1>11, <1>12, <1>13, <1>14, <1>15, <1>16 DEF IInv
\* There is no unlocked session: there is nothing to time out.
LEMMA ReconcileClosedStep ==
    ASSUME IInv, ReconcileClosed
    PROVE  IInv'
PROOF
  <1>1. UNCHANGED <<wall, mono, idle, high, timeout, stale, session, activity,
                         recovery, actions, act, queue, gate, clients, boot, used>>
    BY DEF ReconcileClosed, clockVars, settingVars, storageVars, actionVars, queueVars
  <1>2. /\ op.at = "reading" /\ op' = NoOp /\ stage' = StageAfter(FALSE, actions)
        /\ alarm' = Never /\ actions' = actions
    BY DEF ReconcileClosed, OpEnds, actionVars
  <1>3. /\ ctl' \in CtlRec /\ ctl'.run = NoRun /\ ctl'.generation = ctl.generation + 1
    <2>1. ctl \in CtlRec /\ ctl.generation + 1 \in Nat
      <3>1. ctl.generation \in Nat
        BY Fields
      <3> QED
        BY <3>1, Typed
    <2>2. ctl' = [phase |-> "ready", generation |-> ctl.generation + 1, run |-> NoRun,
                  target |-> 0]
      BY <2>1 DEF ReconcileClosed, CtlRec
    <2> QED
      BY <2>1, <2>2, NoneTypes DEF CtlRec
  <1>4. StageFollows /\ stage' \in StageRec
    BY <1>2, StageAfterEffect DEF StageFollows
  <1>5. op.kind \in Reconciling /\ boot # "starting"
    BY <1>2, NoneTypes DEF IInv, ShapeInv
  <1>6. op' \in OpRec /\ op'.kind = "none" /\ op'.at = "none" /\ op'.now = 0 /\ alarm' \in Times
    BY <1>2, NoneTypes DEF Times
  <1>7. Types'
    BY <1>1, <1>2, <1>3, <1>4, <1>5, <1>6 DEF IInv, Types, ClockTypes, StorageTypes,
       ControlTypes, QueueTypes, OtherTypes
  <1>8. ShapeInv' /\ ActionInv' /\ BindingInv' /\ GateInv'
    BY <1>1, <1>2, <1>3, <1>4, <1>5, ReconcileFrame
  <1>9. RunInv'
    <2>1. activity'.active <= activity'.seen /\ op'.at \notin Hydrating
      BY <1>1, <1>6 DEF IInv, RunInv, Hydrating
    <2> QED
      BY <1>3, <2>1, RunDropped
  <1>10. ClockInv'
    <2>1. Run'.active = 0 /\ Run'.seen = 0
      BY <1>3, NoneTypes DEF Run
    <2> QED
      BY <1>1, <1>6, <2>1, Fields DEF IInv, ClockInv
  <1>11. LeaseInv'
    BY <1>1, <1>3, <1>6, LeasesOutlived DEF IInv, LeaseInv, Run
  <1>12. HighInv'
    BY <1>1, <1>3, <1>4, HighKept DEF IInv, HighInv, Run, StageFollows
  <1> QED
    BY <1>7, <1>8, <1>9, <1>10, <1>11, <1>12 DEF IInv

\* The session is read.
LEMMA ReconcileReadsStep ==
    ASSUME IInv, ReconcileReads
    PROVE  IInv'
PROOF
  <1>1. UNCHANGED <<wall, mono, idle, high, timeout, stale, session, activity,
                         recovery, alarm, actions, act, queue, stage, gate, clients,
                         boot, used>>
    BY DEF ReconcileReads, clockVars, settingVars, storageVars, ctlVars, actionVars,
       queueVars
  <1>2. /\ op.at = "reading" /\ ctl' = [ctl EXCEPT !.target = session.binding]
        /\ op' = [op EXCEPT !.at = "seeding", !.binding = session.binding, !.timeout = timeout]
    BY DEF ReconcileReads
  <1>3. ctl' \in CtlRec /\ ctl'.phase = ctl.phase /\ ctl'.generation = ctl.generation
        /\ ctl'.run = ctl.run
    <2>1. session.binding \in Nat /\ ctl \in CtlRec
      BY Typed
    <2> QED
      BY <1>2, <2>1 DEF CtlRec
  <1>4. /\ op' \in OpRec /\ op'.at = "seeding" /\ op'.binding = session.binding
        /\ op'.timeout = timeout /\ op'.kind = op.kind /\ op'.now = op.now /\ op'.flag = op.flag
        /\ op.at = "reading"
    <2>1. session.binding \in Nat /\ op \in OpRec /\ timeout \in Times
      BY Typed
    <2> QED
      BY <1>2, <2>1 DEF OpRec, Hydrating
  <1>5. op' # NoOp /\ op # NoOp /\ op.kind \in Reconciling
    BY <1>2, <1>4, NoneTypes DEF IInv, ShapeInv
  <1>6. Types'
    BY <1>1, <1>3, <1>4, <1>5 DEF IInv, Types, ClockTypes, StorageTypes, ControlTypes,
       QueueTypes, OtherTypes
  <1>7. ActionInv'
    BY <1>1 DEF IInv, ActionInv
  <1>8. ShapeInv'
    BY <1>1, <1>3, <1>4, <1>5, Fields DEF IInv, ShapeInv, Hydrating, Reconciling,
       Observing
  <1>9. BindingInv'
    BY <1>1, <1>3, <1>4, <1>5, Fields DEF IInv, BindingInv, Hydrating
  <1>10. GateInv'
    BY <1>1, <1>3, <1>4, <1>5, Fields DEF IInv, GateInv, Run, Hydrating
  <1>11. RunInv'
    <2>1. Run' = Run /\ op.at \notin {"observing", "running", "ending"}
          /\ op'.at \notin {"observing", "running", "ending"}
      BY <1>3, <1>4 DEF Run
    <2> QED
      BY <1>1, <1>3, <1>4, <2>1 DEF IInv, RunInv
  <1>12. ClockInv'
    BY <1>1, <1>3, <1>4, <1>5, Fields DEF IInv, ClockInv, Run
  <1>13. LeaseInv'
    BY <1>1, <1>3, <1>4, <1>5, Fields DEF IInv, LeaseInv, Run, Reconciling
  <1>14. HighInv'
    BY <1>1, <1>3, <1>4, <1>5, Fields DEF IInv, HighInv, Run
  <1> QED
    BY <1>6, <1>7, <1>8, <1>9, <1>10, <1>11, <1>12, <1>13, <1>14 DEF IInv

\* The record of another session is replaced, and an unlock starts the clock.
LEMMA ReconcileSeedsStep ==
    ASSUME IInv, ReconcileSeeds
    PROVE  IInv'
PROOF
  <1>1. UNCHANGED <<wall, mono, timeout, stale, session, recovery, ctl, alarm,
                         actions, act, queue, stage, gate, clients, boot, used>>
    BY DEF ReconcileSeeds, clockVars, settingVars, storageVars, ctlVars, actionVars,
       queueVars
  <1>2. op.at = "seeding" /\ op' = [op EXCEPT !.at = "observing"]
    BY DEF ReconcileSeeds, OpMoves
  <1>3. /\ op' \in OpRec /\ op.at = "seeding" /\ op'.at = "observing"
    /\ op'.binding = op.binding
        /\ op'.timeout = op.timeout /\ op'.kind = op.kind /\ op'.now = op.now
        /\ op'.flag = op.flag
    BY <1>2, Typed DEF OpRec, Hydrating
  <1>4. op' # NoOp /\ op # NoOp /\ op.kind \in Reconciling
    BY <1>2, <1>3, NoneTypes DEF IInv, ShapeInv, Hydrating
  <1>5. /\ activity' \in [binding : Nat, active : Nat, seen : Nat]
        /\ activity'.binding = op.binding
        /\ \/ activity' = activity /\ idle' = idle
           \/ activity'.active = wall /\ activity'.seen = wall /\ idle' = 0
    <2>1. wall \in Nat /\ op.binding \in Nat
      BY Fields
    <2>2. CASE op.flag \/ activity.binding # op.binding
      <3>1. activity' = [binding |-> op.binding, active |-> wall, seen |-> wall] /\ idle' = 0
        BY <2>2 DEF ReconcileSeeds
      <3> QED
        BY <2>1, <3>1
    <2>3. CASE ~(op.flag \/ activity.binding # op.binding)
      BY <2>3, Typed DEF ReconcileSeeds
    <2> QED
      BY <2>2, <2>3
  <1>6. high' = high \/ high' = 0
    BY DEF ReconcileSeeds
  <1>7. activity.binding = op.binding \/ high' = 0
    BY DEF ReconcileSeeds
  <1>8. activity' = activity \/ high' = 0
    <2>1. CASE activity.binding # op.binding
      BY <1>7, <2>1
    <2>2. CASE ~op.flag /\ activity.binding = op.binding
      BY <2>2 DEF ReconcileSeeds
    <2>3. CASE op.flag /\ activity.binding = op.binding
      <3>1. op.kind = "settle"
        BY <1>4, <2>3 DEF IInv, ShapeInv, Reconciling
      <3>2. stage.at = "reconciling" /\ stage.ok /\ session.open
        BY <2>3, <3>1 DEF IInv, ShapeInv
      <3>3. op.binding = session.binding
        BY <1>2, <3>2 DEF IInv, GateInv, Hydrating
      <3>4. high = 0
        BY <2>3, <3>2, <3>3 DEF IInv, HighInv
      <3> QED
        BY <1>6, <3>4
    <2> QED
      BY <2>1, <2>2, <2>3
  <1>9. Types'
    BY <1>1, <1>3, <1>4, <1>5, <1>6, <1>7, <1>8 DEF IInv, Types, ClockTypes,
       StorageTypes, ControlTypes, QueueTypes, OtherTypes
  <1>10. ActionInv'
    BY <1>1 DEF IInv, ActionInv
  <1>11. ShapeInv'
    BY <1>1, <1>3, <1>4, <1>5, <1>6, <1>7, <1>8, Fields DEF IInv, ShapeInv, Hydrating,
       Reconciling, Observing
  <1>12. BindingInv'
    BY <1>1, <1>3, <1>4, <1>5, <1>6, <1>7, <1>8, Fields DEF IInv, BindingInv,
       Hydrating
  <1>13. GateInv'
    BY <1>1, <1>3, <1>4, <1>5, <1>6, <1>7, <1>8, Fields DEF IInv, GateInv, Run,
       Hydrating
  <1>14. RunInv'
    <2>1. op'.timeout = timeout' \/ stale'
      BY <1>1, <1>3 DEF IInv, RunInv, Hydrating
    <2>2. activity'.active <= activity'.seen
      BY <1>5, Fields DEF IInv, RunInv
    <2>3. Run' = Run /\ op.at # "ending" /\ op'.at \in {"observing", "running"}
      BY <1>1, <1>3 DEF Run
    <2> QED
      BY <1>1, <2>1, <2>2, <2>3 DEF IInv, RunInv
  <1>15. ClockInv'
    BY <1>1, <1>3, <1>4, <1>5, <1>6, <1>7, <1>8, Fields DEF IInv, ClockInv, Run
  <1>16. LeaseInv'
    BY <1>1, <1>3, <1>4, <1>5, <1>6, <1>7, <1>8, Fields DEF IInv, LeaseInv, Run,
       Reconciling
  <1>17. HighInv'
    <2>1. CASE activity' = activity /\ high' = high
      BY <1>1, <2>1 DEF IInv, HighInv, Run
    <2>2. CASE high' = 0
      <3>1. activity'.seen \in Nat /\ Run'.seen \in Nat
        BY <1>1, <1>5, Fields DEF Run
      <3> QED
        BY <1>1, <2>2, <3>1 DEF HighInv
    <2> QED
      BY <1>6, <1>8, <2>1, <2>2
  <1> QED
    BY <1>9, <1>10, <1>11, <1>12, <1>13, <1>14, <1>15, <1>16, <1>17 DEF IInv

\* The wall clock is observed.
LEMMA ReconcileObservesStep ==
    ASSUME IInv, ReconcileObserves
    PROVE  IInv'
PROOF
  <1>1. UNCHANGED <<wall, mono, idle, high, timeout, stale, session, recovery, ctl,
                         alarm, actions, act, queue, stage, gate, clients, boot,
                         used>>
    BY DEF ReconcileObserves, clockVars, settingVars, storageVars, ctlVars,
       actionVars, queueVars
  <1>2. op.at = "observing" /\ op' = [op EXCEPT !.at = "running", !.now = wall]
    BY DEF ReconcileObserves
  <1>3. /\ op' \in OpRec /\ op.at = "observing" /\ op'.at = "running"
    /\ op'.binding = op.binding
        /\ op'.timeout = op.timeout /\ op'.kind = op.kind /\ op'.now = wall
        /\ op'.flag = op.flag
    <2>1. wall \in Nat /\ op \in OpRec
      BY Typed, Fields
    <2> QED
      BY <1>2, <2>1 DEF OpRec, Hydrating
  <1>4. op' # NoOp /\ op # NoOp /\ op.kind \in Reconciling
    BY <1>2, <1>3, NoneTypes DEF IInv, ShapeInv, Hydrating
  <1>5. /\ activity' \in [binding : Nat, active : Nat, seen : Nat]
        /\ activity'.binding = activity.binding /\ activity'.active = activity.active
        /\ activity' = activity \/ activity'.seen = wall
        /\ activity.seen <= activity'.seen
    <2>1. wall \in Nat /\ activity.seen \in Nat
          /\ activity \in [binding : Nat, active : Nat, seen : Nat]
      BY Typed, Fields
    <2>2. activity' = IF wall >= activity.seen
                       THEN [activity EXCEPT !.seen = wall] ELSE activity
      BY DEF ReconcileObserves
    <2> QED
      BY <2>1, <2>2
  <1>6. Types'
    BY <1>1, <1>3, <1>4, <1>5 DEF IInv, Types, ClockTypes, StorageTypes, ControlTypes,
       QueueTypes, OtherTypes
  <1>7. ActionInv'
    BY <1>1 DEF IInv, ActionInv
  <1>8. ShapeInv'
    BY <1>1, <1>3, <1>4, <1>5, Fields DEF IInv, ShapeInv, Hydrating, Reconciling,
       Observing
  <1>9. BindingInv'
    BY <1>1, <1>3, <1>4, <1>5, Fields DEF IInv, BindingInv, Hydrating
  <1>10. GateInv'
    BY <1>1, <1>3, <1>4, <1>5, Fields DEF IInv, GateInv, Run, Hydrating
  <1>11. RunInv'
    <2>1. op'.timeout = timeout' \/ stale'
      BY <1>1, <1>3 DEF IInv, RunInv, Hydrating
    <2>2. activity'.active <= activity'.seen
      BY <1>5, Fields DEF IInv, RunInv
    <2>3. Run' = Run /\ op.at # "ending" /\ op'.at \in {"observing", "running"}
      BY <1>1, <1>3 DEF Run
    <2> QED
      BY <1>1, <2>1, <2>2, <2>3 DEF IInv, RunInv
  <1>12. ClockInv'
    BY <1>1, <1>3, <1>4, <1>5, Fields DEF IInv, ClockInv, Run, Reconciling
  <1>13. LeaseInv'
    BY <1>1, <1>3, <1>4, <1>5, Fields DEF IInv, LeaseInv, Run, Reconciling
  <1>14. HighInv'
    BY <1>1, <1>3, <1>4, <1>5, Fields DEF IInv, HighInv, Run
  <1> QED
    BY <1>6, <1>7, <1>8, <1>9, <1>10, <1>11, <1>12, <1>13, <1>14 DEF IInv

\* A reconciliation ends, and the controller serves.
LEMMA ReconcileEndsStep ==
    ASSUME IInv, ReconcileEnds
    PROVE  IInv'
PROOF
  <1>1. UNCHANGED <<wall, mono, idle, high, timeout, stale, session, activity,
                         recovery, actions, act, queue, gate, clients, boot, used>>
    BY DEF ReconcileEnds, clockVars, settingVars, storageVars, actionVars, queueVars
  <1>2. /\ op.at = "ending" /\ op.kind \in Reconciling /\ op' = NoOp
        /\ stage' = StageAfter(FALSE, actions) /\ Scheduled(Run.deadline) /\ actions' = actions
    BY DEF ReconcileEnds, OpEnds, Reconciling, actionVars
  <1>3. ctl' \in CtlRec /\ ctl'.phase = "ready" /\ ctl'.generation = ctl.generation
        /\ ctl'.run = ctl.run
    BY Typed DEF ReconcileEnds, CtlRec
  <1>4. StageFollows /\ stage' \in StageRec
    BY <1>2, StageAfterEffect DEF StageFollows
  <1>5. boot # "starting"
    BY <1>2, NoneTypes DEF IInv, ShapeInv
  <1>6. op' \in OpRec /\ op'.kind = "none" /\ op'.at = "none" /\ op'.now = 0
    BY <1>2, NoneTypes
  <1>7. alarm' \in Times
    BY <1>2, Typed, Fields DEF Scheduled, Times
  <1>8. ctl'.run # NoRun /\ stage.at # "settling" => ctl'.run.binding = session.binding
    BY <1>2, <1>3 DEF IInv, GateInv, Run
  <1>9. Types'
    BY <1>1, <1>3, <1>4, <1>5, <1>6, <1>7 DEF IInv, Types, ClockTypes, StorageTypes,
       ControlTypes, QueueTypes, OtherTypes
  <1>10. ShapeInv' /\ ActionInv' /\ BindingInv' /\ GateInv'
    BY <1>1, <1>2, <1>4, <1>5, <1>8, ReconcileFrame
  <1>11. RunInv'
    <2>1. op.at \notin {"observing", "running"} /\ op'.at \notin Hydrating
      BY <1>2, <1>6 DEF Hydrating
    <2> QED
      BY <1>1, <1>3, <2>1 DEF IInv, RunInv, Run
  <1>12. ClockInv'
    BY <1>1, <1>3, <1>4, <1>5, <1>6, <1>7, Fields DEF IInv, ClockInv, Run
  <1>13. LeaseInv'
    BY <1>1, <1>3, <1>4, <1>5, <1>6, <1>7, Fields DEF IInv, LeaseInv, Run
  <1>14. HighInv'
    <2>1. ctl'.run # NoRun => high <= ctl'.run.seen
      BY <1>3 DEF IInv, HighInv, Run
    <2> QED
      BY <1>1, <1>4, <2>1, HighKept DEF StageFollows
  <1> QED
    BY <1>9, <1>10, <1>11, <1>12, <1>13, <1>14 DEF IInv

\* A refused write fails the reconciliation closed.
LEMMA ReconcileFailsStep ==
    ASSUME IInv, ReconcileFails
    PROVE  IInv'
PROOF
  <1>1. UNCHANGED <<wall, mono, idle, high, timeout, stale, session, activity,
                         recovery, alarm, act, queue, gate, clients>>
    BY DEF ReconcileFails, Disturb, Spend, FailClosed, clockVars, settingVars,
       storageVars, ctlVars, actionVars, queueVars
  <1>2. /\ op.at \in {"reading", "seeding", "observing", "ending"} /\ op.kind \in Reconciling
        /\ op' = NoOp /\ stage' = StageAfter(TRUE, actions') /\ Disturb("faults", MaxFaults)
        /\ FailClosed(FailTarget, ~(op.kind = "settle" /\ Executing))
        /\ boot' = IF op.kind = "initialize" THEN "failed" ELSE boot
    BY DEF ReconcileFails, OpEnds, Reconciling
  <1>3. /\ ctl' \in CtlRec /\ ctl'.run = NoRun /\ ctl'.generation = ctl.generation + 1
        /\ actions' \in Seq(Nat) /\ (actions # <<>> => actions' # <<>>)
    BY <1>2, FailTargetType, FailClosedEffect
  <1>4. StageFollows /\ stage' \in StageRec
    BY <1>2, StageAfterEffect DEF StageFollows
  <1>5. boot' # "starting" /\ boot' \in {boot, "failed"}
    BY <1>2, NoneTypes DEF IInv, ShapeInv
  <1>6. op' \in OpRec /\ op'.kind = "none" /\ op'.at = "none" /\ op'.now = 0
    BY <1>2, NoneTypes
  <1>7. used' \in UsedRec /\ used'.sessions = used.sessions /\ used'.rollbacks = used.rollbacks
    BY <1>2, Counted, Fields
  <1>8. Types'
    BY <1>1, <1>3, <1>4, <1>5, <1>6, <1>7 DEF IInv, Types, ClockTypes, StorageTypes,
       ControlTypes, QueueTypes, OtherTypes
  <1>9. ShapeInv' /\ ActionInv' /\ BindingInv' /\ GateInv'
    BY <1>1, <1>2, <1>3, <1>4, <1>5, <1>7, ReconcileFrame
  <1>10. RunInv'
    <2>1. activity'.active <= activity'.seen /\ op'.at \notin Hydrating
      BY <1>1, <1>6 DEF IInv, RunInv, Hydrating
    <2> QED
      BY <1>3, <2>1, RunDropped
  <1>11. ClockInv'
    <2>1. Run'.active = 0 /\ Run'.seen = 0
      BY <1>3, NoneTypes DEF Run
    <2> QED
      BY <1>1, <1>6, <1>7, <2>1, Fields DEF IInv, ClockInv
  <1>12. LeaseInv'
    BY <1>1, <1>3, <1>6, LeasesOutlived DEF IInv, LeaseInv, Run
  <1>13. HighInv'
    BY <1>1, <1>3, <1>4, <1>7, HighKept DEF IInv, HighInv, Run, StageFollows
  <1> QED
    BY <1>8, <1>9, <1>10, <1>11, <1>12, <1>13 DEF IInv
\* A hydrated run is of a new generation, which no lease has.
LEMMA RunIsNew ==
    ASSUME IInv, op.at = "running", ctl' \in CtlRec, ctl'.run = NewRun,
           ctl'.generation = ctl.generation + 1,
           UNCHANGED <<timeout, stale, activity, wall, idle, high, clients, used, queue>>,
           op' = NoOp \/ (op'.at = "ending" /\ op'.kind = op.kind /\ op'.now = op.now),
           op' = NoOp => ctl'.phase = "ready"
    PROVE  RunInv' /\ ClockInv' /\ LeaseInv'
PROOF
  <1>1. /\ op.kind \in Reconciling /\ op.kind # "checkpoint" /\ op.kind # "activity"
        /\ op.timeout = timeout \/ stale
        /\ activity.binding = op.binding /\ activity.active <= activity.seen
    BY DEF IInv, ShapeInv, BindingInv, RunInv, Hydrating, Reconciling
  <1>2. /\ Run' # NoRun /\ Run'.generation = ctl.generation + 1 /\ Run'.binding = op.binding
        /\ Run'.timeout = op.timeout /\ Run'.active = activity.active
        /\ Run'.seen = activity.seen /\ Run'.deadline = After(activity.active, op.timeout)
    BY NewRunFields DEF Run
  <1>3. /\ op'.at \in {"none", "ending"} /\ op'.kind \notin {"checkpoint", "activity"}
        /\ op'.now \in {0, op.now}
        /\ op'.at = "ending" => op'.kind \in Reconciling
        /\ op'.at = "none" => ctl'.phase = "ready"
    BY <1>1, NoneTypes
  <1>4. /\ ctl.generation \in Nat /\ wall \in Nat /\ op.now \in Nat /\ idle \in Nat
        /\ activity.active \in Nat /\ activity.seen \in Nat
        /\ \A c \in Clients : clients[c].generation \in Nat
    BY Fields
  <1>5. RunInv'
    <2>1. op'.at \notin Hydrating \cup {"observing", "running"}
      BY <1>3 DEF Hydrating
    <2>2. ctl.generation + 1 > 0
      BY <1>4
    <2> QED
      BY <1>1, <1>2, <1>3, <2>1, <2>2 DEF RunInv
  <1>6. ClockInv'
    BY <1>2, <1>3, <1>4 DEF IInv, ClockInv
  <1>7. LeaseInv'
    <2>1. \A c \in Clients : clients[c].generation <= ctl.generation
      BY DEF IInv, LeaseInv
    <2> QED
      BY <1>2, <1>3, <1>4, <2>1 DEF LeaseInv
  <1> QED
    BY <1>5, <1>6, <1>7

\* A run is hydrated, unless it has already expired.
LEMMA ReconcileRunsStep ==
    ASSUME IInv, ReconcileRuns
    PROVE  IInv'
PROOF
  <1>1. UNCHANGED <<wall, mono, idle, high, timeout, stale, session, activity, recovery, alarm,
                    act, queue, gate, clients, boot, used>>
    BY DEF ReconcileRuns, clockVars, settingVars, storageVars
  <1>2. op.at = "running"
    BY DEF ReconcileRuns
  <1>3. /\ NewRun \in RunRec /\ NewRun # NoRun /\ NewRun.binding = op.binding
        /\ NewRun.seen = activity.seen /\ NewRun.expired \in BOOLEAN
    BY <1>2, NewRunFields
  <1>4. /\ ctl' \in CtlRec /\ ctl'.run = NewRun /\ ctl'.generation = ctl.generation + 1
        /\ NewRun.expired => ctl'.phase = "ready"
    <2> DEFINE p == IF NewRun.expired THEN "ready" ELSE ctl.phase
    <2>1. ctl' = [ctl EXCEPT !.generation = @ + 1, !.run = NewRun, !.phase = p]
      BY DEF ReconcileRuns
    <2>2. ctl \in CtlRec
      BY Typed
    <2>3. ctl.generation + 1 \in Nat
      <3>1. ctl.generation \in Nat
        BY Fields
      <3> QED
        BY <3>1
    <2>4. /\ p \in {"uninitialized", "ready", "transitioning", "failed"}
          /\ NewRun.expired => p = "ready"
      BY <2>2 DEF CtlRec
    <2> HIDE DEF p
    <2>5. ctl' = [phase |-> p, generation |-> ctl.generation + 1, run |-> NewRun,
                  target |-> ctl.target]
      BY <2>1, <2>2 DEF CtlRec
    <2> QED
      BY <1>3, <2>2, <2>3, <2>4, <2>5 DEF CtlRec
  <1>5. op.kind \in Reconciling /\ boot # "starting" /\ op # NoOp
    BY <1>2, NoneTypes DEF IInv, ShapeInv, Hydrating
  <1>6. stage.at # "settling" => op.binding = session.binding
    BY <1>2 DEF IInv, GateInv, Hydrating
  <1>7. high <= ctl'.run.seen
    BY <1>3, <1>4 DEF IInv, HighInv
  <1>8. CASE NewRun.expired
    <2>1. /\ actions' = Append(actions, op.binding) /\ op' = NoOp
          /\ stage' = StageAfter(FALSE, actions')
      BY <1>8 DEF ReconcileRuns, OpEnds
    <2>2. StageFollows /\ stage' \in StageRec
      BY <2>1, StageAfterEffect DEF StageFollows
    <2>3. actions' \in Seq(Nat) /\ actions' # <<>>
      <3>1. actions \in Seq(Nat) /\ op.binding \in Nat
        BY Typed, Fields
      <3> QED
        BY <2>1, <3>1, QueueAppend
    <2>4. Types'
      BY <1>1, <1>4, <2>1, <2>2, <2>3, NoneTypes
         DEF IInv, Types, ClockTypes, StorageTypes, ControlTypes, QueueTypes, OtherTypes
    <2>5. ShapeInv' /\ ActionInv' /\ BindingInv' /\ GateInv'
      BY <1>1, <1>3, <1>4, <1>5, <1>6, <2>1, <2>2, <2>3, ReconcileFrame
    <2>6. RunInv' /\ ClockInv' /\ LeaseInv'
      BY <1>1, <1>2, <1>4, <1>8, <2>1, RunIsNew
    <2>7. HighInv'
      BY <1>1, <1>7, <2>2, HighKept DEF StageFollows
    <2> QED
      BY <2>4, <2>5, <2>6, <2>7 DEF IInv
  <1>9. CASE ~NewRun.expired
    <2>1. /\ op' = [op EXCEPT !.at = "ending", !.generation = ctl.generation + 1]
          /\ actions' = actions /\ stage' = stage
      BY <1>9 DEF ReconcileRuns
    <2>2. /\ op' \in OpRec /\ op'.at = "ending" /\ op'.kind = op.kind /\ op'.now = op.now
          /\ op'.flag = op.flag
      <3>1. ctl.generation + 1 \in Nat
        <4>1. ctl.generation \in Nat
          BY Fields
        <4> QED
          BY <4>1
      <3>2. op \in OpRec
        BY Typed
      <3> QED
        BY <2>1, <3>1, <3>2 DEF OpRec
    <2>3. Types'
      BY <1>1, <1>4, <2>1, <2>2
         DEF IInv, Types, ClockTypes, StorageTypes, ControlTypes, QueueTypes, OtherTypes
    <2>4. op' # NoOp
      BY <2>2, NoneTypes
    <2>5. ShapeInv'
      BY <1>1, <1>5, <2>1, <2>2, <2>4 DEF IInv, ShapeInv, Hydrating
    <2>6. ActionInv'
      BY <1>1, <2>1 DEF IInv, ActionInv
    <2>7. BindingInv'
      BY <1>1, <2>1, <2>2 DEF IInv, BindingInv, Hydrating
    <2>8. GateInv'
      BY <1>1, <1>3, <1>4, <1>6, <2>1, <2>2 DEF IInv, GateInv, Run, Hydrating
    <2>9. RunInv' /\ ClockInv' /\ LeaseInv'
      BY <1>1, <1>2, <1>4, <2>2, <2>4, RunIsNew
    <2>10. HighInv'
      BY <1>1, <1>7, <2>1, HighKept
    <2> QED
      BY <2>3, <2>5, <2>6, <2>7, <2>8, <2>9, <2>10 DEF IInv
  <1> QED
    BY <1>8, <1>9

LEMMA SameRunIs ==
    ASSUME IInv, SameRun
    PROVE  /\ Run' = NoRun <=> Run = NoRun
           /\ Run'.generation = Run.generation /\ Run'.binding = Run.binding
           /\ Run'.timeout = Run.timeout /\ Run' \in RunRec
           /\ ctl'.phase = ctl.phase /\ ctl'.generation = ctl.generation /\ ctl' \in CtlRec
           /\ Run'.active \in Nat /\ Run'.seen \in Nat
  BY DEF SameRun, Run, RunRec

\* The end of a run, or none, in the middle of whatever the worker is doing.
LEMMA ExpiryKeeps ==
    ASSUME IInv, SameRun, SameDeadline, ctl'.run.seen = ctl.run.seen, MoreActions,
           UNCHANGED <<clockVars, settingVars, storageVars, alarm, op, act, queueVars, boot,
                       used>>,
           clients' \in [Clients -> ClientRec],
           \A c \in Clients :
             /\ clients'[c].generation \in {0, clients[c].generation}
             /\ clients[c].pc = "checking" => clients'[c] = clients[c]
    PROVE  IInv'
PROOF
  <1>1. UNCHANGED <<wall, mono, idle, high, timeout, stale, session, activity, recovery, alarm,
                    op,
                    act, queue, stage, gate, boot, used>>
    BY DEF clockVars, settingVars, storageVars, queueVars
  <1>2. Types'
    BY <1>1 DEF IInv, Types, ClockTypes, StorageTypes, ControlTypes, QueueTypes, OtherTypes,
                SameRun, MoreActions
  <1>3. ShapeInv' /\ ActionInv' /\ BindingInv' /\ GateInv'
    BY <1>1, ObserverFrame
  <1>4. Run'.active = Run.active /\ Run'.deadline = Run.deadline /\ Run'.seen = Run.seen
    BY DEF SameDeadline, Run
  <1>5. RunInv'
    BY <1>1, <1>4, SameRunIs DEF IInv, RunInv
  <1>6. ClockInv'
    BY <1>1, <1>4 DEF IInv, ClockInv
  <1>7. LeaseInv'
    <2>1. \A c \in Clients : clients'[c].generation <= ctl.generation
      <3>1. ctl.generation \in Nat
        BY Fields
      <3> QED
        BY <3>1 DEF IInv, LeaseInv
    <2>2. ASSUME NEW c \in Clients, Run' # NoRun, Run'.generation = clients'[c].generation
          PROVE  queue' = <<>>
      <3>1. Run.generation > 0 /\ Run # NoRun /\ Run.generation = clients'[c].generation
        BY <2>2, SameRunIs DEF IInv, RunInv
      <3>2. Run.generation = clients[c].generation
        BY <3>1
      <3> QED
        BY <1>1, <3>1, <3>2 DEF IInv, LeaseInv
    <2>3. op.kind = "checkpoint" =>
            op.client \in Clients /\ clients'[op.client] = clients[op.client]
      BY DEF IInv, LeaseInv
    <2> QED
      BY <1>1, <2>1, <2>2, <2>3, SameRunIs DEF IInv, LeaseInv
  <1>8. HighInv'
    BY <1>1, <1>4, SameRunIs DEF IInv, HighInv
  <1> QED
    BY <1>2, <1>3, <1>5, <1>6, <1>7, <1>8 DEF IInv

\* An operation that reads the clock begins: the observation, or the activity,
\* becomes durable.
LEMMA ObservationBegins ==
    ASSUME IInv, op = NoOp, Run # NoRun, SameRun, SameDeadline, ctl'.run.seen = ctl.run.seen,
           MoreActions, UNCHANGED <<wall, high, timeout, stale, session, act, queue, stage,
                                    gate,
                                    boot, used>>,
           activity' \in [binding : Nat, active : Nat, seen : Nat], idle' \in Nat,
           activity'.binding = Run.binding,
           \/ activity' = activity /\ idle' = idle
           \/ /\ wall >= Run.seen /\ activity'.seen = wall
              /\ \/ activity'.active = Run.active /\ idle' = idle
                 \/ activity'.active = wall /\ idle' = 0,
           \/ op' = NoOp
           \/ /\ op' \in OpRec /\ op'.kind \in Observing /\ op'.at = "ending" /\ op'.now = wall
              /\ op'.kind = "activity" /\ ~op'.flag => idle' = 0,
           op'.kind = "checkpoint" =>
             /\ op'.client \in Clients /\ clients'[op'.client].pc = "checking"
             /\ op'.generation = clients'[op'.client].generation
             /\ ~op'.flag => activity'.seen = wall /\ wall >= Run.seen,
           \A c \in Clients : clients'[c].generation \in {0, clients[c].generation}
    PROVE  ShapeInv' /\ ActionInv' /\ BindingInv' /\ GateInv' /\ RunInv' /\ ClockInv'
      /\ LeaseInv'
             /\ HighInv'
PROOF
  <1>1. op.at = "none" /\ op.kind = "none" /\ op.now = 0
    BY NoneTypes
  <1>2. ctl.phase = "ready" /\ activity.binding = Run.binding
    BY <1>1 DEF IInv, RunInv
  <1>3. ShapeInv' /\ ActionInv' /\ BindingInv' /\ GateInv'
    <2>1. op.kind \notin Reconciling
      BY <1>1 DEF Reconciling
    <2> QED
      BY <1>2, <2>1, ObserverFrame
  <1>4. Run'.active = Run.active /\ Run'.deadline = Run.deadline /\ Run'.seen = Run.seen
    BY DEF SameDeadline, Run
  <1>5. /\ op'.at \in {"none", "ending"} /\ op'.at \notin Hydrating
        /\ op'.now \in {0, wall}
    BY NoneTypes DEF Hydrating
  <1>6. /\ wall \in Nat /\ idle \in Nat /\ high \in Nat /\ Run.seen \in Nat
    /\ Run.active \in Nat
        /\ activity.seen \in Nat /\ activity.active \in Nat
    BY Fields
  <1>7. RunInv'
    <2>1. activity'.active <= activity'.seen
      BY <1>6 DEF IInv, RunInv
    <2> QED
      BY <1>2, <1>4, <1>5, <2>1, SameRunIs DEF IInv, RunInv
  <1>8. ClockInv'
    <2>1. SUFFICES ASSUME used.rollbacks = 0
                   PROVE  /\ activity'.seen <= wall /\ activity'.active + idle' <= wall
                          /\ Run.seen <= wall /\ Run.active + idle' <= wall
                          /\ op'.now <= wall
                          /\ op'.kind = "activity" /\ ~op'.flag => op'.now + idle' <= wall
      BY <1>4 DEF ClockInv
    <2>2. /\ activity.seen <= wall /\ activity.active + idle <= wall
          /\ Run.seen <= wall /\ Run.active + idle <= wall /\ Run.active <= Run.seen
      BY <2>1 DEF IInv, ClockInv, RunInv
    <2>3. op'.kind = "activity" /\ ~op'.flag => op'.now + idle' <= wall
      BY <1>6, NoneTypes
    <2> QED
      BY <1>5, <1>6, <2>2, <2>3
  <1>9. LeaseInv'
    <2>1. \A c \in Clients : clients'[c].generation <= ctl.generation
      <3>1. ctl.generation \in Nat
        BY Fields
      <3> QED
        BY <3>1 DEF IInv, LeaseInv
    <2>2. ASSUME NEW c \in Clients, Run' # NoRun, Run'.generation = clients'[c].generation
          PROVE  queue' = <<>>
      <3>1. Run.generation > 0 /\ Run # NoRun /\ Run.generation = clients'[c].generation
        BY <2>2, SameRunIs DEF IInv, RunInv
      <3>2. Run.generation = clients[c].generation
        BY <3>1
      <3> QED
        BY <3>1, <3>2 DEF IInv, LeaseInv
    <2>3. high <= Run.seen
      BY DEF IInv, HighInv
    <2>4. op'.kind = "checkpoint" => op'.now = wall
      BY NoneTypes
    <2>5. op'.kind = "checkpoint" =>
            /\ op'.client \in Clients /\ clients'[op'.client].pc = "checking"
            /\ op'.generation = clients'[op'.client].generation
            /\ ~op'.flag => high' <= op'.now /\ op'.now <= activity'.seen
      BY <1>6, <2>3, <2>4
    <2> QED
      BY <2>1, <2>2, <2>5, SameRunIs DEF LeaseInv
  <1>10. HighInv'
    <2>1. high <= activity'.seen
      BY <1>6 DEF IInv, HighInv
    <2> QED
      BY <1>2, <1>4, <2>1, SameRunIs DEF IInv, HighInv
  <1> QED
    BY <1>3, <1>7, <1>8, <1>9, <1>10

\* ... and ends: the run, if it is still the one, has seen the clock.
LEMMA ObservationEnds ==
    ASSUME IInv, op.kind \in Observing, op' = NoOp, SameRun, MoreActions,
           UNCHANGED <<wall, idle, timeout, stale, session, activity, act, queue, stage, gate,
                       boot>>,
           used'.sessions = used.sessions, used'.rollbacks = used.rollbacks,
           Run'.active <= Run'.seen,
           Run # NoRun => Run'.deadline = After(Run'.active, Run'.timeout),
           used.rollbacks = 0 => Run'.seen <= wall /\ Run'.active + idle <= wall,
           \A c \in Clients : clients'[c].generation \in {0, clients[c].generation}
    PROVE  ShapeInv' /\ ActionInv' /\ BindingInv' /\ GateInv' /\ RunInv' /\ ClockInv'
      /\ LeaseInv'
PROOF
  <1>1. /\ op'.at = "none" /\ op'.kind = "none" /\ op'.now = 0
        /\ op # NoOp /\ op.kind \notin Reconciling
    BY NoneTypes DEF Reconciling, Observing
  <1>2. op.at = "ending"
    BY <1>1, NoneTypes DEF IInv, ShapeInv, OpRec, Types, ControlTypes
  <1>3. ShapeInv' /\ ActionInv' /\ BindingInv' /\ GateInv'
    BY <1>1, ObserverFrame
  <1>4. RunInv'
    <2>1. op'.at \notin Hydrating \cup {"observing", "running"}
      BY <1>1 DEF Hydrating
    <2> QED
      BY <1>1, <1>2, <2>1, SameRunIs DEF IInv, RunInv
  <1>5. ClockInv'
    <2>1. wall \in Nat
      BY Fields
    <2> QED
      BY <1>1, <2>1 DEF IInv, ClockInv
  <1>6. LeaseInv'
    <2>1. \A c \in Clients : clients'[c].generation <= ctl.generation
      <3>1. ctl.generation \in Nat
        BY Fields
      <3> QED
        BY <3>1 DEF IInv, LeaseInv
    <2>2. ASSUME NEW c \in Clients, Run' # NoRun, Run'.generation = clients'[c].generation
          PROVE  queue' = <<>>
      <3>1. Run.generation > 0 /\ Run # NoRun /\ Run.generation = clients'[c].generation
        BY <2>2, SameRunIs DEF IInv, RunInv
      <3>2. Run.generation = clients[c].generation
        BY <3>1
      <3> QED
        BY <3>1, <3>2 DEF IInv, LeaseInv
    <2> QED
      BY <1>1, <2>1, <2>2, SameRunIs DEF LeaseInv
  <1> QED
    BY <1>3, <1>4, <1>5, <1>6

\* A preflight finds the run over.
LEMMA PreflightExpiresStep ==
    ASSUME IInv, PreflightExpires
    PROVE  IInv'
PROOF
  <1>1. /\ ExpireIf(TRUE, Run) /\ clients' = clients
        /\ UNCHANGED <<clockVars, settingVars, storageVars, alarm, op, act, queueVars, boot,
                       used>>
    BY DEF PreflightExpires
  <1>2. SameRun /\ SameDeadline /\ ctl'.run.seen = ctl.run.seen /\ MoreActions
    BY <1>1, ExpireEffect
  <1>3. clients' \in [Clients -> ClientRec]
    BY <1>1, Typed
  <1> QED
    BY <1>1, <1>2, <1>3, ExpiryKeeps

\* The system is locked.
LEMMA SystemLockedStep ==
    ASSUME IInv, SystemLocked
    PROVE  IInv'
PROOF
  <1>1. /\ ExpireIf(TRUE, Run) /\ clients' = clients
        /\ UNCHANGED <<clockVars, settingVars, storageVars, alarm, op, act, queueVars, boot,
                       used>>
    BY DEF SystemLocked
  <1>2. SameRun /\ SameDeadline /\ ctl'.run.seen = ctl.run.seen /\ MoreActions
    BY <1>1, ExpireEffect
  <1>3. clients' \in [Clients -> ClientRec]
    BY <1>1, Typed
  <1> QED
    BY <1>1, <1>2, <1>3, ExpiryKeeps

\* What a request does to its client.
LEMMA ClientDenied ==
    ASSUME IInv, NEW c \in Clients, NEW f, f = [clients EXCEPT ![c] = IdleClient]
    PROVE  /\ f \in [Clients -> ClientRec] /\ f[c].pc = "idle"
           /\ \A d \in Clients : f[d].generation \in {0, clients[d].generation}
           /\ \A d \in Clients : d # c => f[d] = clients[d]
PROOF
  <1>1. clients \in [Clients -> ClientRec] /\ IdleClient \in ClientRec
    BY Typed, NoneTypes
  <1>2. f[c] = IdleClient /\ \A d \in Clients : d # c => f[d] = clients[d]
    BY <1>1
  <1>3. f[c].generation = 0 /\ f[c].pc = "idle"
    BY <1>2, NoneTypes
  <1> QED
    BY <1>1, <1>2, <1>3

LEMMA ClientMoves ==
    ASSUME IInv, NEW c \in Clients, NEW f,
           NEW p \in {"idle", "captured", "checking", "proved", "released"},
           f = [clients EXCEPT ![c].pc = p]
    PROVE  /\ f \in [Clients -> ClientRec] /\ f[c].pc = p
           /\ \A d \in Clients : f[d].generation = clients[d].generation
           /\ \A d \in Clients : d # c => f[d] = clients[d]
PROOF
  <1>1. clients \in [Clients -> ClientRec] /\ clients[c] \in ClientRec
    BY Typed
  <1> DEFINE r == [clients[c] EXCEPT !.pc = p]
  <1>2. r \in ClientRec /\ r.pc = p /\ r.generation = clients[c].generation
    BY <1>1 DEF ClientRec
  <1>3. f = [clients EXCEPT ![c] = r]
    BY <1>1
  <1> HIDE DEF r
  <1> QED
    BY <1>1, <1>2, <1>3

\* A secret leaves, or is denied and may end the run.
LEMMA ReleaseStep ==
    ASSUME IInv, NEW c \in Clients, Release(c)
    PROVE  IInv'
PROOF
  <1>1. /\ UNCHANGED <<clockVars, settingVars, storageVars, alarm, op, act, queueVars, boot,
                       used>>
        /\ clients[c].pc = "proved"
        /\ ExpireIf(SessionHolds(c) /\ Reached(clients[c].deadline, mono), Run)
        /\ \/ clients' = [clients EXCEPT ![c].pc = "released"]
           \/ clients' = [clients EXCEPT ![c] = IdleClient]
    BY DEF Release
  <1>2. SameRun /\ SameDeadline /\ ctl'.run.seen = ctl.run.seen /\ MoreActions
    BY <1>1, ExpireEffect
  <1>3. /\ clients' \in [Clients -> ClientRec]
        /\ \A d \in Clients : clients'[d].generation \in {0, clients[d].generation}
        /\ \A d \in Clients : d # c => clients'[d] = clients[d]
    <2>1. CASE clients' = [clients EXCEPT ![c].pc = "released"]
      <3>1. clients \in [Clients -> ClientRec] /\ clients[c] \in ClientRec
        BY Typed
      <3> DEFINE r == [clients[c] EXCEPT !.pc = "released"]
      <3>2. r \in ClientRec /\ r.generation = clients[c].generation
        BY <3>1 DEF ClientRec
      <3>3. clients' = [clients EXCEPT ![c] = r]
        BY <2>1, <3>1
      <3> HIDE DEF r
      <3> QED
        BY <3>1, <3>2, <3>3
    <2>2. CASE clients' = [clients EXCEPT ![c] = IdleClient]
      BY <2>2, ClientDenied
    <2> QED
      BY <1>1, <2>1, <2>2
  <1>4. \A d \in Clients : clients[d].pc = "checking" => clients'[d] = clients[d]
    BY <1>1, <1>3
  <1> QED
    BY <1>1, <1>2, <1>3, <1>4, ExpiryKeeps

\* A lease is captured while the gate is open: no transition is queued.
LEMMA CaptureStep ==
    ASSUME IInv, NEW c \in Clients, Capture(c)
    PROVE  IInv'
PROOF
  <1> DEFINE r == [pc |-> "captured", generation |-> Run.generation, binding |-> Run.binding,
                   session |-> gate.generation, deadline |-> Never]
  <1>1. UNCHANGED <<wall, mono, idle, high, timeout, stale, session, activity, recovery, ctl,
                    alarm,
                    op, actions, act, queue, stage, gate, boot, used>>
    BY DEF Capture, clockVars, settingVars, storageVars, ctlVars, actionVars, queueVars
  <1>2. /\ clients' = [clients EXCEPT ![c] = r] /\ gate.open /\ Run # NoRun
        /\ clients[c].pc \in {"idle", "released"}
    BY DEF Capture, Serving, Alive
  <1>3. r \in ClientRec /\ r.generation = Run.generation
    BY Fields DEF ClientRec, Times
  <1> HIDE DEF r
  <1>4. clients \in [Clients -> ClientRec]
    BY Typed
  <1>5. /\ clients' \in [Clients -> ClientRec] /\ clients'[c].generation = Run.generation
        /\ \A d \in Clients : d # c => clients'[d] = clients[d]
    BY <1>2, <1>3, <1>4
  <1>6. Types'
    BY <1>1, <1>5 DEF IInv, Types, ClockTypes, StorageTypes, ControlTypes, QueueTypes,
       OtherTypes
  <1>7. ShapeInv' /\ ActionInv' /\ BindingInv' /\ GateInv' /\ RunInv' /\ ClockInv' /\ HighInv'
    BY <1>1 DEF IInv, ShapeInv, ActionInv, BindingInv, GateInv, RunInv, ClockInv, HighInv, Run
  <1>8. LeaseInv'
    <2>1. queue = <<>> /\ Run.generation = ctl.generation /\ ctl.generation \in Nat
      BY <1>2, Fields DEF IInv, GateInv, RunInv
    <2>2. \A d \in Clients : /\ clients'[d].generation <= ctl.generation
                             /\ queue' = <<>>
      BY <1>1, <1>5, <2>1 DEF IInv, LeaseInv
    <2>3. op.kind = "checkpoint" =>
            op.client \in Clients /\ clients'[op.client] = clients[op.client]
      BY <1>2, <1>5 DEF IInv, LeaseInv
    <2> QED
      BY <1>1, <2>2, <2>3 DEF IInv, LeaseInv, Run
  <1> QED
    BY <1>6, <1>7, <1>8 DEF IInv

\* What persistObservation writes.
LEMMA ObservedEffect ==
    ASSUME IInv, op = NoOp, Run # NoRun, Observed
    PROVE  /\ activity' \in [binding : Nat, active : Nat, seen : Nat]
           /\ activity'.binding = Run.binding
           /\ \/ activity' = activity
              \/ wall >= Run.seen /\ activity'.seen = wall /\ activity'.active = Run.active
           /\ wall >= Run.seen => activity'.seen = wall
PROOF
  <1>1. op.at = "none"
    BY NoneTypes
  <1>2. activity.binding = Run.binding
    BY <1>1 DEF IInv, RunInv
  <1>3. /\ wall \in Nat /\ Run.binding \in Nat /\ Run.active \in Nat
        /\ activity \in [binding : Nat, active : Nat, seen : Nat]
    BY Typed, Fields
  <1> QED
    BY <1>2, <1>3 DEF Observed

\* The alarm fires.
LEMMA AlarmFiresStep ==
    ASSUME IInv, AlarmFires
    PROVE  IInv'
PROOF
  <1>1. UNCHANGED <<wall, mono, idle, high, timeout, stale, session, recovery, act, queue,
                    stage,
                    gate, clients, boot, used>>
    BY DEF AlarmFires, clockVars, settingVars, queueVars
  <1>2. op = NoOp /\ alarm' = Never /\ alarm' \in Times
    BY DEF AlarmFires, Free, Times
  <1>3. CASE ctl.phase = "ready" /\ Run.deadline # Never
    <2>1. /\ Observed /\ ExpireIf(Due(Run), Run)
          /\ op' = IF wall >= Run.seen THEN OpOf("alarm", Nobody) ELSE NoOp
      BY <1>3 DEF AlarmFires
    <2>2. Run # NoRun
      BY <1>3, NoneTypes
    <2>3. SameRun /\ SameDeadline /\ ctl'.run.seen = ctl.run.seen /\ MoreActions
      BY <2>1, ExpireEffect
    <2>4. /\ activity' \in [binding : Nat, active : Nat, seen : Nat]
          /\ activity'.binding = Run.binding
          /\ \/ activity' = activity
             \/ wall >= Run.seen /\ activity'.seen = wall /\ activity'.active = Run.active
      BY <1>2, <2>1, <2>2, ObservedEffect
    <2>5. \/ op' = NoOp
          \/ op' \in OpRec /\ op'.kind = "alarm" /\ op'.at = "ending" /\ op'.now = wall
      <3>1. CASE wall >= Run.seen
        <4>1. op' = OpOf("alarm", Nobody) /\ "alarm" \in Observing
          BY <2>1, <3>1 DEF Observing
        <4> QED
          BY <4>1, OpOfEffect
      <3>2. CASE ~(wall >= Run.seen)
        BY <2>1, <3>2
      <3> QED
        BY <3>1, <3>2
    <2>6. op'.kind \notin {"checkpoint", "activity"} /\ op' \in OpRec
      BY <2>5, NoneTypes
    <2>7. \/ op' = NoOp
          \/ op' \in OpRec /\ op'.kind \in Observing /\ op'.at = "ending" /\ op'.now = wall
      BY <2>5 DEF Observing
    <2>8. idle' \in Nat
      BY <1>1, Fields
    <2>9. /\ ShapeInv' /\ ActionInv' /\ BindingInv' /\ GateInv' /\ RunInv' /\ ClockInv'
          /\ LeaseInv' /\ HighInv'
      BY <1>1, <1>2, <2>2, <2>3, <2>4, <2>6, <2>7, <2>8, ObservationBegins
    <2>10. Types'
      BY <1>1, <1>2, <2>3, <2>4, <2>6
         DEF IInv, Types, ClockTypes, StorageTypes, ControlTypes, QueueTypes, OtherTypes,
             SameRun, MoreActions
    <2> QED
      BY <2>9, <2>10 DEF IInv
  <1>4. CASE ~(ctl.phase = "ready" /\ Run.deadline # Never)
    <2>1. UNCHANGED <<activity, ctl, actions, op>>
      BY <1>4 DEF AlarmFires
    <2>2. Types'
      BY <1>1, <1>2, <2>1
         DEF IInv, Types, ClockTypes, StorageTypes, ControlTypes, QueueTypes, OtherTypes
    <2> QED
      BY <1>1, <2>1, <2>2
         DEF IInv, ShapeInv, ActionInv, BindingInv, GateInv, RunInv, ClockInv, LeaseInv,
             HighInv, Run
  <1> QED
    BY <1>3, <1>4

\* Activity is recorded, unless the run is over.
LEMMA RecordActivityStep ==
    ASSUME IInv, NEW c \in Clients, RecordActivity(c)
    PROVE  IInv'
PROOF
  <1>1. UNCHANGED <<wall, mono, high, timeout, stale, session, recovery, alarm, act, queue,
                    stage,
                    gate, clients, boot, used>>
    BY DEF RecordActivity, settingVars, queueVars
  <1>2. /\ op = NoOp /\ Run # NoRun /\ ~Run.expired
        /\ ExpireIf(Due(Run), Run) /\ op' = OpOf("activity", c)
    BY DEF RecordActivity, Free, LeaseCurrent, Alive
  <1>3. SameRun /\ SameDeadline /\ ctl'.run.seen = ctl.run.seen /\ MoreActions
    BY <1>2, ExpireEffect
  <1>4. /\ op' \in OpRec /\ op'.kind = "activity" /\ op'.at = "ending" /\ op'.now = wall
        /\ op'.flag = (Run.expired \/ Due(Run)) /\ op'.kind \in Observing
    <2>1. "activity" \in Observing /\ c \in Clients \cup {Nobody}
      BY DEF Observing
    <2> QED
      BY <1>2, <2>1, OpOfEffect
  <1>5. /\ activity' \in [binding : Nat, active : Nat, seen : Nat] /\ idle' \in Nat
        /\ activity'.binding = Run.binding
        /\ \/ activity' = activity /\ idle' = idle
           \/ /\ wall >= Run.seen /\ activity'.seen = wall
              /\ \/ activity'.active = Run.active /\ idle' = idle
                 \/ activity'.active = wall /\ idle' = 0
        /\ ~op'.flag => idle' = 0
    <2>1. wall \in Nat /\ idle \in Nat /\ Run.binding \in Nat /\ Run.seen \in Nat
      BY Fields
    <2>2. CASE Due(Run)
      <3>1. Observed /\ idle' = idle
        BY <2>2 DEF RecordActivity
      <3> QED
        BY <1>2, <1>4, <2>1, <2>2, <3>1, ObservedEffect
    <2>3. CASE ~Due(Run)
      <3>1. /\ activity' = [binding |-> Run.binding, active |-> wall, seen |-> wall]
            /\ idle' = 0
        BY <2>3 DEF RecordActivity
      <3>2. wall >= Run.seen
        BY <2>1, <2>3 DEF Due
      <3> QED
        BY <2>1, <3>1, <3>2
    <2> QED
      BY <2>2, <2>3
  <1>6. \A d \in Clients : clients'[d].generation \in {0, clients[d].generation}
    BY <1>1
  <1>7. /\ ShapeInv' /\ ActionInv' /\ BindingInv' /\ GateInv' /\ RunInv' /\ ClockInv'
        /\ LeaseInv' /\ HighInv'
    BY <1>1, <1>2, <1>3, <1>4, <1>5, <1>6, ObservationBegins
  <1>8. Types'
    BY <1>1, <1>3, <1>4, <1>5
       DEF IInv, Types, ClockTypes, StorageTypes, ControlTypes, QueueTypes, OtherTypes,
           SameRun, MoreActions
  <1> QED
    BY <1>7, <1>8 DEF IInv

\* A checkpoint begins, or its lease is denied.
LEMMA CheckpointStep ==
    ASSUME IInv, NEW c \in Clients, Checkpoint(c)
    PROVE  IInv'
PROOF
  <1>1. UNCHANGED <<wall, mono, idle, high, timeout, stale, session, recovery, alarm, act,
                    queue,
                    stage, gate, boot, used>>
    BY DEF Checkpoint, clockVars, settingVars, queueVars
  <1>2. op = NoOp /\ clients[c].pc = "captured"
    BY DEF Checkpoint, Free
  <1>3. CASE LeaseCurrent(c)
    <2>1. /\ Run # NoRun /\ Run.generation = clients[c].generation
          /\ Observed /\ ExpireIf(Due(Run), Run) /\ op' = OpOf("checkpoint", c)
          /\ clients' = [clients EXCEPT ![c].pc = "checking"]
      BY <1>3 DEF Checkpoint, LeaseCurrent, Alive
    <2>2. SameRun /\ SameDeadline /\ ctl'.run.seen = ctl.run.seen /\ MoreActions
      BY <2>1, ExpireEffect
    <2>3. /\ op' \in OpRec /\ op'.kind = "checkpoint" /\ op'.at = "ending" /\ op'.now = wall
          /\ op'.client = c /\ op'.generation = Run.generation
          /\ op'.flag = (Run.expired \/ Due(Run)) /\ op'.kind \in Observing
      <3>1. "checkpoint" \in Observing /\ c \in Clients \cup {Nobody}
        BY DEF Observing
      <3> QED
        BY <2>1, <3>1, OpOfEffect
    <2>4. /\ activity' \in [binding : Nat, active : Nat, seen : Nat]
          /\ activity'.binding = Run.binding
          /\ \/ activity' = activity
             \/ wall >= Run.seen /\ activity'.seen = wall /\ activity'.active = Run.active
          /\ wall >= Run.seen => activity'.seen = wall
      BY <1>2, <2>1, ObservedEffect
    <2>5. ~op'.flag => activity'.seen = wall /\ wall >= Run.seen
      <3>1. wall \in Nat /\ Run.seen \in Nat
        BY Fields
      <3>2. ~op'.flag => ~(wall < Run.seen)
        <4>1. op'.flag = (Run.expired \/ Due(Run))
          BY <2>3
        <4> QED
          BY <4>1 DEF Due
      <3> QED
        BY <2>4, <3>1, <3>2
    <2>6. /\ clients' \in [Clients -> ClientRec] /\ clients'[c].pc = "checking"
          /\ clients'[c].generation = clients[c].generation
          /\ \A d \in Clients : clients'[d].generation \in {0, clients[d].generation}
      <3>1. "checking" \in {"idle", "captured", "checking", "proved", "released"}
        OBVIOUS
      <3>2. /\ clients' \in [Clients -> ClientRec] /\ clients'[c].pc = "checking"
            /\ \A d \in Clients : clients'[d].generation = clients[d].generation
        BY <2>1, <3>1, ClientMoves
      <3> QED
        BY <3>2
    <2>7. idle' \in Nat
      BY <1>1, Fields
    <2>8. op'.kind # "activity"
      BY <2>3
    <2>9. /\ ShapeInv' /\ ActionInv' /\ BindingInv' /\ GateInv' /\ RunInv' /\ ClockInv'
          /\ LeaseInv' /\ HighInv'
      BY <1>1, <1>2, <2>1, <2>2, <2>3, <2>4, <2>5, <2>6, <2>7, <2>8, ObservationBegins
    <2>10. Types'
      BY <1>1, <2>2, <2>3, <2>4, <2>6
         DEF IInv, Types, ClockTypes, StorageTypes, ControlTypes, QueueTypes, OtherTypes,
             SameRun, MoreActions
    <2> QED
      BY <2>9, <2>10 DEF IInv
  <1>4. CASE ~LeaseCurrent(c)
    <2>1. /\ clients' = [clients EXCEPT ![c] = IdleClient]
          /\ UNCHANGED <<activity, ctl, actions, op>>
      BY <1>4 DEF Checkpoint, Denied
    <2>2. /\ clients' \in [Clients -> ClientRec]
          /\ \A d \in Clients : clients'[d].generation \in {0, clients[d].generation}
          /\ \A d \in Clients : d # c => clients'[d] = clients[d]
      BY <2>1, ClientDenied
    <2>3. \A d \in Clients : clients[d].pc = "checking" => clients'[d] = clients[d]
      BY <1>2, <2>2
    <2>4. SameRun /\ SameDeadline /\ ctl'.run.seen = ctl.run.seen /\ MoreActions
      BY <2>1, Typed DEF SameRun, SameDeadline, MoreActions, CtlRec
    <2>5. UNCHANGED <<clockVars, settingVars, storageVars, alarm, op, act, queueVars, boot,
                      used>>
      BY <1>1, <2>1 DEF clockVars, settingVars, storageVars, queueVars
    <2> QED
      BY <2>2, <2>3, <2>4, <2>5, ExpiryKeeps
  <1> QED
    BY <1>3, <1>4


\* What an operation has seen of the clock is in the run once it ends, if it
\* still is its run.
LEMMA AlarmEndsStep ==
    ASSUME IInv, AlarmEnds
    PROVE  IInv'
PROOF
  <1>1. UNCHANGED <<wall, mono, idle, high, timeout, stale, session, activity, recovery,
                    actions,
                    act, queue, stage, gate, clients, boot, used>>
    BY DEF AlarmEnds, clockVars, settingVars, storageVars, actionVars, queueVars
  <1>2. /\ op.kind = "alarm" /\ op.kind \in Observing /\ op' = NoOp
        /\ op.flag \/ Scheduled(Run.deadline) \/ alarm' = alarm
        /\ alarm' = alarm \/ Scheduled(Run.deadline)
        /\ \/ ctl' = ctl
           \/ Run # NoRun /\ op.now >= Run.seen /\ ctl' = [ctl EXCEPT !.run.seen = op.now]
    BY DEF AlarmEnds, OpEnds, OpCurrent, Observing
  <1>3. SameRun /\ SameDeadline /\ MoreActions /\ Run'.seen \in {Run.seen, op.now}
        /\ Run'.seen >= Run.seen
    <2>1. op.now \in Nat /\ Run.seen \in Nat
      BY Fields
    <2>2. MoreActions
      BY <1>1, Typed DEF MoreActions
    <2>3. CASE ctl' = ctl
      BY <2>1, <2>2, <2>3, Typed DEF SameRun, SameDeadline, CtlRec, Run
    <2>4. CASE Run # NoRun /\ op.now >= Run.seen /\ ctl' = [ctl EXCEPT !.run.seen = op.now]
      <3>1. SameRun /\ SameDeadline /\ ctl'.run.seen = op.now
        BY <2>1, <2>4, SeenEffect
      <3> QED
        BY <2>1, <2>2, <2>4, <3>1 DEF Run
    <2> QED
      BY <1>2, <2>3, <2>4
  <1>4. alarm' \in Times
    BY <1>2, Typed, Fields DEF Scheduled, Times
  <1>5. Types'
    BY <1>1, <1>2, <1>3, <1>4, NoneTypes
       DEF IInv, Types, ClockTypes, StorageTypes, ControlTypes, QueueTypes, OtherTypes, SameRun
  <1>6. /\ ShapeInv' /\ ActionInv' /\ BindingInv' /\ GateInv' /\ RunInv' /\ ClockInv'
        /\ LeaseInv'
    <2>1. Run'.active = Run.active /\ Run'.deadline = Run.deadline /\ Run'.timeout = Run.timeout
      BY <1>3 DEF SameRun, SameDeadline, Run
    <2>2. /\ Run.active \in Nat /\ Run.seen \in Nat /\ Run'.seen \in Nat
      BY <1>3, Fields
    <2>3. Run'.active <= Run'.seen
      BY <1>3, <2>1, <2>2 DEF IInv, RunInv
    <2>4. Run # NoRun => Run'.deadline = After(Run'.active, Run'.timeout)
      BY <2>1 DEF IInv, RunInv
    <2>5. used.rollbacks = 0 => Run'.seen <= wall /\ Run'.active + idle <= wall
      BY <1>3, <2>1 DEF IInv, ClockInv
    <2>6. \A c \in Clients : clients'[c].generation \in {0, clients[c].generation}
      BY <1>1
    <2> QED
      BY <1>1, <1>2, <1>3, <2>3, <2>4, <2>5, <2>6, ObservationEnds
  <1>7. HighInv'
    <2>1. Run' # NoRun => high <= Run'.seen
      <3>1. high \in Nat /\ Run.seen \in Nat /\ Run'.seen \in Nat
        BY <1>3, Fields
      <3> QED
        BY <1>3, <3>1, SameRunIs DEF IInv, HighInv
    <2> QED
      BY <1>1, <2>1 DEF IInv, HighInv
  <1> QED
    BY <1>5, <1>6, <1>7 DEF IInv

\* So is the activity it wrote, and the run counts from it.
LEMMA ActivityEndsStep ==
    ASSUME IInv, ActivityEnds
    PROVE  IInv'
PROOF
  <1> DEFINE s == IF op.now >= Run.seen THEN op.now ELSE Run.seen
             r == [Run EXCEPT !.active = op.now, !.seen = s,
                              !.deadline = After(op.now, Run.timeout),
                              !.monoDeadline = After(op.mono, Run.timeout)]
  <1>1. UNCHANGED <<wall, mono, idle, high, timeout, stale, session, activity, recovery,
                    actions,
                    act, queue, stage, gate, clients, boot, used>>
    BY DEF ActivityEnds, clockVars, settingVars, storageVars, actionVars, queueVars
  <1>2. /\ op.kind = "activity" /\ op.kind \in Observing /\ op' = NoOp
        /\ alarm' = alarm \/ Scheduled(After(op.now, Run.timeout))
    BY DEF ActivityEnds, OpEnds, Observing
  <1>3. /\ op.now \in Nat /\ op.mono \in Nat /\ Run.seen \in Nat /\ Run.active \in Nat
        /\ Run \in RunRec /\ Run.timeout \in Times /\ alarm \in Times
        /\ After(op.now, Run.timeout) \in Times /\ After(op.mono, Run.timeout) \in Times
        /\ s \in Nat /\ s >= op.now /\ s >= Run.seen /\ s \in {op.now, Run.seen}
    <2>1. /\ op.now \in Nat /\ op.mono \in Nat /\ Run.seen \in Nat /\ Run.active \in Nat
          /\ Run \in RunRec /\ Run.timeout \in Times
      BY Fields
    <2>2. After(op.now, Run.timeout) \in Times /\ After(op.mono, Run.timeout) \in Times
      BY <2>1, AfterType
    <2>3. alarm \in Times
      BY Typed
    <2> QED
      BY <2>1, <2>2, <2>3
  <1>4. \/ ctl' = ctl
        \/ Run # NoRun /\ ctl' = [ctl EXCEPT !.run.seen = s]
        \/ Run # NoRun /\ ~op.flag /\ ctl' = [ctl EXCEPT !.run = r]
    <2>1. ctl \in CtlRec /\ ctl.run = Run
      BY Typed DEF Run
    <2> QED
      BY <2>1 DEF ActivityEnds, OpCurrent, CtlRec, RunRec
  <1>5. /\ SameRun /\ Run'.seen >= Run.seen /\ Run'.seen \in {op.now, Run.seen}
        /\ \/ Run'.active = Run.active /\ Run'.deadline = Run.deadline
           \/ /\ Run # NoRun /\ ~op.flag /\ Run'.active = op.now /\ Run'.seen >= op.now
              /\ Run'.deadline = After(op.now, Run.timeout)
    <2>1. CASE ctl' = ctl
      BY <1>3, <2>1, Typed DEF SameRun, CtlRec, Run
    <2>2. CASE Run # NoRun /\ ctl' = [ctl EXCEPT !.run.seen = s]
      <3> HIDE DEF s
      <3>1. SameRun /\ SameDeadline /\ ctl'.run.seen = s
        BY <1>3, <2>2, SeenEffect
      <3> QED
        BY <1>3, <3>1 DEF SameDeadline, Run
    <2>3. CASE Run # NoRun /\ ~op.flag /\ ctl' = [ctl EXCEPT !.run = r]
      <3> HIDE DEF s
      <3>1. /\ r \in RunRec /\ r.generation = Run.generation /\ r.binding = Run.binding
            /\ r.timeout = Run.timeout /\ r.active = op.now /\ r.seen = s
            /\ r.deadline = After(op.now, Run.timeout)
        BY <1>3 DEF RunRec
      <3> HIDE DEF r
      <3>2. Run.generation > 0 /\ Run.generation \in Nat /\ ctl.run = Run
        BY <2>3, Fields DEF IInv, RunInv, Run
      <3>3. r # NoRun
        BY <3>1, <3>2, NoneTypes
      <3>4. ctl' \in CtlRec /\ ctl'.run = r /\ ctl'.phase = ctl.phase
            /\ ctl'.generation = ctl.generation
        BY <2>3, <3>1, Typed DEF CtlRec
      <3>5. SameRun
        BY <2>3, <3>1, <3>2, <3>3, <3>4 DEF SameRun
      <3>6. Run' = r
        BY <3>4 DEF Run
      <3> QED
        BY <1>3, <2>3, <3>1, <3>5, <3>6
    <2> QED
      BY <1>4, <2>1, <2>2, <2>3
  <1> HIDE DEF s, r
  <1>6. MoreActions
    BY <1>1, Typed DEF MoreActions
  <1>7. alarm' \in Times
    BY <1>2, <1>3 DEF Scheduled, Times
  <1>8. Types'
    BY <1>1, <1>2, <1>5, <1>7, NoneTypes
       DEF IInv, Types, ClockTypes, StorageTypes, ControlTypes, QueueTypes, OtherTypes, SameRun
  <1>9. /\ ShapeInv' /\ ActionInv' /\ BindingInv' /\ GateInv' /\ RunInv' /\ ClockInv'
        /\ LeaseInv'
    <2>1. Run'.timeout = Run.timeout
      BY <1>5, SameRunIs
    <2>2. Run'.active <= Run'.seen
      <3>1. Run.active <= Run.seen
        BY DEF IInv, RunInv
      <3> QED
        BY <1>3, <1>5, <3>1
    <2>3. Run # NoRun => Run'.deadline = After(Run'.active, Run'.timeout)
      <3>1. Run # NoRun => Run.deadline = After(Run.active, Run.timeout)
        BY DEF IInv, RunInv
      <3> QED
        BY <1>5, <2>1, <3>1
    <2>4. used.rollbacks = 0 => Run'.seen <= wall /\ Run'.active + idle <= wall
      <3>1. used.rollbacks = 0 =>
              /\ Run.seen <= wall /\ Run.active + idle <= wall /\ op.now <= wall
              /\ ~op.flag => op.now + idle <= wall
        BY <1>2 DEF IInv, ClockInv
      <3> QED
        BY <1>5, <3>1
    <2>5. \A c \in Clients : clients'[c].generation \in {0, clients[c].generation}
      BY <1>1
    <2> QED
      BY <1>1, <1>2, <1>5, <1>6, <2>2, <2>3, <2>4, <2>5, ObservationEnds
  <1>10. HighInv'
    <2>1. Run' # NoRun => high <= Run'.seen
      <3>1. high \in Nat
        BY Fields
      <3>2. Run # NoRun => high <= Run.seen
        BY DEF IInv, HighInv
      <3> QED
        BY <1>3, <1>5, <3>1, <3>2, SameRunIs
    <2> QED
      BY <1>1, <2>1 DEF IInv, HighInv
  <1> QED
    BY <1>8, <1>9, <1>10 DEF IInv

\* A refused write of an observation ends the run.
LEMMA ObservationFailsStep ==
    ASSUME IInv, ObservationFails
    PROVE  IInv'
PROOF
  <1>1. UNCHANGED <<wall, mono, idle, high, timeout, stale, session, activity, recovery, alarm,
                    act, queue, stage, gate, boot>>
    BY DEF ObservationFails, clockVars, settingVars, storageVars, queueVars
  <1>2. /\ op.kind \in Observing /\ op' = NoOp /\ ExpireIf(OpCurrent, Run)
        /\ Disturb("faults", MaxFaults)
        /\ IF op.kind = "checkpoint" THEN Denied(op.client) ELSE UNCHANGED clients
    BY DEF ObservationFails, OpEnds, Observing
  <1>3. used' \in UsedRec /\ used'.sessions = used.sessions /\ used'.rollbacks = used.rollbacks
    BY <1>2, Counted, Fields
  <1>4. SameRun /\ SameDeadline /\ ctl'.run.seen = ctl.run.seen /\ MoreActions
    BY <1>2, ExpireEffect
  <1>5. /\ clients' \in [Clients -> ClientRec]
        /\ \A d \in Clients : clients'[d].generation \in {0, clients[d].generation}
    <2>1. CASE op.kind = "checkpoint"
      <3>1. op.client \in Clients
        BY <2>1 DEF IInv, LeaseInv
      <3>2. clients' = [clients EXCEPT ![op.client] = IdleClient]
        BY <1>2, <2>1 DEF Denied
      <3> QED
        BY <3>1, <3>2, ClientDenied
    <2>2. CASE op.kind # "checkpoint"
      BY <1>2, <2>2, Typed
    <2> QED
      BY <2>1, <2>2
  <1>6. Types'
    BY <1>1, <1>2, <1>3, <1>4, <1>5, NoneTypes
       DEF IInv, Types, ClockTypes, StorageTypes, ControlTypes, QueueTypes, OtherTypes, SameRun,
           MoreActions
  <1>7. /\ Run'.active = Run.active /\ Run'.deadline = Run.deadline /\ Run'.seen = Run.seen
        /\ Run'.timeout = Run.timeout
    BY <1>4 DEF SameRun, SameDeadline, Run
  <1>8. /\ ShapeInv' /\ ActionInv' /\ BindingInv' /\ GateInv' /\ RunInv' /\ ClockInv'
        /\ LeaseInv'
    <2>1. /\ Run'.active <= Run'.seen
          /\ Run # NoRun => Run'.deadline = After(Run'.active, Run'.timeout)
          /\ used.rollbacks = 0 => Run'.seen <= wall /\ Run'.active + idle <= wall
      BY <1>7 DEF IInv, RunInv, ClockInv
    <2> QED
      BY <1>1, <1>2, <1>3, <1>4, <1>5, <2>1, ObservationEnds
  <1>9. HighInv'
    BY <1>1, <1>3, <1>4, <1>7, SameRunIs DEF IInv, HighInv
  <1> QED
    BY <1>6, <1>8, <1>9 DEF IInv

\* A checkpoint proves its release: the time of it is on disk and in the run.
\* Otherwise its client is denied, and the run is over.
LEMMA CheckpointEndsStep ==
    ASSUME IInv, CheckpointEnds
    PROVE  IInv'
PROOF
  <1> DEFINE s == IF op.now >= Run.seen THEN op.now ELSE Run.seen
             p == OpCurrent /\ ~op.flag /\ ~LateInCheckpoint
  <1>1. UNCHANGED <<wall, mono, idle, timeout, stale, session, activity, recovery, alarm, act,
                    queue, stage, gate, boot, used>>
    BY DEF CheckpointEnds, settingVars, storageVars, queueVars
  <1>2. op.kind = "checkpoint" /\ op.kind \in Observing /\ op' = NoOp
    BY DEF CheckpointEnds, OpEnds, Observing
  <1>3. /\ op.client \in Clients /\ op.generation = clients[op.client].generation
        /\ ~op.flag => high <= op.now /\ op.now <= activity.seen
    BY <1>2 DEF IInv, LeaseInv
  <1>4. /\ op.now \in Nat /\ Run.seen \in Nat /\ Run.active \in Nat /\ high \in Nat
        /\ activity.seen \in Nat /\ Run.monoDeadline \in Times
    BY Fields
  <1>5. CASE p
    <2>1. /\ Run # NoRun /\ Run.generation = op.generation /\ ~op.flag
          /\ clients' = [clients EXCEPT ![op.client].pc = "proved",
                                        ![op.client].deadline = Run.monoDeadline]
          /\ ctl' = [ctl EXCEPT !.run.seen = IF op.now >= @ THEN op.now ELSE @]
          /\ high' = IF op.now > high THEN op.now ELSE high
          /\ actions' = actions
      BY <1>5 DEF CheckpointEnds, OpCurrent
    <2>2. s \in Nat /\ s >= op.now /\ s >= Run.seen /\ s \in {op.now, Run.seen}
      BY <1>4
    <2>3. ctl' = [ctl EXCEPT !.run.seen = s]
      <3>1. ctl \in CtlRec /\ ctl.run = Run
        BY Typed DEF Run
      <3> QED
        BY <2>1, <3>1 DEF CtlRec, RunRec
    <2> HIDE DEF s, p
    <2>4. SameRun /\ SameDeadline /\ ctl'.run.seen = s
      BY <2>1, <2>2, <2>3, SeenEffect
    <2>5. MoreActions
      BY <2>1, Typed DEF MoreActions
    <2>6. /\ clients' \in [Clients -> ClientRec]
          /\ \A d \in Clients : clients'[d].generation = clients[d].generation
      <3> DEFINE r == [clients[op.client] EXCEPT !.pc = "proved", !.deadline = Run.monoDeadline]
      <3>1. clients \in [Clients -> ClientRec] /\ clients[op.client] \in ClientRec
        BY <1>3, Typed
      <3>2. r \in ClientRec /\ r.generation = clients[op.client].generation
        BY <1>4, <3>1 DEF ClientRec
      <3>3. clients' = [clients EXCEPT ![op.client] = r]
        BY <1>3, <2>1, <3>1
      <3> HIDE DEF r
      <3> QED
        BY <1>3, <3>1, <3>2, <3>3
    <2>7. high' \in Nat /\ high' = op.now
      BY <1>3, <1>4, <2>1
    <2>8. Types'
      BY <1>1, <1>2, <2>4, <2>5, <2>6, <2>7, NoneTypes
         DEF IInv, Types, ClockTypes, StorageTypes, ControlTypes, QueueTypes, OtherTypes,
             SameRun, MoreActions
    <2>9. /\ Run'.active = Run.active /\ Run'.deadline = Run.deadline /\ Run'.seen = s
          /\ Run'.timeout = Run.timeout
      BY <2>4 DEF SameRun, SameDeadline, Run
    <2>10. /\ ShapeInv' /\ ActionInv' /\ BindingInv' /\ GateInv' /\ RunInv' /\ ClockInv'
           /\ LeaseInv'
      <3>1. Run'.active <= Run'.seen
        <4>1. Run.active <= Run.seen
          BY DEF IInv, RunInv
        <4> QED
          BY <1>4, <2>2, <2>9, <4>1
      <3>2. Run # NoRun => Run'.deadline = After(Run'.active, Run'.timeout)
        BY <2>9 DEF IInv, RunInv
      <3>3. used.rollbacks = 0 => Run'.seen <= wall /\ Run'.active + idle <= wall
        BY <2>2, <2>9 DEF IInv, ClockInv
      <3>4. \A d \in Clients : clients'[d].generation \in {0, clients[d].generation}
        BY <2>6
      <3> QED
        BY <1>1, <1>2, <2>4, <2>5, <3>1, <3>2, <3>3, <3>4, ObservationEnds
    <2>11. HighInv'
      <3>1. queue = <<>> /\ stage.at = "none"
        BY <1>3, <2>1 DEF IInv, LeaseInv, ShapeInv
      <3>2. high' <= activity.seen /\ high' <= Run'.seen
        BY <1>3, <2>1, <2>2, <2>7, <2>9
      <3> QED
        BY <1>1, <3>1, <3>2 DEF HighInv
    <2> QED
      BY <2>8, <2>10, <2>11 DEF IInv
  <1>6. CASE ~p
    <2>1. /\ clients' = [clients EXCEPT ![op.client] = IdleClient]
          /\ ExpireIf(OpCurrent, Run) /\ high' = high
      BY <1>6 DEF CheckpointEnds, Denied
    <2> HIDE DEF s, p
    <2>2. SameRun /\ SameDeadline /\ ctl'.run.seen = ctl.run.seen /\ MoreActions
      BY <2>1, ExpireEffect
    <2>3. /\ clients' \in [Clients -> ClientRec]
          /\ \A d \in Clients : clients'[d].generation \in {0, clients[d].generation}
      BY <1>3, <2>1, ClientDenied
    <2>4. Types'
      BY <1>1, <1>2, <2>1, <2>2, <2>3, NoneTypes
         DEF IInv, Types, ClockTypes, StorageTypes, ControlTypes, QueueTypes, OtherTypes,
             SameRun, MoreActions
    <2>5. /\ Run'.active = Run.active /\ Run'.deadline = Run.deadline /\ Run'.seen = Run.seen
          /\ Run'.timeout = Run.timeout
      BY <2>2 DEF SameRun, SameDeadline, Run
    <2>6. /\ ShapeInv' /\ ActionInv' /\ BindingInv' /\ GateInv' /\ RunInv' /\ ClockInv'
          /\ LeaseInv'
      <3>1. /\ Run'.active <= Run'.seen
            /\ Run # NoRun => Run'.deadline = After(Run'.active, Run'.timeout)
            /\ used.rollbacks = 0 => Run'.seen <= wall /\ Run'.active + idle <= wall
        BY <2>5 DEF IInv, RunInv, ClockInv
      <3> QED
        BY <1>1, <1>2, <2>2, <2>3, <3>1, ObservationEnds
    <2>7. HighInv'
      BY <1>1, <2>1, <2>5, <2>2, SameRunIs DEF IInv, HighInv
    <2> QED
      BY <2>4, <2>6, <2>7 DEF IInv
  <1> QED
    BY <1>5, <1>6

\* The setting changes; a reconfiguration is due.
LEMMA ChangeTimeoutStep ==
    ASSUME IInv, NEW t \in Timeouts, ChangeTimeout(t)
    PROVE  IInv'
PROOF
  <1>1. /\ UNCHANGED <<wall, mono, idle, high, session, activity, recovery, ctl, alarm, op,
                       actions, act, queue, stage, gate, clients, boot>>
        /\ timeout' = t /\ stale' = TRUE
    BY DEF ChangeTimeout, clockVars, storageVars, ctlVars, actionVars, queueVars
  <1>2. used' \in UsedRec /\ used'.sessions = used.sessions /\ used'.rollbacks = used.rollbacks
    <2>1. Disturb("changes", MaxChanges)
      BY DEF ChangeTimeout
    <2> QED
      BY <2>1, Counted, Fields
  <1>3. Types'
    BY <1>1, <1>2
       DEF IInv, Types, ClockTypes, StorageTypes, ControlTypes, QueueTypes, OtherTypes
  <1>4. ShapeInv' /\ ActionInv' /\ BindingInv' /\ GateInv'
    BY <1>1, <1>2 DEF IInv, ShapeInv, ActionInv, BindingInv, GateInv, Run
  <1>5. RunInv' /\ ClockInv'
    BY <1>1, <1>2 DEF IInv, RunInv, ClockInv, Run
  <1>6. LeaseInv' /\ HighInv'
    BY <1>1, <1>2 DEF IInv, LeaseInv, HighInv, Run
  <1> QED
    BY <1>3, <1>4, <1>5, <1>6 DEF IInv

\* The reconfiguration replaces the run, or leaves it to the transition.
LEMMA ReconfigureStep ==
    ASSUME IInv, Reconfigure
    PROVE  IInv'
PROOF
  <1>1. /\ UNCHANGED <<wall, mono, idle, high, timeout, session, activity, recovery, alarm,
                       actions, act, queue, stage, gate, clients, boot, used>>
        /\ op = NoOp /\ stale' = FALSE /\ boot = "ready"
    BY DEF Reconfigure, Free, clockVars, storageVars, actionVars, queueVars
  <1>2. op.at = "none" /\ op.kind = "none"
    BY <1>1, NoneTypes
  <1>3. activity.active <= activity.seen
    BY DEF IInv, RunInv
  <1>4. CASE ctl.phase \in {"ready", "failed"}
    <2>1. /\ ctl' = [ctl EXCEPT !.phase = "transitioning", !.generation = @ + 1, !.run = NoRun,
                                !.target = 0]
          /\ op' = [NoOp EXCEPT !.kind = "reconfigure", !.at = "reading", !.mono = mono,
                                !.binding = Run.binding]
      BY <1>4 DEF Reconfigure
    <2>2. ctl' \in CtlRec /\ ctl'.run = NoRun /\ ctl'.generation = ctl.generation + 1
      <3>1. ctl \in CtlRec /\ NoRun \in RunRec
        BY Typed, NoneTypes
      <3>2. ctl.generation + 1 \in Nat
        <4>1. ctl.generation \in Nat
          BY Fields
        <4> QED
          BY <4>1
      <3>3. ctl' = [phase |-> "transitioning", generation |-> ctl.generation + 1, run |-> NoRun,
                    target |-> 0]
        BY <2>1, <3>1 DEF CtlRec
      <3> QED
        BY <3>1, <3>2, <3>3 DEF CtlRec
    <2>3. /\ op' \in OpRec /\ op'.kind = "reconfigure" /\ op'.at = "reading" /\ op'.now = 0
          /\ op'.flag = FALSE
      <3>1. mono \in Nat /\ Run.binding \in Nat
        BY Fields
      <3> QED
        BY <2>1, <3>1 DEF NoOp, OpRec, Reconciling, Times
    <2>4. op' # NoOp
      BY <2>3, NoneTypes
    <2>5. Types'
      BY <1>1, <2>2, <2>3
         DEF IInv, Types, ClockTypes, StorageTypes, ControlTypes, QueueTypes, OtherTypes
    <2>6. ShapeInv' /\ ActionInv'
      BY <1>1, <1>2, <2>2, <2>3, <2>4 DEF IInv, ShapeInv, ActionInv, Hydrating, Reconciling
    <2>7. BindingInv' /\ GateInv'
      BY <1>1, <2>2, <2>3 DEF IInv, BindingInv, GateInv, Hydrating, Run
    <2>8. RunInv'
      BY <1>1, <1>3, <2>2, <2>3, RunDropped DEF Hydrating
    <2>9. ClockInv'
      BY <1>1, <2>2, <2>3, NoneTypes, Fields DEF IInv, ClockInv, Run
    <2>10. LeaseInv'
      BY <1>1, <2>2, <2>3, LeasesOutlived
    <2>11. HighInv'
      BY <1>1, <2>2, HighKept
    <2> QED
      BY <2>5, <2>6, <2>7, <2>8, <2>9, <2>10, <2>11 DEF IInv
  <1>5. CASE ctl.phase \notin {"ready", "failed"}
    <2>1. ctl' = ctl /\ op' = op
      BY <1>5 DEF Reconfigure
    <2>2. Run = NoRun
      BY <1>2, <1>5 DEF IInv, RunInv
    <2>3. Types'
      BY <1>1, <2>1
         DEF IInv, Types, ClockTypes, StorageTypes, ControlTypes, QueueTypes, OtherTypes
    <2>4. ShapeInv' /\ ActionInv' /\ BindingInv' /\ GateInv'
      BY <1>1, <2>1 DEF IInv, ShapeInv, ActionInv, BindingInv, GateInv, Run
    <2>5. RunInv'
      <3>1. op'.at \notin Hydrating /\ ctl'.run = NoRun
        BY <1>2, <2>1, <2>2 DEF Hydrating, Run
      <3> QED
        BY <1>1, <1>3, <3>1, RunDropped
    <2>6. ClockInv' /\ LeaseInv' /\ HighInv'
      BY <1>1, <2>1 DEF IInv, ClockInv, LeaseInv, HighInv, Run
    <2> QED
      BY <2>3, <2>4, <2>5, <2>6 DEF IInv
  <1> QED
    BY <1>4, <1>5

\* Settings that cannot be applied fail the controller closed.
LEMMA SettingsFailStep ==
    ASSUME IInv, SettingsFail
    PROVE  IInv'
PROOF
  <1>1. /\ UNCHANGED <<wall, mono, idle, high, timeout, stale, session, activity, recovery,
                       alarm,
                       op, act, queue, stage, gate, clients, boot>>
        /\ op = NoOp /\ boot = "ready"
        /\ FailClosed(FailTarget, TRUE) /\ Disturb("faults", MaxFaults)
    BY DEF SettingsFail, Free, clockVars, settingVars, storageVars, queueVars
  <1>2. op.at = "none" /\ op.kind = "none" /\ op.now = 0
    BY <1>1, NoneTypes
  <1>3. /\ ctl' \in CtlRec /\ ctl'.run = NoRun /\ ctl'.generation = ctl.generation + 1
        /\ actions' \in Seq(Nat) /\ (actions # <<>> => actions' # <<>>)
    BY <1>1, FailTargetType, FailClosedEffect
  <1>4. used' \in UsedRec /\ used'.sessions = used.sessions /\ used'.rollbacks = used.rollbacks
    BY <1>1, Counted, Fields
  <1>5. Types'
    BY <1>1, <1>3, <1>4
       DEF IInv, Types, ClockTypes, StorageTypes, ControlTypes, QueueTypes, OtherTypes
  <1>6. ShapeInv' /\ ActionInv'
    BY <1>1, <1>3 DEF IInv, ShapeInv, ActionInv
  <1>7. BindingInv' /\ GateInv'
    BY <1>1, <1>3, <1>4 DEF IInv, BindingInv, GateInv, Run
  <1>8. RunInv'
    <2>1. activity'.active <= activity'.seen /\ op'.at \notin Hydrating
      BY <1>1, <1>2 DEF IInv, RunInv, Hydrating
    <2> QED
      BY <1>3, <2>1, RunDropped
  <1>9. ClockInv'
    BY <1>1, <1>2, <1>3, <1>4, NoneTypes, Fields DEF IInv, ClockInv, Run
  <1>10. LeaseInv'
    BY <1>1, <1>2, <1>3, LeasesOutlived
  <1>11. HighInv'
    BY <1>1, <1>3, <1>4, HighKept
  <1> QED
    BY <1>5, <1>6, <1>7, <1>8, <1>9, <1>10, <1>11 DEF IInv

-----------------------------------------------------------------------------
(* The invariant holds, and what follows from it.                          *)

LEMMA InitIInv ==
    ASSUME Init
    PROVE  IInv
PROOF
  <1>1. /\ ctl = [phase |-> "uninitialized", generation |-> 0, run |-> NoRun, target |-> 0]
        /\ op = NoOp /\ stage = NoStage /\ queue = <<>> /\ actions = <<>>
        /\ activity = NoActivity /\ session = [open |-> FALSE, binding |-> 0]
        /\ clients = [c \in Clients |-> IdleClient] /\ boot = "starting"
        /\ gate = [generation |-> 0, open |-> FALSE]
        /\ wall = 0 /\ mono = 0 /\ idle = 0 /\ high = 0 /\ alarm = Never
        /\ act = [at |-> "idle", armed |-> FALSE, ok |-> FALSE, sticky |-> FALSE]
        /\ used = [unlocks |-> 0, sessions |-> 0, locks |-> 0, changes |-> 0, rollbacks |-> 0,
                   restarts |-> 0, faults |-> 0]
        /\ timeout \in Timeouts /\ stale = FALSE /\ recovery = FALSE
    BY DEF Init
  <1>2. /\ Run = NoRun /\ op.at = "none" /\ op.kind = "none" /\ op.now = 0 /\ stage.at = "none"
        /\ Run.active = 0 /\ Run.seen = 0
    BY <1>1, NoneTypes DEF Run
  <1>3. Types
    <2>1. ClockTypes /\ StorageTypes
      BY <1>1 DEF ClockTypes, StorageTypes, NoActivity
    <2>2. ctl \in CtlRec /\ op \in OpRec /\ alarm \in Times /\ act \in ActRec
      BY <1>1, NoneTypes DEF CtlRec, ActRec, Times
    <2>3. stage \in StageRec /\ gate \in [generation : Nat, open : BOOLEAN]
      BY <1>1, NoneTypes
    <2>4. queue \in Seq(EntryRec) /\ actions \in Seq(Nat)
      BY <1>1
    <2>5. clients \in [Clients -> ClientRec] /\ used \in UsedRec
      BY <1>1, NoneTypes DEF UsedRec
    <2> QED
      BY <1>1, <2>1, <2>2, <2>3, <2>4, <2>5 DEF Types, ControlTypes, QueueTypes, OtherTypes
  <1>4. ShapeInv /\ ActionInv
    BY <1>1, <1>2 DEF ShapeInv, ActionInv, Hydrating, Reconciling
  <1>5. BindingInv /\ GateInv
    BY <1>1, <1>2 DEF BindingInv, GateInv, Hydrating, NoActivity
  <1>6. RunInv /\ ClockInv
    BY <1>1, <1>2 DEF RunInv, ClockInv, Hydrating, NoActivity
  <1>7. LeaseInv /\ HighInv
    <2>1. \A c \in Clients : clients[c].generation = 0
      BY <1>1, NoneTypes
    <2> QED
      BY <1>1, <1>2, <2>1 DEF LeaseInv, HighInv, NoActivity
  <1> QED
    BY <1>3, <1>4, <1>5, <1>6, <1>7 DEF IInv

LEMMA NextIInv ==
    ASSUME IInv, [Next]_vars
    PROVE  IInv'
PROOF
  <1>1. CASE Clock
    BY <1>1, TickStep, RollbackStep DEF Clock
  <1>2. CASE Requests
    BY <1>2, RequestUnlockStep, RequestLockStep, ChangeTimeoutStep, ReconfigureStep,
       CaptureStep,
       RecordActivityStep, CheckpointStep, PreflightExpiresStep, SystemLockedStep,
       SettingsFailStep DEF Requests
  <1>3. CASE AlarmFires
    BY <1>3, AlarmFiresStep
  <1>4. CASE \E c \in Clients : Release(c)
    BY <1>4, ReleaseStep
  <1>5. CASE Transitions
    BY <1>5, TransitionActsStep, TransitionFailsStep, SettlementStartsStep,
       SettlementAwaitedStep, TransitionEndsStep DEF Transitions
  <1>6. CASE Operations
    BY <1>6, ReconcileClosedStep, ReconcileReadsStep, ReconcileSeedsStep, ReconcileObservesStep,
       ReconcileRunsStep, ReconcileEndsStep, ReconcileFailsStep, AlarmEndsStep, ActivityEndsStep,
       CheckpointEndsStep, ObservationFailsStep DEF Operations
  <1>7. CASE Actions
    BY <1>7, ActionArmsStep, ActionArmFailsStep, ActionAppliesStep, ActionRequestsStep,
       ActionIsMootStep, ActionEndsStep DEF Actions
  <1>8. CASE Startup
    BY <1>8, StartupRecoversStep, StartupInitializesStep, StartupEndsStep DEF Startup
  <1>9. CASE Restart
    BY <1>9, RestartStep
  <1>10. CASE UNCHANGED vars
    <2>1. UNCHANGED <<wall, mono, idle, high, timeout, stale, session, activity, recovery, ctl,
                      alarm, op, actions, act, queue, stage, gate, clients, boot, used>>
      BY <1>10 DEF vars, clockVars, settingVars, storageVars, ctlVars, actionVars, queueVars
    <2>2. Types' /\ ShapeInv' /\ ActionInv' /\ BindingInv'
      BY <2>1 DEF IInv, Types, ClockTypes, StorageTypes, ControlTypes, QueueTypes, OtherTypes,
                  ShapeInv, ActionInv, BindingInv
    <2>3. GateInv' /\ RunInv' /\ ClockInv' /\ LeaseInv' /\ HighInv'
      BY <2>1 DEF IInv, GateInv, RunInv, ClockInv, LeaseInv, HighInv, Run
    <2> QED
      BY <2>2, <2>3 DEF IInv
  <1> QED
    BY <1>1, <1>2, <1>3, <1>4, <1>5, <1>6, <1>7, <1>8, <1>9, <1>10 DEF Next

(* The state of the controller, the queue and the gate are consistent in   *)
(* every state of the worker (VaultTimeoutController, vault-release-gate,  *)
(* and the wiring of index.ts).                                            *)
THEOREM TimeoutInvariant == Spec => []IInv
PROOF
  <1> QED
    BY InitIInv, NextIInv, PTL DEF Spec

(* The variables keep their types: a run is of the controller's            *)
(* generation, and a terminal action under way is in the list of actions.  *)
THEOREM TimeoutTypes == Spec => []TypeOK
PROOF
  <1>1. ASSUME IInv
        PROVE  TypeOK
    <2>1. /\ wall \in Nat /\ mono \in Nat /\ idle \in Nat /\ high \in Nat
          /\ timeout \in Timeouts /\ stale \in BOOLEAN /\ recovery \in BOOLEAN
          /\ session \in [open : BOOLEAN, binding : Nat]
          /\ activity \in [binding : Nat, active : Nat, seen : Nat]
          /\ alarm \in Times /\ actions \in Seq(Nat)
          /\ gate \in [generation : Nat, open : BOOLEAN]
          /\ boot \in {"starting", "hydrating", "ready", "failed"}
      BY <1>1 DEF IInv, Types, ClockTypes, StorageTypes, ControlTypes, QueueTypes, OtherTypes
    <2>2. /\ session.open <=> session.binding # 0
          /\ activity.active <= activity.seen
          /\ ctl.run # NoRun => ctl.run.generation = ctl.generation
          /\ act.at = "idle" \/ actions # <<>>
      BY <1>1 DEF IInv, BindingInv, RunInv, ActionInv, Run
    <2>3. /\ ctl.phase \in {"uninitialized", "ready", "transitioning", "failed"}
          /\ ctl.generation \in Nat /\ ctl.target \in Nat
          /\ ctl.run \in [generation : Nat, binding : Nat, timeout : Times, active : Nat,
                          seen : Nat, deadline : Times, monoDeadline : Times,
                          expired : BOOLEAN]
      BY <1>1, Typed DEF CtlRec, RunRec
    <2>4. /\ op.kind \in {"none", "initialize", "settle", "reconfigure", "checkpoint",
                          "activity", "alarm"}
          /\ op.at \in {"none", "reading", "seeding", "observing", "running", "ending"}
      BY <1>1, Typed DEF OpRec, Reconciling, Observing, Hydrating
    <2>5. /\ act.at \in {"idle", "armed", "applying", "locking", "applied"}
          /\ act.armed \in BOOLEAN /\ act.ok \in BOOLEAN /\ act.sticky \in BOOLEAN
         
          /\ stage.at \in {"none", "acting", "settling", "reconciling", "awaiting", "publishing"}
      BY <1>1, Typed DEF ActRec, StageRec
    <2>6. queue \in Seq([reason : {"unlock", "lock"}, by : {"user", "timeout"}])
      BY <1>1, Typed DEF EntryRec
    <2>7. \A c \in Clients :
            clients[c].pc \in {"idle", "captured", "checking", "proved", "released"}
      BY <1>1, Typed DEF ClientRec
    <2> QED
      BY <2>1, <2>2, <2>3, <2>4, <2>5, <2>6, <2>7 DEF TypeOK
  <1> QED
    BY <1>1, TimeoutInvariant, PTL

(* Once a change of the setting has been applied, the run that serves      *)
(* requests counts with the new timeout (reconfigure, reconcile).          *)
THEOREM TimeoutApplies == Spec => []EffectiveTimeout
PROOF
  <1>1. ASSUME IInv
        PROVE  EffectiveTimeout
    BY <1>1 DEF IInv, RunInv, EffectiveTimeout, Serving, Alive
  <1> QED
    BY <1>1, TimeoutInvariant, PTL

\* Only the end of its own checkpoint proves a client, and only the final
\* assertion lets its secret leave.
LEMMA ClientSteps ==
    ASSUME IInv, Next, NEW c \in Clients
    PROVE  /\ clients[c].pc = "checking" /\ clients'[c].pc = "proved" =>
                CheckpointEnds /\ OpCurrent /\ ~op.flag /\ ~LateInCheckpoint
           /\ clients[c].pc = "proved" /\ clients'[c].pc = "released" =>
                Release(c) /\ SessionHolds(c) /\ LeaseCurrent(c)
PROOF
  <1> DEFINE Proves == clients[c].pc = "checking" /\ clients'[c].pc = "proved"
             Leaves == clients[c].pc = "proved" /\ clients'[c].pc = "released"
  <1>1. CASE clients'[c].pc \in {clients[c].pc, "idle"}
    BY <1>1
  <1>2. CASE \E d \in Clients : Capture(d) \/ Checkpoint(d)
    <2>1. PICK d \in Clients : Capture(d) \/ Checkpoint(d)
      BY <1>2
    <2>2. /\ clients[d].pc \notin {"checking", "proved"}
          /\ d # c => clients'[c] = clients[c] \/ clients'[c].pc = "idle"
      <3>1. clients \in [Clients -> ClientRec]
        BY Typed
      <3>2. CASE Capture(d)
        BY <3>1, <3>2 DEF Capture
      <3>3. CASE Checkpoint(d)
        BY <3>1, <3>3 DEF Checkpoint, Denied
      <3> QED
        BY <2>1, <3>2, <3>3
    <2> QED
      BY <2>2
  <1>3. CASE \E d \in Clients : Release(d)
    <2>1. PICK d \in Clients : Release(d)
      BY <1>3
    <2>2. clients \in [Clients -> ClientRec] /\ IdleClient.pc = "idle"
      BY Typed, NoneTypes
    <2>3. clients[d].pc = "proved" /\ (d # c => clients'[c] = clients[c])
      BY <2>1, <2>2 DEF Release
    <2>4. Leaves => d = c
      BY <2>3
    <2>5. d = c /\ Leaves => SessionHolds(c) /\ LeaseCurrent(c)
      BY <2>1, <2>2 DEF Release
    <2>6. ~Proves
      <3>1. CASE d = c
        BY <2>3, <3>1
      <3>2. CASE d # c
        BY <2>3, <3>2
      <3> QED
        BY <3>1, <3>2
    <2> QED
      BY <2>1, <2>4, <2>5, <2>6
  <1>4. CASE CheckpointEnds
    <2>1. /\ op.client \in Clients /\ clients[op.client].pc = "checking"
          /\ clients \in [Clients -> ClientRec] /\ IdleClient.pc = "idle"
      <3>1. op.kind = "checkpoint"
        BY <1>4 DEF CheckpointEnds
      <3> QED
        BY <3>1, Typed, NoneTypes DEF IInv, LeaseInv
    <2>2. ~Leaves
      <3>1. c # op.client => clients'[c] = clients[c]
        BY <1>4, <2>1 DEF CheckpointEnds, Denied
      <3>2. c = op.client => clients[c].pc # "proved"
        BY <2>1
      <3> QED
        BY <3>1, <3>2
    <2>3. CASE OpCurrent /\ ~op.flag /\ ~LateInCheckpoint
      BY <1>4, <2>2, <2>3
    <2>4. CASE ~(OpCurrent /\ ~op.flag /\ ~LateInCheckpoint)
      <3>1. clients' = [clients EXCEPT ![op.client] = IdleClient]
        BY <1>4, <2>4 DEF CheckpointEnds, Denied
      <3>2. ~Proves
        BY <2>1, <3>1
      <3> QED
        BY <2>2, <3>2
    <2> QED
      BY <2>3, <2>4
  <1>5. CASE ObservationFails
    <2>1. \/ clients' = clients
          \/ op.client \in Clients /\ clients' = [clients EXCEPT ![op.client] = IdleClient]
      BY <1>5 DEF ObservationFails, Denied, IInv, LeaseInv
    <2>2. clients'[c].pc \in {clients[c].pc, "idle"}
      BY <2>1, Typed, NoneTypes
    <2> QED
      BY <1>1, <2>2
  <1>6. CASE Restart
    <2>1. clients'[c].pc = "idle"
      BY <1>6, NoneTypes DEF Restart
    <2> QED
      BY <2>1
  <1>7. CASE UNCHANGED clients
    BY <1>7
  <1>8. Clock \/ AlarmFires \/ Transitions \/ Actions \/ Startup => UNCHANGED clients
    BY DEF Clock, Tick, Rollback, AlarmFires, Transitions, TransitionActs, TransitionFails,
           SettlementStarts, SettlementAwaited, TransitionEnds, Actions, ActionArms,
           ActionArmFails, ActionApplies, ActionRequests, ActionIsMoot, ActionEnds, Startup,
           StartupRecovers, StartupInitializes, StartupEnds
  <1>9. Requests => UNCHANGED clients \/ \E d \in Clients : Capture(d) \/ Checkpoint(d)
    BY DEF Requests, RequestUnlock, RequestLock, ChangeTimeout, Reconfigure, RecordActivity,
           PreflightExpires, SystemLocked, SettingsFail
  <1>10. Operations => UNCHANGED clients \/ CheckpointEnds \/ ObservationFails
    BY DEF Operations, ReconcileClosed, ReconcileReads, ReconcileSeeds, ReconcileObserves,
           ReconcileRuns, ReconcileEnds, ReconcileFails, AlarmEnds, ActivityEnds
  <1> QED
    BY <1>2, <1>3, <1>4, <1>5, <1>6, <1>7, <1>8, <1>9, <1>10 DEF Next

(* A secret leaves only from the unlocked session it was captured in, and  *)
(* unless the wall clock is set back it was proved within the timeout of   *)
(* the last recorded activity (checkpointRelease, VaultReleaseGate.assert). *)
THEOREM ReleasesProved == Spec => ReleasesAreProved
PROOF
  <1>1. ASSUME IInv, Next, NEW c \in Clients,
               clients[c].pc = "proved", clients'[c].pc = "released"
        PROVE  session.open /\ session.binding = clients[c].binding
    <2>1. SessionHolds(c) /\ LeaseCurrent(c)
      BY <1>1, ClientSteps
    <2>2. gate.open /\ Run # NoRun /\ Run.binding = clients[c].binding
      BY <2>1 DEF SessionHolds, LeaseCurrent, Alive
    <2>3. session.open /\ stage.at = "none"
      BY <1>1, <2>2 DEF IInv, GateInv, ShapeInv
    <2> QED
      BY <1>1, <2>2, <2>3 DEF IInv, GateInv
  <1>2. ASSUME IInv, Next, NEW c \in Clients, used.rollbacks = 0,
               clients[c].pc = "checking", clients'[c].pc = "proved"
        PROVE  ~Reached(Run.timeout, idle)
    <2>1. Run # NoRun /\ ~Reached(Run.deadline, wall)
      BY <1>2, ClientSteps DEF OpCurrent, LateInCheckpoint
    <2>2. Run.deadline = After(Run.active, Run.timeout) /\ Run.active + idle <= wall
      BY <1>2, <2>1 DEF IInv, RunInv, ClockInv
    <2>3. wall \in Nat /\ idle \in Nat /\ Run.active \in Nat /\ Run.timeout \in Times
      BY <1>2, Fields
    <2>4. SUFFICES ASSUME Run.timeout # Never, idle >= Run.timeout
                   PROVE  FALSE
      BY DEF Reached
    <2>5. Run.timeout \in Nat /\ Run.deadline = Run.active + Run.timeout
      BY <2>2, <2>3, <2>4 DEF After, Times
    <2>6. Run.deadline \in Nat /\ Run.deadline # Never
      BY <2>3, <2>5, NoneAssumption
    <2>7. wall >= Run.deadline
      BY <2>2, <2>3, <2>4, <2>5
    <2> QED
      BY <2>1, <2>6, <2>7 DEF Reached
  <1>3. IInv /\ [Next]_vars =>
          [\A c \in Clients :
             /\ clients[c].pc = "proved" /\ clients'[c].pc = "released"
                  => session.open /\ session.binding = clients[c].binding
             /\ clients[c].pc = "checking" /\ clients'[c].pc = "proved" /\ used.rollbacks = 0
                  => ~Reached(Run.timeout, idle)]_vars
    BY <1>1, <1>2
  <1> QED
    BY <1>3, TimeoutInvariant, PTL DEF Spec, ReleasesAreProved

(* A secret is never proved at a wall clock behind that of an earlier      *)
(* release of the session, in this worker or the one before                *)
(* (persistObservation, reconcile).                                        *)
THEOREM ReleasesAdvance == Spec => NeverBehindRelease
PROOF
  <1>1. ASSUME IInv, Next, NEW c \in Clients,
               clients[c].pc = "checking", clients'[c].pc = "proved"
        PROVE  wall >= high
    <2>1. op.kind = "checkpoint" /\ ~op.flag /\ ~(wall < op.now)
      BY <1>1, ClientSteps DEF CheckpointEnds, LateInCheckpoint
    <2>2. high <= op.now
      BY <1>1, <2>1 DEF IInv, LeaseInv
    <2>3. wall \in Nat /\ high \in Nat /\ op.now \in Nat
      BY <1>1, Fields
    <2> QED
      BY <2>1, <2>2, <2>3
  <1>2. IInv /\ [Next]_vars =>
          [\A c \in Clients :
             clients[c].pc = "checking" /\ clients'[c].pc = "proved" => wall >= high]_vars
    BY <1>1
  <1> QED
    BY <1>2, TimeoutInvariant, PTL DEF Spec, NeverBehindRelease
=============================================================================
