----------------------- MODULE WebsitePasskeys_proofs -----------------------
(***************************************************************************)
(* What a page is told of a passkey is so, and nothing is written or       *)
(* handed out in another session: for any calls of the page, connections   *)
(* and disturbances.                                                       *)
(*                                                                         *)
(* The argument.  A request begins once: while it still has to begin, or   *)
(* its begin is not registered, nothing of it exists (Untouched).  From    *)
(* then on its record never returns to awaiting, and the record, the task  *)
(* and the credential move together (CreateInv): the write is queued only  *)
(* by a task that claimed the ceremony, and a ceremony that was claimed is *)
(* never recorded as failed while the write may be on its way.  So a       *)
(* failure, once on its way to the page, stays true whatever is aborted,   *)
(* expires or restarts, and a success is told only of a stored credential. *)
(***************************************************************************)
EXTENDS WebsitePasskeys, SequenceTheorems, FiniteSetTheorems, TLAPS

-----------------------------------------------------------------------------
(* The inductive invariant.                                                *)

Pages == {"new", "asked", "gone", "refused"} \cup Outcomes
States == {"none"} \cup Active \cup Terminal
Tasks == {"none", "claim", "execute", "call"} \cup Answers
Jobs == [kind : {"begin", "resume"}, req : Requests]
Controls == [kind : {"cancel", "ack"}, req : Requests]
BridgeRec == [sent : BOOLEAN, accepted : BOOLEAN, bound : Nat, preflight : BOOLEAN]
PortRec == [no : 0..MaxPorts, open : BOOLEAN, up : BOOLEAN, jobs : Seq(Jobs),
            job : {"idle", "flow", "find", "delivered"} \cup Active,
            ctl : Seq(Controls), toPage : Seq(Message), bind : [Requests -> Bindings]]
FlowRec == [req : Requests \cup {None}, port : Nat,
            at : {"none", "discover", "register", "check", "nomatch", "window"},
            resumed : BOOLEAN, sess : Nat, gen : Nat]
Snapshots == [sess : Nat, gen : Nat]
RunRec == [on : BOOLEAN, port : Nat, win : BOOLEAN]
Deliveries == [req : Requests, kind : Outcomes, port : Nat, at : {"deliver", "post"},
               by : {"worker", "resume"}]
OutRec == {o \in Deliveries : o.at = "post" => o.kind = "success"}

Types ==
    /\ page \in [Requests -> Pages] /\ bridge \in [Requests -> BridgeRec]
    /\ flow \in FlowRec
    /\ rec \in [Requests -> States] /\ lease \in [Requests -> Snapshots]
    /\ run \in [Requests -> RunRec] /\ task \in [Requests -> Tasks] /\ out \subseteq OutRec
    /\ epoch \in Snapshots
    /\ vault \in [Requests -> {"idle", "queued", "sent", "stored", "refused"}]
    /\ writes \in [Requests -> Nat] /\ trouble \in 0..MaxTroubles

\* The two ends of a port, with at most one job of each request.
Shape(p) ==
    /\ p \in PortRec
    /\ p.up => p.open
    /\ ~p.up => p.jobs = <<>> /\ p.job = "idle"
    /\ p.job # "idle" => p.jobs # <<>>
    /\ \A i, j \in DOMAIN p.jobs : p.jobs[i].req = p.jobs[j].req => i = j

PortInv ==
    /\ Shape(port)
    /\ \A i \in DOMAIN port.jobs : bridge[port.jobs[i].req].sent
    /\ \A r \in Requests : bridge[r].sent => page[r] # "new"

\* Who waits for the preparation waits for the one that is under way, and
\* none begins while a resume looks for its ceremony.
FlowInv ==
    /\ flow.req = None <=> flow = NoFlow
    /\ flow.at = "none" <=> flow = NoFlow
    /\ port.job = "flow" => flow.req = port.jobs[1].req
    /\ port.job \in {"find", "delivered"} \cup Active => flow = NoFlow

\* The begin of r waits in p, or the bridge has yet to send it.
Waits(p, r) ==
    \E i \in DOMAIN p.jobs : /\ p.jobs[i].kind = "begin" /\ p.jobs[i].req = r
                             /\ i = 1 => p.job = "idle"
Unbegun(r) == ~bridge[r].sent \/ Waits(port, r)

\* The worker prepares it, and nothing is registered.
Early(r) == flow.req = r /\ flow.at \in {"discover", "register"}

\* The outcomes the page has been told, or that are on their way to it.
Carries(p, r, k) == \E i \in DOMAIN p.toPage : p.toPage[i].req = r /\ p.toPage[i].kind = k
Heard(r, k) ==
    page[r] = k \/ Carries(port, r, k) \/ \E o \in out : o.req = r /\ o.kind = k

Untouched(r) ==
    /\ rec[r] = "none" /\ task[r] = "none" /\ ~run[r].on
    /\ vault[r] = "idle" /\ writes[r] = 0
    /\ \A k \in Outcomes : ~Heard(r, k)

\* A request begins once, and is not approved before its preparation is over.
BeginInv(r) ==
    /\ Unbegun(r) => flow.req # r
    /\ Unbegun(r) \/ Early(r) => Untouched(r)
    /\ flow.req = r =>
         /\ task[r] = "none" /\ vault[r] = "idle" /\ ~Shown(r)
         /\ rec[r] \in {"none", "awaiting", "failed"}

\* Record, task and credential of a creation.
WriteInv(r) ==
    /\ rec[r] = "awaiting" => vault[r] = "idle" /\ task[r] \in {"none", "claim"}
    /\ rec[r] \in {"failed", "fallback"} => vault[r] \in {"idle", "refused"}
    /\ rec[r] = "completed" => vault[r] = "stored"
    /\ task[r] \in {"claim", "execute", "stopped"} => vault[r] = "idle"
    /\ task[r] = "refused" => vault[r] = "refused"
    /\ task[r] = "committed" => vault[r] = "stored"
    /\ task[r] \notin {"found", "missed"}
    /\ vault[r] \in {"idle", "queued"} => writes[r] = 0
    /\ writes[r] <= 1

\* What is told of it stays true.
HeardInv(r) ==
    /\ Heard(r, "success") => vault[r] = "stored"
    /\ Heard(r, "failed") \/ Heard(r, "fallback") =>
         vault[r] \in {"idle", "refused"} /\ rec[r] \in {"none", "failed", "fallback"}

CreateInv(r) == WriteInv(r) /\ HeardInv(r)

RequestInv(r) == BeginInv(r) /\ (r \in Creates => CreateInv(r))

IInv == Types /\ PortInv /\ FlowInv /\ \A r \in Requests : RequestInv(r)

-----------------------------------------------------------------------------
(* Lemmas about the port.                                                  *)

LEMMA Fields ==
    ASSUME NEW p, Shape(p)
    PROVE  /\ p.no \in 0..MaxPorts /\ p.open \in BOOLEAN /\ p.up \in BOOLEAN
           /\ p.jobs \in Seq(Jobs) /\ p.ctl \in Seq(Controls) /\ p.toPage \in Seq(Message)
           /\ p.job \in {"idle", "flow", "find", "delivered"} \cup Active
           /\ p.bind \in [Requests -> Bindings]
           /\ DOMAIN p.jobs = 1..Len(p.jobs) /\ DOMAIN p.toPage = 1..Len(p.toPage)
  BY DEF Shape, PortRec

LEMMA NoneShape ==
    /\ Shape(NoPort)
    /\ NoPort.jobs = <<>> /\ NoPort.toPage = <<>> /\ NoPort.job = "idle"
    /\ NoPort.open = FALSE /\ NoPort.up = FALSE /\ NoPort.no = 0
  BY LimitsAssumption DEF NoPort, Shape, PortRec, Bindings, Active

\* What a step of the worker does to the port: it may answer r with k, and
\* lets go of jobs, or of the port.
Eases(p, q, r, k) ==
    /\ Shape(q) /\ q.no = p.no
    /\ \A s : Waits(q, s) => Waits(p, s)
    /\ \A i \in DOMAIN q.jobs : \E j \in DOMAIN p.jobs : q.jobs[i].req = p.jobs[j].req
    /\ \A s, m : Carries(q, s, m) => Carries(p, s, m) \/ (s = r /\ m = k)
    /\ Len(q.toPage) > Len(p.toPage) => Last(q.toPage) = [kind |-> k, req |-> r]

LEMMA ClosedEases ==
    ASSUME NEW p, Shape(p), NEW r, NEW k
    PROVE  /\ Eases(p, Closed(p), r, k) /\ Closed(p).job = "idle"
           /\ Closed(p).toPage = p.toPage
PROOF
  <1>1. /\ Closed(p).no = p.no /\ Closed(p).open = p.open /\ Closed(p).up = FALSE
        /\ Closed(p).jobs = <<>> /\ Closed(p).job = "idle" /\ Closed(p).toPage = p.toPage
        /\ Closed(p) \in PortRec
    BY LimitsAssumption, NoneShape, Fields DEF Closed, NoPort, Shape, PortRec, Bindings
  <1> HIDE DEF Closed
  <1> QED
    BY <1>1 DEF Eases, Shape, Waits, Carries

LEMMA PostedEases ==
    ASSUME NEW p, Shape(p), NEW r \in Requests, NEW k \in Outcomes \cup {"accepted", "busy"}
    PROVE  /\ Eases(p, Posted(p, k, r), r, k)
           /\ Posted(p, k, r).jobs = p.jobs /\ Posted(p, k, r).job = p.job
PROOF
  <1> DEFINE m == [kind |-> k, req |-> r]
             q == Posted(p, k, r)
  <1>1. m \in Message
    BY DEF Message
  <1>2. q = [p EXCEPT !.toPage = Append(p.toPage, m)]
    BY Fields DEF Posted
  <1> HIDE DEF m
  <1>3. /\ Append(p.toPage, m) \in Seq(Message) /\ Len(Append(p.toPage, m)) = Len(p.toPage) + 1
        /\ \A i \in 1..Len(p.toPage) : Append(p.toPage, m)[i] = p.toPage[i]
        /\ Append(p.toPage, m)[Len(p.toPage) + 1] = m
    BY <1>1, Fields, AppendProperties
  <1>4. /\ q.toPage = Append(p.toPage, m) /\ q.jobs = p.jobs /\ q.job = p.job /\ q.up = p.up
        /\ q.open = p.open /\ q.no = p.no /\ q \in PortRec
    BY <1>2, <1>3 DEF Shape, PortRec
  <1> HIDE DEF q
  <1>5. Shape(q)
    BY <1>4 DEF Shape
  <1>6. \A s, n : Carries(q, s, n) => Carries(p, s, n) \/ (s = r /\ n = k)
    <2> SUFFICES ASSUME NEW s, NEW n, NEW i \in DOMAIN q.toPage, q.toPage[i].req = s,
                        q.toPage[i].kind = n
                 PROVE  Carries(p, s, n) \/ (s = r /\ n = k)
      BY DEF Carries
    <2>1. i \in 1..(Len(p.toPage) + 1) /\ Len(p.toPage) \in Nat
      BY <1>3, <1>4, Fields
    <2>2. CASE i \in 1..Len(p.toPage)
      BY <1>3, <1>4, <2>2, Fields DEF Carries
    <2>3. CASE i = Len(p.toPage) + 1
      BY <1>3, <1>4, <2>3 DEF m
    <2> QED
      BY <2>1, <2>2, <2>3
  <1> QED
    BY <1>3, <1>4, <1>5, <1>6 DEF Eases, Waits, Last, q, m

\* The handler is done with the message at the head.
LEMMA DoneEases ==
    ASSUME NEW p, Shape(p), p.jobs # <<>>, NEW r, NEW k
    PROVE  LET q == [p EXCEPT !.jobs = Tail(@), !.job = "idle"] IN
           /\ Eases(p, q, r, k) /\ q.toPage = p.toPage /\ q.up = p.up /\ q.bind = p.bind
           /\ q.job = "idle"
PROOF
  <1> DEFINE q == [p EXCEPT !.jobs = Tail(p.jobs), !.job = "idle"]
  <1>1. /\ Tail(p.jobs) \in Seq(Jobs) /\ Len(Tail(p.jobs)) = Len(p.jobs) - 1
        /\ \A i \in 1..Len(Tail(p.jobs)) : Tail(p.jobs)[i] = p.jobs[i + 1]
        /\ Len(p.jobs) \in Nat \ {0}
    BY Fields, HeadTailProperties, LenProperties
  <1>2. /\ q.jobs = Tail(p.jobs) /\ q.job = "idle" /\ q.up = p.up /\ q.open = p.open
        /\ q.no = p.no /\ q.toPage = p.toPage /\ q.bind = p.bind /\ q \in PortRec
    BY <1>1 DEF Shape, PortRec
  <1> HIDE DEF q
  <1>3. \A i \in DOMAIN q.jobs : i + 1 \in DOMAIN p.jobs /\ q.jobs[i] = p.jobs[i + 1] /\ i \in Nat
                                 /\ i + 1 # 1
    BY <1>1, <1>2, Fields
  <1>4. p.up
    BY DEF Shape
  <1>5. Shape(q)
    BY <1>2, <1>3, <1>4 DEF Shape
  <1> QED
    BY <1>2, <1>3, <1>5, Fields DEF Eases, Waits, Carries, q

\* A binding, the jobs of the control queue and a message taken change
\* nothing of this.
LEMMA BoundEases ==
    ASSUME NEW p, Shape(p), NEW r \in Requests, NEW b \in Bindings, NEW k
    PROVE  LET q == [p EXCEPT !.bind[r] = b] IN
           /\ Eases(p, q, r, k) /\ q.toPage = p.toPage /\ q.jobs = p.jobs /\ q.job = p.job
           /\ q.up = p.up
PROOF
  <1> DEFINE c == [p.bind EXCEPT ![r] = b]
             q == [p EXCEPT !.bind = c]
  <1>1. c \in [Requests -> Bindings]
    BY Fields
  <1> HIDE DEF c
  <1>2. /\ q.jobs = p.jobs /\ q.job = p.job /\ q.up = p.up /\ q.open = p.open
        /\ q.no = p.no /\ q.toPage = p.toPage /\ q \in PortRec
    BY <1>1 DEF Shape, PortRec
  <1>3. [p EXCEPT !.bind[r] = b] = q
    BY DEF c, Shape, PortRec
  <1> HIDE DEF q
  <1> QED
    BY <1>2, <1>3 DEF Eases, Shape, Waits, Carries

LEMMA EasesTwice ==
    ASSUME NEW p, NEW q, NEW w, NEW r, NEW k, Eases(p, q, r, k), Eases(q, w, r, k),
           q.toPage = p.toPage
    PROVE  Eases(p, w, r, k)
  BY DEF Eases

\* The handler answers the message at the head (postBoundResponse).
LEMMA AnsweredEases ==
    ASSUME Shape(port), port.jobs # <<>>, NEW r \in Requests,
           NEW k \in Outcomes \cup {"accepted", "busy"}
    PROVE  Eases(port, Answered(r, k), r, k) /\ Answered(r, k).job = "idle"
PROOF
  <1> DEFINE p == [port EXCEPT !.jobs = Tail(@), !.job = "idle"]
             b == Rebound(p.bind[r], k)
             q == [p EXCEPT !.bind[r] = b]
  <1>0. Eases(port, p, r, k) /\ p.toPage = port.toPage /\ p.job = "idle"
    BY DoneEases
  <1> HIDE DEF p
  <1>1. Eases(port, p, r, k) /\ p.toPage = port.toPage /\ p.job = "idle" /\ Shape(p)
    BY <1>0 DEF Eases
  <1>2. b \in Bindings
    BY <1>1, Fields DEF Rebound, Bindings
  <1> HIDE DEF b
  <1>3. Eases(p, q, r, k) /\ q.job = "idle" /\ q.toPage = p.toPage
    BY <1>1, <1>2, BoundEases
  <1>4. q = [p EXCEPT !.bind[r] = Rebound(@, k)]
    BY <1>1 DEF b, Shape, PortRec
  <1> HIDE DEF q
  <1>5. CASE ~Listening(r)
    BY <1>1, <1>5 DEF Answered, p
  <1>6. CASE Listening(r) /\ k = "busy" /\ port.bind[r] # "bound"
    BY <1>6, ClosedEases DEF Answered
  <1>7. CASE Listening(r) /\ ~(k = "busy" /\ port.bind[r] # "bound")
    <2>1. Answered(r, k) = Posted(q, k, r)
      BY <1>4, <1>7 DEF Answered, p
    <2>2. Eases(q, Posted(q, k, r), r, k) /\ Posted(q, k, r).job = "idle"
      <3>1. Shape(q)
        BY <1>3 DEF Eases
      <3> QED
        BY <1>1, <1>3, <3>1, PostedEases
    <2> QED
      BY <1>1, <1>3, <2>1, <2>2, EasesTwice
  <1> QED
    BY <1>5, <1>6, <1>7

\* The message at the head, and what its handler does until it answers.
LEMMA HeadJob ==
    ASSUME NEW p, Shape(p), p.jobs # <<>>
    PROVE  /\ p.up /\ p.open /\ 1 \in DOMAIN p.jobs /\ Head(p.jobs) = p.jobs[1]
           /\ Head(p.jobs) \in Jobs /\ Head(p.jobs).req \in Requests
PROOF
  <1>1. p.jobs \in Seq(Jobs) /\ Len(p.jobs) \in Nat \ {0} /\ DOMAIN p.jobs = 1..Len(p.jobs)
    BY Fields, LenProperties
  <1>2. Head(p.jobs) = p.jobs[1] /\ Head(p.jobs) \in Jobs
    BY <1>1, HeadTailProperties
  <1>3. \A m \in Jobs : m.req \in Requests
    BY DEF Jobs
  <1> QED
    BY <1>1, <1>2, <1>3 DEF Shape

LEMMA JobEases ==
    ASSUME NEW p, Shape(p), p.jobs # <<>>, NEW j \in {"flow", "find", "delivered"} \cup Active,
           NEW r, NEW k
    PROVE  LET q == [p EXCEPT !.job = j] IN
           /\ Eases(p, q, r, k) /\ q.toPage = p.toPage /\ q.jobs = p.jobs /\ q.job = j
PROOF
  <1> DEFINE q == [p EXCEPT !.job = j]
  <1>1. /\ q.jobs = p.jobs /\ q.job = j /\ q.up = p.up /\ q.open = p.open
        /\ q.no = p.no /\ q.toPage = p.toPage /\ q \in PortRec
    BY DEF Shape, PortRec
  <1>2. j # "idle" /\ p.up
    BY HeadJob DEF Active
  <1> HIDE DEF q
  <1>3. Eases(p, q, r, k)
    BY <1>1, <1>2, Fields DEF Eases, Shape, Waits, Carries
  <1> QED
    BY <1>1, <1>3 DEF q

\* Another request is prepared: the message at the head is refused.
LEMMA RefusedEases ==
    ASSUME Shape(port), port.jobs # <<>>, port.job = "idle", NEW r \in Requests
    PROVE  LET q == Posted([port EXCEPT !.jobs = Tail(@)], "busy", r) IN
           Eases(port, q, r, "busy") /\ q.job = "idle"
PROOF
  <1> DEFINE p == [port EXCEPT !.jobs = Tail(@), !.job = "idle"]
  <1>1. Eases(port, p, r, "busy") /\ p.toPage = port.toPage /\ p.job = "idle"
    BY DoneEases
  <1>2. [port EXCEPT !.jobs = Tail(@)] = p
    BY DEF Shape, PortRec
  <1> HIDE DEF p
  <1>3. Shape(p)
    BY <1>1 DEF Eases
  <1>4. Eases(p, Posted(p, "busy", r), r, "busy") /\ Posted(p, "busy", r).job = "idle"
    BY <1>1, <1>3, PostedEases
  <1> QED
    BY <1>1, <1>2, <1>4, EasesTwice

\* The page reads a message, and says something on the control queue.
LEMMA TakenEases ==
    ASSUME Shape(port), port.toPage # <<>>, NEW r, NEW k
    PROVE  /\ Eases(port, Taken, r, k) /\ Taken.jobs = port.jobs /\ Taken.job = port.job
           /\ Taken.up = port.up
PROOF
  <1>1. /\ Tail(port.toPage) \in Seq(Message)
        /\ Len(Tail(port.toPage)) = Len(port.toPage) - 1 /\ Len(port.toPage) \in Nat \ {0}
        /\ \A i \in 1..Len(Tail(port.toPage)) :
              i + 1 \in 1..Len(port.toPage) /\ Tail(port.toPage)[i] = port.toPage[i + 1]
    BY Fields, HeadTailProperties, LenProperties
  <1>2. /\ Taken.toPage = Tail(port.toPage) /\ Taken.jobs = port.jobs /\ Taken.job = port.job
        /\ Taken.up = port.up /\ Taken.open = port.open /\ Taken.no = port.no /\ Taken \in PortRec
    BY <1>1 DEF Taken, Shape, PortRec
  <1> HIDE DEF Taken
  <1>3. \A s, m : Carries(Taken, s, m) => Carries(port, s, m)
    BY <1>1, <1>2, Fields DEF Carries
  <1> QED
    BY <1>1, <1>2, <1>3 DEF Eases, Shape, Waits

LEMMA ControlEases ==
    ASSUME NEW p, Shape(p), NEW c \in Seq(Controls), NEW r, NEW k
    PROVE  LET q == [p EXCEPT !.ctl = c] IN
           /\ Eases(p, q, r, k) /\ q.toPage = p.toPage /\ q.jobs = p.jobs /\ q.job = p.job
           /\ q.up = p.up
PROOF
  <1> DEFINE q == [p EXCEPT !.ctl = c]
  <1>1. /\ q.jobs = p.jobs /\ q.job = p.job /\ q.up = p.up /\ q.open = p.open
        /\ q.no = p.no /\ q.toPage = p.toPage /\ q \in PortRec
    BY DEF Shape, PortRec
  <1> HIDE DEF q
  <1>2. Eases(p, q, r, k)
    BY <1>1 DEF Eases, Shape, Waits, Carries
  <1> QED
    BY <1>1, <1>2 DEF q

LEMMA SaysEases ==
    ASSUME NEW p, Shape(p), NEW r \in Requests, NEW c \in {"cancel", "ack"}, NEW k
    PROVE  LET q == [p EXCEPT !.ctl = Append(@, [kind |-> c, req |-> r])] IN
           /\ Eases(p, q, r, k) /\ q.toPage = p.toPage /\ q.jobs = p.jobs /\ q.job = p.job
           /\ q.up = p.up
PROOF
  <1> DEFINE m == [kind |-> c, req |-> r]
  <1>1. m \in Controls
    BY DEF Controls
  <1> HIDE DEF m
  <1>2. Append(p.ctl, m) \in Seq(Controls)
    BY <1>1, Fields, AppendProperties
  <1> QED
    BY <1>2, ControlEases DEF m

-----------------------------------------------------------------------------
(* Lemmas about a request.                                                 *)

\* Nothing of the request happens.
Same(q) ==
    /\ rec'[q] = rec[q] /\ task'[q] = task[q] /\ run'[q] = run[q]
    /\ vault'[q] = vault[q] /\ writes'[q] = writes[q]

\* It has not to begin again, and its preparation goes no step back.
Steady(q) ==
    /\ Unbegun(q)' => Unbegun(q)
    /\ flow'.req = q => flow.req = q
    /\ Early(q)' => Early(q)

LEMMA OthersKept ==
    ASSUME NEW q \in Requests, RequestInv(q), Same(q), Steady(q),
           \A k \in Outcomes : Heard(q, k)' => Heard(q, k)
    PROVE  RequestInv(q)'
PROOF
  <1>1. Untouched(q) => Untouched(q)'
    BY DEF Untouched, Same
  <1>2. Shown(q)' => Shown(q)
    BY DEF Shown, Same
  <1>3. BeginInv(q)'
    BY <1>1, <1>2 DEF RequestInv, BeginInv, Same, Steady
  <1>4. q \in Creates => CreateInv(q)'
    BY DEF RequestInv, CreateInv, WriteInv, HeardInv, Same, Outcomes
  <1> QED
    BY <1>3, <1>4 DEF RequestInv

\* What the worker has seen of a request tells that it has begun.
LEMMA Begun ==
    ASSUME NEW r \in Requests, RequestInv(r),
           \/ rec[r] # "none" \/ task[r] # "none" \/ run[r].on
           \/ vault[r] # "idle" \/ writes[r] # 0 \/ \E k \in Outcomes : Heard(r, k)
    PROVE  ~Unbegun(r) /\ ~Early(r)
  BY DEF RequestInv, BeginInv, Untouched

\* A request that has begun: its record, task and credential move together,
\* and the page hears nothing but how it ended.
Prepared(r) ==
    /\ task[r] = "none" /\ vault[r] = "idle" /\ ~Shown(r)
    /\ rec[r] \in {"none", "awaiting", "failed"}

Unwritten(r) == vault[r] \in {"idle", "refused"} /\ rec[r] \in {"none", "failed", "fallback"}

\* An outcome k that is so, for a creation as for a use.
Tells(r, k) ==
    \/ rec'[r] \in Terminal /\ k = OutcomeOf(rec'[r])
    \/ k = "failed" /\ Unwritten(r)'

Advances(r) ==
    /\ ~Unbegun(r) /\ ~Early(r)
    /\ flow'.req = r => Prepared(r)'
    /\ r \in Creates => /\ WriteInv(r)'
                        /\ vault[r] = "stored" => vault'[r] = "stored"
                        /\ Unwritten(r) => Unwritten(r)'

LEMMA BegunKept ==
    ASSUME NEW r \in Requests, RequestInv(r), Steady(r), Advances(r),
           \A k \in Outcomes : Heard(r, k)' => Heard(r, k) \/ Tells(r, k)
    PROVE  RequestInv(r)'
PROOF
  <1>1. BeginInv(r)'
    BY DEF BeginInv, Steady, Advances, Prepared
  <1>2. ASSUME r \in Creates PROVE CreateInv(r)'
    <2>1. HeardInv(r) /\ WriteInv(r)'
      BY <1>2 DEF RequestInv, CreateInv, Advances
    <2>2. HeardInv(r)'
      BY <1>2, <2>1
         DEF HeardInv, WriteInv, Outcomes, OutcomeOf, Terminal, Advances, Unwritten, Tells
    <2> QED
      BY <2>1, <2>2 DEF CreateInv
  <1> QED
    BY <1>1, <1>2 DEF RequestInv

-----------------------------------------------------------------------------
(* Lemmas about a step.                                                    *)

\* A step about request r that tells the page, or a delivery, at most k.
Moves(r, k) ==
    /\ \A q \in Requests :
          /\ bridge'[q].sent = bridge[q].sent
          /\ page[q] # "new" => page'[q] # "new"
          /\ \A m \in Outcomes : page'[q] = m => Heard(q, m)
    /\ Eases(port, port', r, k)
    /\ \A o \in out' : o \in out \/ (o.req = r /\ o.kind = k)
    /\ \A q \in Requests : (flow'.req = q => flow.req = q) /\ (Early(q)' => Early(q))
    /\ \A q \in Requests \ {r} : Same(q)
    /\ k \in Outcomes => Heard(r, k) \/ Tells(r, k)

LEMMA MovesKept ==
    ASSUME IInv, NEW r, NEW k, Moves(r, k),
           r \in Requests => \/ Same(r) /\ (k \in Outcomes => Heard(r, k))
                             \/ Advances(r)
    PROVE  PortInv' /\ \A q \in Requests : RequestInv(q)'
PROOF
  <1>1. Shape(port) /\ Shape(port') /\ \A q : Waits(port', q) => Waits(port, q)
    BY DEF IInv, PortInv, Moves, Eases
  <1>2. PortInv'
    <2>1. \A i \in DOMAIN port'.jobs : \E j \in DOMAIN port.jobs :
             port'.jobs[i].req = port.jobs[j].req /\ port.jobs[j] \in Jobs
      BY <1>1, Fields DEF Moves, Eases
    <2> QED
      BY <1>1, <2>1 DEF PortInv, IInv, Moves, Jobs
  <1>3. \A q \in Requests : Steady(q)
    BY <1>1 DEF Moves, Steady, Unbegun
  <1>4. \A q \in Requests, m \in Outcomes : Heard(q, m)' => Heard(q, m) \/ (q = r /\ m = k)
    BY DEF Moves, Eases, Heard
  <1>5. ASSUME NEW q \in Requests, q # r PROVE RequestInv(q)'
    BY <1>3, <1>4, <1>5, OthersKept DEF IInv, Moves
  <1>6. ASSUME r \in Requests PROVE RequestInv(r)'
    <2>1. CASE Same(r) /\ (k \in Outcomes => Heard(r, k))
      BY <1>3, <1>4, <1>6, <2>1, OthersKept DEF IInv
    <2>2. CASE Advances(r)
      BY <1>3, <1>4, <1>6, <2>2, BegunKept DEF IInv, Moves
    <2> QED
      BY <1>6, <2>1, <2>2
  <1> QED
    BY <1>2, <1>5, <1>6

\* How the record of a creation may change while its credential does not.
Ends(r) ==
    \/ rec'[r] \in {rec[r], "none"}
    \/ rec[r] = "awaiting" /\ rec'[r] \in {"failed", "fallback"}
    \/ rec[r] \in Active /\ rec'[r] = "uncertain"

LEMMA CreationEnds ==
    ASSUME IInv, NEW r \in Creates, Ends(r), task'[r] \in {task[r], "none"},
           vault'[r] = vault[r], writes'[r] = writes[r]
    PROVE  /\ WriteInv(r)' /\ (vault[r] = "stored" => vault'[r] = "stored")
           /\ Unwritten(r) => Unwritten(r)'
PROOF
  <1>1. WriteInv(r)
    BY RequestsAssumption DEF IInv, RequestInv, CreateInv
  <1> QED
    BY <1>1 DEF WriteInv, Unwritten, Ends, Active

LEMMA AbortEnds ==
    ASSUME NEW r \in Requests, rec[r] \in Active
    PROVE  /\ Aborted(r) \in Terminal /\ OutcomeOf(Aborted(r)) = Aborted(r)
           /\ Aborted(r) \in {"failed", "uncertain"} /\ Aborted(r) \in Outcomes
           /\ rec[r] = "awaiting" => Aborted(r) = "failed"
           /\ r \in Creates /\ rec'[r] = Aborted(r) => Ends(r)
  BY DEF Aborted, Interrupted, Active, Terminal, OutcomeOf, Outcomes, Ends

\* What SameSession says of a step.
Honest ==
    \A r \in Requests :
       /\ writes'[r] > writes[r] => lease[r] = epoch
       /\ SuccessPosted(r) => lease[r].sess = epoch.sess
          /\ (r \notin Creates => lease[r].gen = epoch.gen)

LEMMA Silent ==
    ASSUME IInv, NEW r, NEW k, Eases(port, port', r, k),
           k # "success" \/ port'.toPage = port.toPage, writes' = writes
    PROVE  Honest
PROOF
  <1>1. Len(port.toPage) \in Nat /\ \A q \in Requests : writes[q] \in Nat
    BY Fields DEF IInv, Types, PortInv
  <1> QED
    BY <1>1 DEF Honest, SuccessPosted, Eases

\* A step that tells the page nothing of how a ceremony ended, and leaves
\* the ceremonies alone.
LEMMA PortStep ==
    ASSUME IInv, NEW r, NEW k, k \notin Outcomes, Eases(port, port', r, k), Types', FlowInv',
           \A q \in Requests :
              /\ bridge'[q].sent = bridge[q].sent
              /\ page[q] # "new" => page'[q] # "new"
              /\ \A m \in Outcomes : page'[q] = m => Heard(q, m),
           \A q \in Requests : (flow'.req = q => flow.req = q) /\ (Early(q)' => Early(q)),
           UNCHANGED <<ceremonies, vault, writes>>
    PROVE  IInv' /\ Honest
PROOF
  <1>1. \A q : Same(q)
    BY DEF Same, ceremonies
  <1>2. Moves(r, k)
    BY <1>1 DEF Moves, ceremonies
  <1>3. PortInv' /\ \A q \in Requests : RequestInv(q)'
    BY <1>1, <1>2, MovesKept
  <1>4. Honest
    BY Silent DEF Outcomes
  <1> QED
    BY <1>3, <1>4 DEF IInv

\* What the bridge remembers of one request changes.
LEMMA BridgeMoves ==
    ASSUME bridge \in [Requests -> BridgeRec], NEW r \in Requests, NEW b \in BridgeRec,
           bridge' = [bridge EXCEPT ![r] = b]
    PROVE  /\ bridge' \in [Requests -> BridgeRec] /\ bridge'[r] = b
           /\ \A q \in Requests \ {r} : bridge'[q] = bridge[q]
  OBVIOUS

-----------------------------------------------------------------------------
(* The page and the bridge.                                                *)

LEMMA GiveUpKept ==
    ASSUME IInv, NEW r \in Requests, GiveUp(r)
    PROVE  IInv' /\ Honest
PROOF
  <1> USE DEF GiveUp, ceremonies, world
  <1>1. Shape(port) /\ Shape(port') /\ port'.job = port.job /\ port'.jobs = port.jobs
        /\ Eases(port, port', r, "accepted")
    <2>1. Shape(port)
      BY DEF IInv, PortInv
    <2> DEFINE q == [port EXCEPT !.ctl = Append(@, [kind |-> "cancel", req |-> r])]
    <2>3. Eases(port, q, r, "accepted") /\ q.jobs = port.jobs /\ q.job = port.job
      BY <2>1, SaysEases
    <2>4. Eases(port, port, r, "accepted")
      BY <2>1 DEF Eases
    <2>5. port' = q \/ port' = port
      OBVIOUS
    <2> HIDE DEF q
    <2>6. Eases(port, port', r, "accepted") /\ port'.jobs = port.jobs /\ port'.job = port.job
      BY <2>3, <2>4, <2>5
    <2> QED
      BY <2>1, <2>6 DEF Eases
  <1>2. /\ page' \in [Requests -> Pages] /\ page'[r] = "gone"
        /\ \A q \in Requests \ {r} : page'[q] = page[q]
    BY DEF IInv, Types, Pages
  <1>3. Types'
    BY <1>2 DEF IInv, Types
  <1>4. FlowInv'
    BY <1>1 DEF IInv, FlowInv
  <1>5. \A q \in Requests : (flow'.req = q => flow.req = q) /\ (Early(q)' => Early(q))
    BY DEF Early
  <1>6. \A q \in Requests :
              /\ bridge'[q].sent = bridge[q].sent
              /\ page[q] # "new" => page'[q] # "new"
              /\ \A m \in Outcomes : page'[q] = m => Heard(q, m)
    BY <1>2 DEF Heard, Outcomes
  <1>7. "accepted" \notin Outcomes
    BY DEF Outcomes
  <1> QED
    BY <1>1, <1>3, <1>4, <1>5, <1>6, <1>7, PortStep

LEMMA PortDropsKept ==
    ASSUME IInv, PortDrops
    PROVE  IInv' /\ Honest
PROOF
  <1> USE DEF PortDrops, document, ceremonies, world
  <1>1. Eases(port, port', None, "accepted") /\ port'.job = "idle"
    BY ClosedEases DEF IInv, PortInv
  <1>2. Types'
    BY LimitsAssumption DEF IInv, Types, Disturb
  <1>3. FlowInv'
    BY <1>1 DEF IInv, FlowInv, Active
  <1>4. "accepted" \notin Outcomes
    BY DEF Outcomes
  <1> QED
    BY <1>1, <1>2, <1>3, <1>4, PortStep DEF Heard, Early

LEMMA BridgeLosesKept ==
    ASSUME IInv, BridgeLoses
    PROVE  IInv' /\ Honest
PROOF
  <1> USE DEF BridgeLoses, document, ceremonies, world
  <1>1. Shape(port)
    BY DEF IInv, PortInv
  <1>2. /\ port'.no = port.no /\ port'.up = FALSE /\ port'.job = "idle" /\ port'.jobs = <<>>
        /\ port'.toPage = <<>> /\ port' \in PortRec /\ port'.open = FALSE
    BY <1>1, NoneShape DEF Shape, PortRec
  <1>3. Eases(port, port', None, "accepted")
    BY <1>1, <1>2, Fields DEF Eases, Shape, Waits, Carries
  <1>4. Types'
    BY DEF IInv, Types
  <1>5. FlowInv'
    BY <1>2 DEF IInv, FlowInv, Active
  <1>6. "accepted" \notin Outcomes
    BY DEF Outcomes
  <1> QED
    BY <1>3, <1>4, <1>5, <1>6, PortStep DEF Heard, Early

\* The page reads the message at the head, and may say something about it.
LEMMA HeardEases ==
    ASSUME Shape(port), port.toPage # <<>>, NEW r \in Requests, NEW c \in {"cancel", "ack"},
           NEW k, NEW w,
           w \in {Taken, [Taken EXCEPT !.ctl = Append(@, [kind |-> c, req |-> r])]}
    PROVE  Eases(port, w, r, k) /\ w.jobs = port.jobs /\ w.job = port.job
PROOF
  <1> DEFINE v == [Taken EXCEPT !.ctl = Append(@, [kind |-> c, req |-> r])]
  <1>1. Eases(port, Taken, r, k) /\ Taken.jobs = port.jobs /\ Taken.job = port.job
    BY TakenEases
  <1>2. Shape(Taken)
    BY <1>1 DEF Eases
  <1>3. /\ Eases(Taken, v, r, k) /\ v.toPage = Taken.toPage
        /\ v.jobs = Taken.jobs /\ v.job = Taken.job
    BY <1>2, SaysEases
  <1> HIDE DEF v
  <1>4. Eases(port, v, r, k)
    <2>1. Len(Taken.toPage) \in Nat /\ Len(port.toPage) \in Nat
          /\ ~(Len(Taken.toPage) > Len(port.toPage))
      <3>1. /\ Taken.toPage = Tail(port.toPage) /\ Len(Tail(port.toPage)) = Len(port.toPage) - 1
            /\ Len(port.toPage) \in Nat \ {0}
        BY Fields, HeadTailProperties, LenProperties DEF Taken, Shape, PortRec
      <3> QED
        BY <3>1
    <2> QED
      BY <1>1, <1>3, <2>1 DEF Eases
  <1> QED
    BY <1>1, <1>3, <1>4 DEF v

LEMMA HeadCarried ==
    ASSUME Shape(port), port.toPage # <<>>
    PROVE  Head(port.toPage) \in Message
           /\ Carries(port, Head(port.toPage).req, Head(port.toPage).kind)
PROOF
  <1>1. /\ Head(port.toPage) = port.toPage[1] /\ 1 \in DOMAIN port.toPage
        /\ port.toPage[1] \in Message
    BY Fields, HeadTailProperties, ElementOfSeq
  <1> QED
    BY <1>1 DEF Carries

LEMMA HearsAcceptedKept ==
    ASSUME IInv, NEW r \in Requests, HearsAccepted(r)
    PROVE  IInv' /\ Honest
PROOF
  <1> USE DEF HearsAccepted, ceremonies, world
  <1>1. Shape(port) /\ port.toPage # <<>> /\ port.no \in Nat
    BY LimitsAssumption, Fields DEF IInv, PortInv, Received
  <1>2. Eases(port, port', r, "accepted") /\ port'.jobs = port.jobs /\ port'.job = port.job
    BY <1>1, HeardEases
  <1> DEFINE b == [[bridge[r] EXCEPT !.accepted = TRUE] EXCEPT !.bound = port.no]
  <1>3. bridge' = [bridge EXCEPT ![r] = b] /\ b \in BridgeRec /\ b.sent = bridge[r].sent
    BY <1>1 DEF IInv, Types, BridgeRec
  <1> HIDE DEF b
  <1>4. bridge' \in [Requests -> BridgeRec] /\ \A q \in Requests : bridge'[q].sent = bridge[q].sent
    BY <1>3 DEF IInv, Types
  <1>5. Types'
    BY <1>4 DEF IInv, Types
  <1>6. FlowInv'
    BY <1>2 DEF IInv, FlowInv
  <1>7. "accepted" \notin Outcomes
    BY DEF Outcomes
  <1> QED
    BY <1>2, <1>4, <1>5, <1>6, <1>7, PortStep DEF Heard, Early

LEMMA HearsBusyKept ==
    ASSUME IInv, NEW r \in Requests, HearsBusy(r)
    PROVE  IInv' /\ Honest
PROOF
  <1> USE DEF HearsBusy, ceremonies, world
  <1>1. Shape(port) /\ port.toPage # <<>>
    BY DEF IInv, PortInv, Received
  <1>2. Eases(port, port', r, "busy") /\ port'.jobs = port.jobs /\ port'.job = port.job
    BY <1>1, HeardEases
  <1> DEFINE b == [[bridge[r] EXCEPT !.preflight = TRUE] EXCEPT !.bound = 0]
  <1>3. bridge' = [bridge EXCEPT ![r] = b] /\ b \in BridgeRec /\ b.sent = bridge[r].sent
    BY DEF IInv, Types, BridgeRec
  <1> HIDE DEF b
  <1>4. bridge' \in [Requests -> BridgeRec] /\ \A q \in Requests : bridge'[q].sent = bridge[q].sent
    BY <1>3 DEF IInv, Types
  <1>5. /\ page' \in [Requests -> Pages] /\ page'[r] \in {page[r], "refused"}
        /\ \A q \in Requests \ {r} : page'[q] = page[q]
    BY DEF IInv, Types, Pages
  <1>6. Types'
    BY <1>4, <1>5 DEF IInv, Types
  <1>7. FlowInv'
    BY <1>2 DEF IInv, FlowInv
  <1>8. "busy" \notin Outcomes /\ "refused" \notin Outcomes
    BY DEF Outcomes
  <1>9. \A q \in Requests :
              /\ bridge'[q].sent = bridge[q].sent
              /\ page[q] # "new" => page'[q] # "new"
              /\ \A m \in Outcomes : page'[q] = m => Heard(q, m)
    BY <1>4, <1>5, <1>8 DEF Heard
  <1> QED
    BY <1>2, <1>6, <1>7, <1>8, <1>9, PortStep DEF Early

LEMMA HearsOutcomeKept ==
    ASSUME IInv, NEW r \in Requests, HearsOutcome(r)
    PROVE  IInv' /\ Honest
PROOF
  <1> USE DEF HearsOutcome, ceremonies, world
  <1> DEFINE k == Head(port.toPage).kind
  <1>1. Shape(port) /\ port.toPage # <<>> /\ port.no \in Nat
    BY LimitsAssumption, Fields DEF IInv, PortInv, Received
  <1>2. Eases(port, port', r, "accepted") /\ port'.jobs = port.jobs /\ port'.job = port.job
    BY <1>1, HeardEases
  <1>3. k \in Outcomes /\ Carries(port, r, k)
    BY <1>1, HeadCarried
  <1> DEFINE b == [bridge[r] EXCEPT !.bound = port.no]
  <1>4. bridge' = [bridge EXCEPT ![r] = b] /\ b \in BridgeRec /\ b.sent = bridge[r].sent
    BY <1>1 DEF IInv, Types, BridgeRec
  <1> HIDE DEF b
  <1>5. bridge' \in [Requests -> BridgeRec] /\ \A q \in Requests : bridge'[q].sent = bridge[q].sent
    <2>1. bridge \in [Requests -> BridgeRec]
      BY DEF IInv, Types
    <2> HIDE DEF HearsOutcome
    <2> QED
      BY <1>4, <2>1, BridgeMoves
  <1>6. /\ page' \in [Requests -> Pages] /\ page'[r] \in {page[r], k}
        /\ \A q \in Requests \ {r} : page'[q] = page[q]
    <2>1. page' = [page EXCEPT ![r] = IF page[r] = "asked" THEN k ELSE page[r]]
      OBVIOUS
    <2>2. page \in [Requests -> Pages] /\ Outcomes \subseteq Pages
      BY DEF IInv, Types, Pages
    <2> HIDE DEF k, HearsOutcome
    <2> QED
      BY <1>3, <2>1, <2>2
  <1> HIDE DEF k
  <1>7. Types'
    BY <1>5, <1>6 DEF IInv, Types
  <1>8. FlowInv'
    BY <1>2 DEF IInv, FlowInv
  <1>9. "accepted" \notin Outcomes /\ "new" \notin Outcomes
    BY DEF Outcomes
  <1>10. \A q \in Requests :
              /\ bridge'[q].sent = bridge[q].sent
              /\ page[q] # "new" => page'[q] # "new"
              /\ \A m \in Outcomes : page'[q] = m => Heard(q, m)
    BY <1>3, <1>5, <1>6, <1>9 DEF Heard
  <1> QED
    BY <1>2, <1>7, <1>8, <1>9, <1>10, PortStep DEF Early

LEMMA AskKept ==
    ASSUME IInv, NEW r \in Requests, Ask(r)
    PROVE  IInv' /\ Honest
PROOF
  <1> USE DEF Ask, ceremonies, world, Asked
  <1>1. Shape(port) /\ page[r] = "new"
    BY DEF IInv, PortInv
  <1>2. ~bridge[r].sent
    BY <1>1 DEF IInv, PortInv
  <1> DEFINE m == [kind |-> "begin", req |-> r]
  <1>3. m \in Jobs
    BY DEF Jobs
  <1> HIDE DEF m
  <1>4. /\ Append(port.jobs, m) \in Seq(Jobs)
        /\ Len(Append(port.jobs, m)) = Len(port.jobs) + 1
        /\ \A i \in 1..Len(port.jobs) : Append(port.jobs, m)[i] = port.jobs[i]
        /\ Append(port.jobs, m)[Len(port.jobs) + 1] = m
        /\ Append(port.jobs, m) # <<>> /\ Len(port.jobs) \in Nat
    BY <1>1, <1>3, Fields, AppendProperties, LenProperties
  <1>5. /\ port' \in PortRec /\ port'.up = port.up /\ port'.open = port.open
        /\ port'.job = port.job /\ port'.toPage = port.toPage /\ port'.no = port.no
        /\ port'.jobs = IF port.up THEN Append(port.jobs, m) ELSE port.jobs
    BY <1>1, <1>4 DEF Shape, PortRec, m
  <1>6. /\ page' \in [Requests -> Pages] /\ page'[r] = "asked"
        /\ \A q \in Requests \ {r} : page'[q] = page[q]
    BY DEF IInv, Types, Pages
  <1> DEFINE b == [bridge[r] EXCEPT !.sent = port.open]
  <1>7. bridge' = [bridge EXCEPT ![r] = b] /\ b \in BridgeRec /\ b.sent = port.open
    <2>1. bridge[r] \in BridgeRec /\ port.open \in BOOLEAN
      BY <1>1, Fields DEF IInv, Types
    <2>2. bridge' = [bridge EXCEPT ![r] = b]
      OBVIOUS
    <2> HIDE DEF Ask
    <2>3. b \in BridgeRec /\ b.sent = port.open
      BY <2>1 DEF BridgeRec
    <2> QED
      BY <2>2, <2>3
  <1> HIDE DEF b
  <1>8. /\ bridge' \in [Requests -> BridgeRec] /\ bridge'[r].sent = port.open
        /\ \A q \in Requests \ {r} : bridge'[q].sent = bridge[q].sent
    BY <1>7 DEF IInv, Types
  <1>9. \A i \in DOMAIN port.jobs : port.jobs[i] \in Jobs /\ port.jobs[i].req # r
    BY <1>1, <1>2, Fields DEF IInv, PortInv
  <1>10. m.req = r /\ m.kind = "begin"
    BY DEF m
  <1> HIDE DEF Ask
  <1>11. \A i \in DOMAIN port'.jobs : \/ i \in DOMAIN port.jobs /\ port'.jobs[i] = port.jobs[i]
                                      \/ /\ i = Len(port.jobs) + 1 /\ port.up
                                         /\ port'.jobs[i] = m /\ i \notin DOMAIN port.jobs
    BY <1>1, <1>4, <1>5, Fields
  <1>12. Shape(port')
    BY <1>1, <1>4, <1>5, <1>9, <1>10, <1>11 DEF Shape
  <1>13. PortInv'
    BY <1>1, <1>6, <1>8, <1>9, <1>10, <1>11, <1>12 DEF IInv, PortInv, Shape, Jobs
  <1>14. ASSUME NEW q \in Requests PROVE Unbegun(q)' => Unbegun(q)
    BY <1>2, <1>5, <1>8, <1>9, <1>10, <1>11 DEF Unbegun, Waits
  <1>15. ASSUME NEW q \in Requests PROVE Same(q) /\ Steady(q)
    BY <1>14, <1>15 DEF Same, Steady, Early, Ask
  <1>16. ASSUME NEW q \in Requests, NEW k \in Outcomes PROVE Heard(q, k)' => Heard(q, k)
    BY <1>5, <1>6 DEF Heard, Carries, Outcomes, Ask
  <1>17. ASSUME NEW q \in Requests PROVE RequestInv(q)'
    BY <1>15, <1>16, <1>17, OthersKept DEF IInv
  <1>18. Types'
    BY <1>6, <1>8 DEF IInv, Types, Ask
  <1>19. FlowInv'
    <2>1. port.job = "flow" => port'.jobs[1] = port.jobs[1]
      BY <1>1, <1>4, <1>5, Fields, LenProperties DEF Shape
    <2> QED
      BY <1>5, <2>1 DEF IInv, FlowInv, Ask
  <1>20. Honest
    BY <1>5 DEF Honest, SuccessPosted, Ask, IInv, Types
  <1> QED
    BY <1>13, <1>17, <1>18, <1>19, <1>20 DEF IInv

LEMMA RequestsFinite == IsFiniteSet(Requests)
PROOF
  <1>1. /\ Calls \in Seq(Requests) /\ Calls \in [1..Len(Calls) -> Requests]
        /\ Len(Calls) \in Nat /\ DOMAIN Calls = 1..Len(Calls)
    BY RequestsAssumption
  <1>2. Calls \in Surjection(1..Len(Calls), Requests)
    BY <1>1 DEF Surjection, Requests, Range
  <1>3. IsFiniteSet(1..Len(Calls))
    BY <1>1, FS_Interval
  <1> QED
    BY <1>2, <1>3, FS_Surjection

\* A queue of the bridge names each of its requests once.
LEMMA OrderedOnce ==
    ASSUME NEW S \in SUBSET Requests, NEW s \in InOrder(S)
    PROVE  /\ s \in Seq(S) /\ DOMAIN s = 1..Len(s)
           /\ \A i, j \in DOMAIN s : s[i] = s[j] => i = j
PROOF
  <1>1. Cardinality(S) \in Nat
    BY RequestsFinite, FS_Subset, FS_CardinalityType
  <1>2. s \in [1..Cardinality(S) -> S] /\ \A i, j \in DOMAIN s : i < j => Before(s[i], s[j])
    BY DEF InOrder
  <1>3. s \in Seq(S) /\ DOMAIN s = 1..Cardinality(S) /\ Len(s) = Cardinality(S)
    BY <1>1, <1>2, SeqDef, LenProperties
  <1>4. \A q \in Requests : ~Before(q, q)
    <2> SUFFICES ASSUME NEW q \in Requests, NEW i \in DOMAIN Calls, NEW j \in DOMAIN Calls,
                        i < j, Calls[i] = q, Calls[j] = q
                 PROVE  FALSE
      BY DEF Before
    <2>1. i = j /\ i \in Nat
      BY RequestsAssumption DEF IsInjective
    <2> QED
      BY <2>1
  <1>5. ASSUME NEW i \in DOMAIN s, NEW j \in DOMAIN s, s[i] = s[j] PROVE i = j
    <2>1. i \in Nat /\ j \in Nat /\ s[i] \in Requests
      BY <1>2, <1>3
    <2>2. ~(i < j) /\ ~(j < i)
      BY <1>2, <1>4, <1>5, <2>1
    <2> QED
      BY <2>1, <2>2
  <1> QED
    BY <1>3, <1>5

LEMMA ConnectKept ==
    ASSUME IInv, Connect
    PROVE  IInv' /\ Honest
PROOF
  <1> DEFINE again == {r \in Asked : ~bridge[r].preflight}
             w(q) == [i \in DOMAIN q |->
                        [kind |-> IF bridge[q[i]].sent THEN "resume" ELSE "begin", req |-> q[i]]]
  <1>1. /\ ~port.open /\ port.no < MaxPorts
        /\ bridge' = [r \in Requests |-> [bridge[r] EXCEPT !.sent = @ \/ r \in again]]
        /\ UNCHANGED <<page, flow, rec, lease, run, task, out, epoch, vault, writes, trouble>>
    BY DEF Connect, ceremonies, world
  <1>2. PICK q \in InOrder(again) :
           port' = [NoPort EXCEPT !.no = port.no + 1, !.open = TRUE, !.up = TRUE, !.jobs = w(q)]
    BY DEF Connect
  <1>3. again \subseteq Requests
    BY DEF Asked
  <1> DEFINE jobs == w(q)
  <1>4. /\ q \in Seq(again) /\ DOMAIN q = 1..Len(q)
        /\ \A i, j \in DOMAIN q : q[i] = q[j] => i = j
    BY <1>3, OrderedOnce
  <1>5. /\ jobs \in Seq(Jobs) /\ DOMAIN jobs = DOMAIN q
        /\ \A i \in DOMAIN q : /\ q[i] \in again /\ jobs[i].req = q[i]
                               /\ jobs[i].kind = "begin" => ~bridge[q[i]].sent
    <2>1. \A i \in DOMAIN q : q[i] \in again
      BY <1>4
    <2>2. \A i \in DOMAIN q : w(q)[i] \in Jobs
      BY <1>3, <2>1 DEF Jobs
    <2>3. DOMAIN w(q) = 1..Len(q) /\ Len(q) \in Nat
      BY <1>4
    <2>4. w(q) \in Seq(Jobs)
      BY <1>4, <2>2, <2>3, SeqDef
    <2> QED
      BY <2>1, <2>4
  <1> HIDE DEF jobs
  <1>6. Shape(port) /\ port.no \in 0..MaxPorts /\ port.jobs = <<>> /\ port.up = FALSE
        /\ port.job = "idle"
    BY <1>1, Fields DEF IInv, PortInv, Shape
  <1>7. /\ port'.no = port.no + 1 /\ port'.open = TRUE /\ port'.up = TRUE /\ port'.jobs = jobs
        /\ port'.job = "idle" /\ port'.toPage = <<>> /\ port' \in PortRec
    <2>1. port.no + 1 \in 0..MaxPorts
      BY <1>1, <1>6, LimitsAssumption
    <2> QED
      BY <1>2, <1>5, <2>1, NoneShape DEF Shape, PortRec, jobs
  <1>8. /\ bridge' \in [Requests -> BridgeRec]
        /\ \A r \in Requests : bridge'[r].sent <=> bridge[r].sent \/ r \in again
    BY <1>1 DEF IInv, Types, BridgeRec
  <1> HIDE DEF w, again
  <1>9. Shape(port')
    BY <1>4, <1>5, <1>7 DEF Shape
  <1>10. PortInv'
    <2>1. \A r \in again : page[r] # "new" /\ r \in Requests
      BY DEF again, Asked
    <2> QED
      BY <1>1, <1>5, <1>7, <1>8, <1>9, <2>1 DEF IInv, PortInv
  <1>11. ASSUME NEW r \in Requests PROVE Unbegun(r)' => Unbegun(r)
    <2>1. ASSUME Waits(port', r) PROVE ~bridge[r].sent
      <3>1. PICK i \in DOMAIN port'.jobs : port'.jobs[i].kind = "begin" /\ port'.jobs[i].req = r
        BY <2>1 DEF Waits
      <3> QED
        BY <1>5, <1>7, <3>1
    <2>2. ~bridge'[r].sent => ~bridge[r].sent
      BY <1>8
    <2> QED
      BY <2>1, <2>2 DEF Unbegun
  <1>12. ASSUME NEW r \in Requests PROVE Same(r) /\ Steady(r)
    BY <1>1, <1>11, <1>12 DEF Same, Steady, Early
  <1>13. ASSUME NEW r \in Requests, NEW k \in Outcomes PROVE Heard(r, k)' => Heard(r, k)
    BY <1>1, <1>7 DEF Heard, Carries
  <1>14. ASSUME NEW r \in Requests PROVE RequestInv(r)'
    BY <1>12, <1>13, <1>14, OthersKept DEF IInv
  <1>15. Types'
    BY <1>1, <1>8 DEF IInv, Types
  <1>16. FlowInv'
    BY <1>1, <1>7 DEF IInv, FlowInv, Active
  <1>17. Honest
    <2>1. \A r \in Requests : writes'[r] = writes[r] /\ writes[r] \in Nat
      BY <1>1 DEF IInv, Types
    <2>2. Len(port'.toPage) = 0 /\ Len(port.toPage) \in Nat
      BY <1>6, <1>7, Fields, EmptySeq
    <2> QED
      BY <2>1, <2>2 DEF Honest, SuccessPosted
  <1> QED
    BY <1>10, <1>14, <1>15, <1>16, <1>17 DEF IInv

-----------------------------------------------------------------------------
(* Begin.                                                                  *)

LEMMA BeginTakesKept ==
    ASSUME IInv, BeginTakes
    PROVE  IInv' /\ Honest
PROOF
  <1>1. /\ Shape(port) /\ port.jobs # <<>> /\ port.job = "idle" /\ Head(port.jobs).kind = "begin"
        /\ UNCHANGED <<page, bridge, rec, lease, run, task, out, epoch, vault, writes, trouble>>
    BY DEF IInv, PortInv, BeginTakes, NextJob, document, ceremonies, world
  <1>0. PICK r \in Requests : r = Head(port.jobs).req
    BY <1>1, HeadJob
  <1>2. /\ r \in Requests /\ 1 \in DOMAIN port.jobs /\ port.jobs[1].req = r
        /\ port.jobs[1].kind = "begin"
    BY <1>0, <1>1, HeadJob
  <1>3. Waits(port, r) /\ bridge[r].sent
    BY <1>1, <1>2 DEF Waits, IInv, PortInv
  <1>4. CASE flow # NoFlow
    <2>1. /\ port' = Posted([port EXCEPT !.jobs = Tail(@)], "busy", r)
          /\ flow' = flow
      BY <1>0, <1>4 DEF BeginTakes
    <2>2. Eases(port, port', r, "busy") /\ port'.job = "idle"
      BY <1>1, <1>2, <2>1, RefusedEases
    <2>3. Types'
      BY <1>1, <2>1 DEF IInv, Types
    <2>4. FlowInv'
      BY <2>1, <2>2 DEF IInv, FlowInv, Active
    <2>5. "busy" \notin Outcomes
      BY DEF Outcomes
    <2> QED
      BY <1>1, <2>1, <2>2, <2>3, <2>4, <2>5, PortStep DEF Early, Heard, ceremonies
  <1>5. CASE flow = NoFlow
    <2> DEFINE f == [NoFlow EXCEPT !.req = r, !.port = port.no, !.at = "discover",
                                   !.sess = epoch.sess, !.gen = epoch.gen]
               p == [port EXCEPT !.job = "flow"]
               w == [p EXCEPT !.bind[r] = "bound"]
    <2>1. port' = [port EXCEPT !.bind[r] = "bound", !.job = "flow"] /\ flow' = f
      BY <1>0, <1>5 DEF BeginTakes
    <2>2. Eases(port, p, r, "busy") /\ p.toPage = port.toPage /\ p.jobs = port.jobs
          /\ p.job = "flow"
      BY <1>1, JobEases
    <2>3. Shape(p)
      BY <2>2 DEF Eases
    <2>4. /\ Eases(p, w, r, "busy") /\ w.toPage = p.toPage /\ w.jobs = p.jobs /\ w.job = p.job
      BY <1>2, <2>3, BoundEases DEF Bindings
    <2>5. port' = w
      BY <1>1, <2>1 DEF Shape, PortRec
    <2> HIDE DEF p, w
    <2>6. /\ Eases(port, port', r, "busy") /\ port'.toPage = port.toPage
          /\ port'.jobs = port.jobs /\ port'.job = "flow"
      BY <2>2, <2>4, <2>5, EasesTwice
    <2>7. f \in FlowRec /\ f.req = r /\ f.at = "discover" /\ f # NoFlow
      <3>1. port.no \in Nat /\ epoch \in Snapshots /\ r # None
        BY <1>1, <1>2, Fields, LimitsAssumption, RequestsAssumption DEF IInv, Types
      <3> QED
        BY <1>2, <3>1 DEF NoFlow, FlowRec, Snapshots
    <2>8. Types'
      BY <1>1, <2>1, <2>7 DEF IInv, Types
    <2> HIDE DEF f
    <2>9. FlowInv'
      BY <1>2, <2>1, <2>6, <2>7, RequestsAssumption DEF FlowInv, NoFlow, Active
    <2>10. PortInv'
      BY <1>1, <2>6 DEF IInv, PortInv, Eases
    <2>11. \A q \in Requests : \A k : Heard(q, k)' <=> Heard(q, k)
      BY <1>1, <2>6 DEF Heard, Carries
    <2>12. ASSUME NEW q \in Requests, q # r PROVE RequestInv(q)'
      <3>1. Same(q)
        BY <1>1 DEF Same
      <3>2. Steady(q)
        BY <1>1, <2>1, <2>6, <2>7, <2>12 DEF Steady, Unbegun, Eases, Early
      <3> QED
        BY <2>11, <3>1, <3>2, OthersKept DEF IInv
    <2>13. RequestInv(r)'
      <3>1. RequestInv(r) /\ Untouched(r)
        BY <1>2, <1>3 DEF IInv, RequestInv, BeginInv, Unbegun
      <3>2. ~Unbegun(r)'
        <4>1. \A i \in DOMAIN port'.jobs : port'.jobs[i].req = r => i = 1
          BY <1>1, <1>2, <2>6 DEF Shape
        <4> QED
          BY <1>1, <1>3, <2>6, <4>1 DEF Unbegun, Waits
      <3>3. Untouched(r)'
        BY <1>1, <1>2, <2>11, <3>1 DEF Untouched
      <3>4. BeginInv(r)'
        BY <3>2, <3>3 DEF BeginInv, Untouched, Shown
      <3>5. r \in Creates => CreateInv(r)'
        BY <1>1, <1>2, <2>11, <3>1 DEF RequestInv, CreateInv, WriteInv, HeardInv, Outcomes
      <3> QED
        BY <3>4, <3>5 DEF RequestInv
    <2>14. Honest
      BY <1>1, <2>6, Silent DEF Outcomes
    <2> QED
      BY <2>8, <2>9, <2>10, <2>12, <2>13, <2>14 DEF IInv
  <1> QED
    BY <1>4, <1>5

\* A begin is under way.
LEMMA FlowRuns ==
    ASSUME IInv, flow # NoFlow
    PROVE  /\ flow.req \in Requests /\ RequestInv(flow.req) /\ ~Unbegun(flow.req)
           /\ Prepared(flow.req) /\ flow.at # "none"
PROOF
  <1>1. flow.req \in Requests /\ flow.at # "none"
    BY DEF IInv, Types, FlowInv, FlowRec
  <1> QED
    BY <1>1 DEF IInv, RequestInv, BeginInv, Prepared

\* It ends, and who waits for it is answered.
LEMMA FlowEnds ==
    ASSUME IInv, flow # NoFlow, NEW r \in Requests, r = flow.req,
           NEW k \in (Outcomes \ {"success"}) \cup {"accepted", "busy"}, FlowAnswers(k), Types',
           UNCHANGED <<page, bridge, out, vault, writes, task>>,
           \A q \in Requests \ {r} : Same(q),
           \/ Same(r) /\ k \notin Outcomes
           \/ /\ ~Early(r) /\ (r \in Creates => Ends(r))
              /\ k \in Outcomes => Tells(r, k)
    PROVE  IInv' /\ Honest
PROOF
  <1>1. Shape(port) /\ flow' = NoFlow
    BY DEF IInv, PortInv, FlowAnswers
  <1>2. Eases(port, port', r, k) /\ port'.job # "flow"
    <2>1. CASE port.up /\ port.job = "flow"
      <3>1. port.jobs # <<>> /\ port' = Answered(r, k)
        BY <1>1, <2>1 DEF Shape, FlowAnswers
      <3>2. Eases(port, Answered(r, k), r, k) /\ Answered(r, k).job = "idle"
        BY <1>1, <3>1, AnsweredEases
      <3> QED
        BY <3>1, <3>2
    <2>2. CASE ~(port.up /\ port.job = "flow")
      BY <1>1, <2>2 DEF Shape, FlowAnswers, Eases
    <2> QED
      BY <2>1, <2>2
  <1>3. \A q \in Requests : NoFlow.req # q
    BY RequestsAssumption DEF NoFlow
  <1>4. FlowInv'
    BY <1>1, <1>2 DEF FlowInv, NoFlow
  <1>5. Moves(r, k)
    BY <1>1, <1>2, <1>3 DEF Moves, Early, Heard
  <1>6. (Same(r) /\ (k \in Outcomes => Heard(r, k))) \/ Advances(r)
    <2>1. CASE Same(r) /\ k \notin Outcomes
      BY <2>1
    <2>2. CASE ~Early(r) /\ (r \in Creates => Ends(r))
      <3>1. ~Unbegun(r)
        BY FlowRuns
      <3>2. flow'.req # r
        BY <1>1, <1>3
      <3> QED
        BY <2>2, <3>1, <3>2, CreationEnds DEF Advances
    <2> QED
      BY <2>1, <2>2
  <1>7. PortInv' /\ \A q \in Requests : RequestInv(q)'
    BY <1>5, <1>6, MovesKept
  <1>8. Honest
    BY <1>2, Silent
  <1> QED
    BY <1>4, <1>7, <1>8 DEF IInv

LEMMA DiscoverKept ==
    ASSUME IInv, Discover
    PROVE  IInv' /\ Honest
PROOF
  <1>1. flow # NoFlow
    BY DEF Discover, NoFlow
  <1>2. PICK r \in Requests : r = flow.req
    BY <1>1, FlowRuns
  <1>3. /\ UNCHANGED <<page, bridge, rec, lease, run, task, out, epoch, vault, writes, trouble>>
        /\ flow.at = "discover"
    BY DEF Discover, document, ceremonies, world
  <1>4. CASE FlowAnswers("busy")
    <2>1. Types'
      BY <1>3, <1>4 DEF IInv, Types, FlowAnswers, NoFlow, FlowRec
    <2>2. \A q : Same(q)
      BY <1>3 DEF Same
    <2> QED
      BY <1>1, <1>2, <1>3, <1>4, <2>1, <2>2, FlowEnds DEF Outcomes
  <1>5. CASE flow' = [flow EXCEPT !.at = "register"] /\ port' = port
    <2>1. /\ flow' \in FlowRec /\ flow'.req = flow.req /\ flow'.at = "register"
          /\ flow' # NoFlow
      BY <1>5 DEF IInv, Types, FlowRec, NoFlow
    <2>2. Types'
      BY <1>3, <2>1 DEF IInv, Types
    <2>3. FlowInv'
      BY <1>1, <1>3, <1>5, <2>1 DEF IInv, FlowInv, NoFlow
    <2>4. Eases(port, port', r, "busy")
      BY <1>5 DEF IInv, PortInv, Eases
    <2>5. "busy" \notin Outcomes
      BY DEF Outcomes
    <2> QED
      BY <1>3, <2>1, <2>2, <2>3, <2>4, <2>5, PortStep DEF Heard, Early, ceremonies
  <1> QED
    BY <1>4, <1>5 DEF Discover

LEMMA RegisterKept ==
    ASSUME IInv, Register
    PROVE  IInv' /\ Honest
PROOF
  <1>1. flow # NoFlow
    BY DEF Register, NoFlow
  <1>2. PICK r \in Requests : r = flow.req
    BY <1>1, FlowRuns
  <1>3. /\ UNCHANGED <<page, bridge, run, task, out, epoch, vault, writes>>
        /\ flow.at = "register"
    BY DEF Register, document, world
  <1>4. CASE /\ FlowAnswers("busy") /\ UNCHANGED <<rec, lease>>
             /\ trouble' = trouble \/ Disturb
    <2>1. Types'
      BY <1>3, <1>4, LimitsAssumption DEF IInv, Types, FlowAnswers, NoFlow, FlowRec, Disturb
    <2>2. \A q : Same(q)
      BY <1>3, <1>4 DEF Same
    <2> QED
      BY <1>1, <1>2, <1>3, <1>4, <2>1, <2>2, FlowEnds DEF Outcomes
  <1>5. CASE /\ rec' = [rec EXCEPT ![r] = "awaiting"]
             /\ lease' = [lease EXCEPT ![r] = [sess |-> flow.sess, gen |-> flow.gen]]
             /\ flow' = [flow EXCEPT !.at = "check"] /\ UNCHANGED <<port, trouble>>
    <2>1. /\ flow' \in FlowRec /\ flow'.req = flow.req /\ flow'.at = "check"
          /\ flow' # NoFlow
      BY <1>5 DEF IInv, Types, FlowRec, NoFlow
    <2>2. [sess |-> flow.sess, gen |-> flow.gen] \in Snapshots
      BY DEF IInv, Types, FlowRec, Snapshots
    <2>3. Types'
      BY <1>3, <1>5, <2>1, <2>2 DEF IInv, Types, States, Active
    <2>4. FlowInv'
      BY <1>1, <1>3, <1>5, <2>1 DEF IInv, FlowInv, NoFlow
    <2>5. PortInv'
      BY <1>3, <1>5 DEF IInv, PortInv
    <2>6. /\ rec'[r] = "awaiting" /\ rec[r] = "none"
          /\ \A q \in Requests \ {r} : rec'[q] = rec[q]
      BY <1>2, <1>3, <1>5 DEF IInv, Types, RequestInv, BeginInv, Early, Untouched
    <2>7. \A q \in Requests : \A k : Heard(q, k)' <=> Heard(q, k)
      BY <1>3, <1>5 DEF Heard
    <2>8. ASSUME NEW q \in Requests, q # r PROVE RequestInv(q)'
      <3>1. Same(q) /\ Steady(q)
        BY <1>2, <1>3, <1>5, <2>1, <2>6, <2>8 DEF Same, Steady, Unbegun, Early
      <3> QED
        BY <2>7, <3>1, OthersKept DEF IInv
    <2>9. RequestInv(r)'
      <3>1. ~Unbegun(r) /\ Untouched(r)
        BY <1>1, <1>2, <1>3, FlowRuns DEF IInv, RequestInv, BeginInv, Early
      <3>2. ~Unbegun(r)' /\ ~Early(r)'
        BY <1>3, <1>5, <2>1, <3>1 DEF Unbegun, Early
      <3>3. \A k \in Outcomes : ~Heard(r, k)'
        BY <2>7, <3>1 DEF Untouched
      <3>4. /\ task'[r] = "none" /\ vault'[r] = "idle" /\ writes'[r] = 0 /\ ~Shown(r)'
        BY <1>3, <3>1 DEF Untouched, Shown
      <3>5. BeginInv(r)'
        BY <2>6, <3>2, <3>4 DEF BeginInv
      <3>6. CreateInv(r)'
        BY <2>6, <3>3, <3>4 DEF CreateInv, WriteInv, HeardInv, Outcomes
      <3> QED
        BY <3>5, <3>6 DEF RequestInv
    <2>10. Honest
      BY <1>3, <1>5 DEF Honest, SuccessPosted, IInv, Types, PortInv, Shape, PortRec
    <2> QED
      BY <2>3, <2>4, <2>5, <2>8, <2>9, <2>10 DEF IInv
  <1> QED
    BY <1>2, <1>4, <1>5 DEF Register

\* The ceremony is registered, and its preparation goes on.
LEMMA FlowGoes ==
    ASSUME IInv, flow # NoFlow, flow.at = "check", NEW r \in Requests, r = flow.req,
           NEW a \in {"nomatch", "window"}, flow' = [flow EXCEPT !.at = a],
           run' = [run EXCEPT ![r] = [NoRun EXCEPT !.on = TRUE, !.port = flow.port]],
           UNCHANGED <<page, bridge, port, rec, lease, task, out, epoch, vault, writes, trouble>>
    PROVE  IInv' /\ Honest
PROOF
  <1>1. /\ flow' \in FlowRec /\ flow'.req = flow.req /\ flow'.at = a /\ flow' # NoFlow
    BY DEF IInv, Types, FlowRec, NoFlow
  <1>2. /\ run' \in [Requests -> RunRec] /\ run'[r].win = FALSE
        /\ \A q \in Requests \ {r} : run'[q] = run[q]
    BY DEF IInv, Types, FlowRec, RunRec, NoRun
  <1>3. Types'
    BY <1>1, <1>2 DEF IInv, Types
  <1>4. FlowInv'
    BY <1>1 DEF IInv, FlowInv, NoFlow
  <1>5. Eases(port, port', r, "accepted") /\ "accepted" \notin Outcomes
    BY DEF IInv, PortInv, Eases, Outcomes
  <1>6. Moves(r, "accepted")
    BY <1>1, <1>2, <1>5 DEF Moves, Same, Early, Heard
  <1>7. Advances(r)
    <2>1. ~Unbegun(r) /\ ~Early(r) /\ Prepared(r)
      BY FlowRuns DEF Early
    <2>2. Prepared(r)'
      BY <1>2, <2>1 DEF Prepared, Shown
    <2>3. r \in Creates => Ends(r)
      BY DEF Ends
    <2> QED
      BY <2>1, <2>2, <2>3, CreationEnds DEF Advances
  <1>8. PortInv' /\ \A q \in Requests : RequestInv(q)'
    BY <1>6, <1>7, MovesKept
  <1>9. Honest
    BY <1>5, Silent
  <1> QED
    BY <1>3, <1>4, <1>8, <1>9 DEF IInv

LEMMA CheckKept ==
    ASSUME IInv, Check
    PROVE  IInv' /\ Honest
PROOF
  <1>1. flow # NoFlow /\ flow.at = "check"
    BY DEF Check, NoFlow
  <1>2. PICK r \in Requests : r = flow.req
    BY <1>1, FlowRuns
  <1>3. UNCHANGED <<page, bridge, lease, task, out, epoch, vault, writes, trouble>>
    BY DEF Check, document, world
  <1>4. ~Early(r) /\ Prepared(r)
    BY <1>1, <1>2, FlowRuns DEF Early
  <1>5. CASE /\ rec' = [rec EXCEPT ![r] = IF @ = "awaiting" THEN "failed" ELSE @]
             /\ FlowAnswers("failed") /\ run' = run
    <2>1. /\ rec' \in [Requests -> States] /\ \A q \in Requests \ {r} : rec'[q] = rec[q]
          /\ rec'[r] = (IF rec[r] = "awaiting" THEN "failed" ELSE rec[r])
      BY <1>5 DEF IInv, Types, States, Terminal
    <2>2. Types'
      BY <1>3, <1>5, <2>1 DEF IInv, Types, FlowAnswers, NoFlow, FlowRec
    <2>3. \A q \in Requests \ {r} : Same(q)
      BY <1>3, <1>5, <2>1 DEF Same
    <2>4. Ends(r) /\ Tells(r, "failed")
      BY <1>3, <1>4, <2>1 DEF Ends, Tells, Unwritten, Prepared
    <2> QED
      BY <1>1, <1>2, <1>3, <1>4, <1>5, <2>2, <2>3, <2>4, FlowEnds DEF Outcomes
  <1> DEFINE started == run' = [run EXCEPT ![r] = [NoRun EXCEPT !.on = TRUE, !.port = flow.port]]
  <1>6. CASE started /\ rec' = rec /\ FlowAnswers("accepted")
    <2>1. /\ run' \in [Requests -> RunRec] /\ \A q \in Requests \ {r} : run'[q] = run[q]
      BY <1>6 DEF IInv, Types, FlowRec, RunRec, NoRun
    <2> HIDE DEF started
    <2>2. Types'
      BY <1>3, <1>6, <2>1 DEF IInv, Types, FlowAnswers, NoFlow, FlowRec
    <2>3. \A q \in Requests \ {r} : Same(q)
      BY <1>3, <1>6, <2>1 DEF Same
    <2>4. Ends(r) /\ "accepted" \notin Outcomes
      BY <1>6 DEF Ends, Outcomes
    <2> QED
      BY <1>1, <1>2, <1>3, <1>4, <1>6, <2>2, <2>3, <2>4, FlowEnds
  <1>7. CASE /\ started /\ rec' = rec /\ port' = port
             /\ \E a \in {"nomatch", "window"} : flow' = [flow EXCEPT !.at = a]
    BY <1>1, <1>2, <1>3, <1>7, FlowGoes
  <1> QED
    BY <1>2, <1>5, <1>6, <1>7 DEF Check

LEMMA NoMatchKept ==
    ASSUME IInv, NoMatch
    PROVE  IInv' /\ Honest
PROOF
  <1>1. flow # NoFlow /\ flow.at = "nomatch"
    BY DEF NoMatch, NoFlow
  <1>2. PICK r \in Requests : r = flow.req
    BY <1>1, FlowRuns
  <1>3. UNCHANGED <<page, bridge, lease, task, out, epoch, vault, writes, trouble>>
    BY DEF NoMatch, document, world
  <1>4. ~Early(r) /\ Prepared(r)
    BY <1>1, <1>2, FlowRuns DEF Early
  <1> DEFINE s == IF rec[r] = "awaiting" THEN "fallback" ELSE rec[r]
             k == IF s \in Terminal THEN OutcomeOf(s) ELSE "busy"
  <1>5. rec' = [rec EXCEPT ![r] = s] /\ run' = [run EXCEPT ![r] = NoRun] /\ FlowAnswers(k)
    BY <1>2 DEF NoMatch
  <1>6. /\ s \in {"none", "failed", "fallback"}
        /\ k \in (Outcomes \ {"success"}) \cup {"accepted", "busy"}
        /\ k \in Outcomes => s \in Terminal /\ k = OutcomeOf(s)
    BY <1>4 DEF Prepared, Terminal, Outcomes, OutcomeOf
  <1>8. /\ rec' \in [Requests -> States] /\ \A q \in Requests \ {r} : rec'[q] = rec[q]
        /\ rec'[r] = s
    BY <1>5, <1>6 DEF IInv, Types, States, Terminal
  <1>9. /\ run' \in [Requests -> RunRec] /\ \A q \in Requests \ {r} : run'[q] = run[q]
    BY <1>5 DEF IInv, Types, RunRec, NoRun
  <1>10. Ends(r)
    BY <1>8 DEF Ends
  <1> HIDE DEF k, s
  <1>11. Types'
    BY <1>3, <1>5, <1>8, <1>9 DEF IInv, Types, FlowAnswers, NoFlow, FlowRec
  <1>12. \A q \in Requests \ {r} : Same(q)
    BY <1>3, <1>8, <1>9 DEF Same
  <1>13. k \in Outcomes => Tells(r, k)
    BY <1>6, <1>8 DEF Tells
  <1> QED
    BY <1>1, <1>2, <1>3, <1>4, <1>5, <1>6, <1>10, <1>11, <1>12, <1>13, FlowEnds

LEMMA FlowOpensKept ==
    ASSUME IInv, FlowOpens
    PROVE  IInv' /\ Honest
PROOF
  <1>1. flow # NoFlow /\ flow.at = "window"
    BY DEF FlowOpens, NoFlow
  <1>2. PICK r \in Requests : r = flow.req
    BY <1>1, FlowRuns
  <1>3. /\ UNCHANGED <<page, bridge, lease, task, out, epoch, vault, writes>>
        /\ WindowOpened(r) \/ WindowFailed(r) \/ WindowLate(r)
        /\ FlowAnswers(Told(rec'[r]))
    BY <1>2 DEF FlowOpens, document, world
  <1>4. ~Early(r) /\ Prepared(r) /\ rec[r] \in {"none", "awaiting", "failed"}
    BY <1>1, <1>2, FlowRuns DEF Early, Prepared
  <1>5. trouble' \in 0..MaxTroubles
    BY <1>3, LimitsAssumption
       DEF IInv, Types, WindowOpened, WindowFailed, WindowLate, Disturb
  <1>6. /\ rec' \in [Requests -> States] /\ \A q \in Requests \ {r} : rec'[q] = rec[q]
        /\ rec'[r] = rec[r] \/ (rec[r] = "awaiting" /\ rec'[r] = "failed")
    <2>1. rec[r] \in Active => Aborted(r) = "failed"
      BY <1>4, AbortEnds DEF Active
    <2>2. rec' = rec \/ rec' = [rec EXCEPT ![r] = IF @ \in Active THEN Aborted(r) ELSE @]
      BY <1>3 DEF WindowOpened, WindowFailed, WindowLate
    <2>3. rec \in [Requests -> States] /\ "failed" \in States
      BY DEF IInv, Types, States, Terminal
    <2> QED
      BY <1>4, <2>1, <2>2, <2>3 DEF Active
  <1>7. /\ run' \in [Requests -> RunRec] /\ \A q \in Requests \ {r} : run'[q] = run[q]
    <2> DEFINE w == [run[r] EXCEPT !.win = run[r].on]
    <2>1. run \in [Requests -> RunRec] /\ run[r] \in RunRec
      BY DEF IInv, Types
    <2>2. w \in RunRec /\ NoRun \in RunRec
      BY <2>1 DEF RunRec, NoRun
    <2>3. \/ run' = [run EXCEPT ![r] = w] \/ run' = [run EXCEPT ![r] = NoRun] \/ run' = run
      BY <1>3, <2>1 DEF WindowOpened, WindowFailed, WindowLate
    <2> HIDE DEF w
    <2> QED
      BY <2>1, <2>2, <2>3
  <1> DEFINE k == Told(rec'[r])
  <1>8. /\ k \in (Outcomes \ {"success"}) \cup {"accepted", "busy"}
        /\ k \in Outcomes => Tells(r, k)
    BY <1>4, <1>6 DEF Told, Tells, Terminal, Outcomes, OutcomeOf, Active
  <1>9. Ends(r)
    BY <1>6 DEF Ends
  <1>10. FlowAnswers(k)
    BY <1>3
  <1> HIDE DEF k
  <1>11. Types'
    BY <1>3, <1>5, <1>6, <1>7, <1>10 DEF IInv, Types, FlowAnswers, NoFlow, FlowRec
  <1>12. \A q \in Requests \ {r} : Same(q)
    BY <1>3, <1>6, <1>7 DEF Same
  <1> QED
    BY <1>1, <1>2, <1>3, <1>4, <1>8, <1>9, <1>10, <1>11, <1>12, FlowEnds

-----------------------------------------------------------------------------
(* Resume.                                                                 *)

LEMMA TakenUpEases ==
    ASSUME Shape(port), port.jobs # <<>>, NEW r \in Requests, NEW j \in {"flow", "find"},
           port' = [[port EXCEPT !.bind[r] = "bound"] EXCEPT !.job = j]
    PROVE  /\ Eases(port, port', r, "busy") /\ port'.toPage = port.toPage
           /\ port'.jobs = port.jobs /\ port'.job = j
PROOF
  <1> DEFINE w == [port EXCEPT !.bind[r] = "bound"]
  <1>1. Eases(port, w, r, "busy") /\ w.toPage = port.toPage /\ w.jobs = port.jobs
    BY BoundEases DEF Bindings
  <1> DEFINE v == [w EXCEPT !.job = j]
  <1>2. port' = v
    OBVIOUS
  <1> HIDE DEF w
  <1>3. Shape(w) /\ w.jobs # <<>>
    BY <1>1 DEF Eases
  <1>4. Eases(w, v, r, "busy") /\ v.toPage = w.toPage /\ v.jobs = w.jobs /\ v.job = j
    BY <1>3, JobEases
  <1> HIDE DEF v
  <1> QED
    BY <1>1, <1>2, <1>4, EasesTwice

LEMMA ResumeTakesKept ==
    ASSUME IInv, ResumeTakes
    PROVE  IInv' /\ Honest
PROOF
  <1>1. /\ Shape(port) /\ port.jobs # <<>> /\ port.job = "idle"
        /\ UNCHANGED <<page, bridge, rec, lease, run, task, out, epoch, vault, writes, trouble>>
    BY DEF IInv, PortInv, ResumeTakes, NextJob, document, ceremonies, world
  <1>2. PICK r \in Requests : r = Head(port.jobs).req
    BY <1>1, HeadJob
  <1>3. 1 \in DOMAIN port.jobs /\ port.jobs[1].req = r
    BY <1>1, <1>2, HeadJob
  <1>4. \/ /\ flow.req = r /\ flow' = [flow EXCEPT !.resumed = TRUE]
           /\ port' = [[port EXCEPT !.bind[r] = "bound"] EXCEPT !.job = "flow"]
        \/ /\ port' = Posted([port EXCEPT !.jobs = Tail(@)], "busy", r) /\ flow' = flow
        \/ /\ flow = NoFlow /\ flow' = flow
           /\ port' = [[port EXCEPT !.bind[r] = "bound"] EXCEPT !.job = "find"]
    BY <1>2 DEF ResumeTakes
  <1>5. Eases(port, port', r, "busy") /\ (port'.job # "idle" => port'.jobs = port.jobs)
    BY <1>1, <1>4, TakenUpEases, RefusedEases
  <1>6. flow' \in FlowRec /\ flow'.req = flow.req /\ flow'.at = flow.at
        /\ (flow' = flow \/ flow.req = r)
    BY <1>4 DEF IInv, Types, FlowRec
  <1>7. port'.job = "idle" \/ (port'.job = "flow" /\ flow.req = r)
        \/ (port'.job = "find" /\ flow' = NoFlow)
    BY <1>1, <1>4, TakenUpEases, RefusedEases
  <1>8. Types'
    BY <1>1, <1>6 DEF IInv, Types
  <1>9. FlowInv'
    <2>1. r # None /\ NoFlow.req = None /\ NoFlow.at = "none"
      BY RequestsAssumption DEF NoFlow
    <2>2. /\ flow'.req = None <=> flow' = NoFlow
          /\ flow'.at = "none" <=> flow' = NoFlow
      BY <1>6, <2>1 DEF IInv, FlowInv
    <2> QED
      BY <1>3, <1>5, <1>6, <1>7, <2>2 DEF FlowInv, Active
  <1>10. "busy" \notin Outcomes
    BY DEF Outcomes
  <1> QED
    BY <1>1, <1>5, <1>6, <1>8, <1>9, <1>10, PortStep DEF Heard, Early, ceremonies

\* The resume at the head looks for its ceremony, which has begun.
LEMMA Resumes ==
    ASSUME IInv, port.job \in {"find", "delivered"} \cup Active
    PROVE  /\ Shape(port) /\ port.jobs # <<>> /\ flow = NoFlow /\ Head(port.jobs).req \in Requests
           /\ ~Unbegun(Head(port.jobs).req) /\ ~Early(Head(port.jobs).req)
PROOF
  <1>1. /\ Shape(port) /\ port.jobs # <<>> /\ port.job # "idle" /\ flow = NoFlow
    BY DEF IInv, PortInv, Shape, Active, FlowInv
  <1>2. /\ Head(port.jobs).req \in Requests /\ 1 \in DOMAIN port.jobs
        /\ Head(port.jobs) = port.jobs[1]
    BY <1>1, HeadJob
  <1>3. ~Waits(port, Head(port.jobs).req) /\ bridge[Head(port.jobs).req].sent
    BY <1>1, <1>2 DEF IInv, PortInv, Shape, Waits
  <1>4. flow.req # Head(port.jobs).req
    BY <1>1, <1>2, RequestsAssumption DEF NoFlow
  <1> QED
    BY <1>1, <1>2, <1>3, <1>4 DEF Unbegun, Early

LEMMA AnswerStep ==
    ASSUME IInv, port.job \in {"find", "delivered"} \cup Active,
           NEW r \in Requests, r = Head(port.jobs).req,
           NEW k \in (Outcomes \ {"success"}) \cup {"accepted", "busy"},
           port' = Answered(r, k), Types',
           UNCHANGED <<page, bridge, flow, out, vault, writes, task>>,
           \A q \in Requests \ {r} : Same(q),
           r \in Creates => Ends(r), k \in Outcomes => Tells(r, k)
    PROVE  IInv' /\ Honest
PROOF
  <1>1. Shape(port) /\ port.jobs # <<>> /\ flow = NoFlow /\ ~Unbegun(r) /\ ~Early(r)
    BY Resumes
  <1>2. Eases(port, port', r, k) /\ port'.job = "idle"
    BY <1>1, AnsweredEases
  <1>3. FlowInv'
    BY <1>1, <1>2 DEF IInv, FlowInv, Active
  <1>4. Moves(r, k)
    BY <1>2 DEF Moves, Early, Heard
  <1>5. flow'.req # r
    BY <1>1, RequestsAssumption DEF NoFlow
  <1>6. Advances(r)
    BY <1>1, <1>5, CreationEnds DEF Advances
  <1>7. PortInv' /\ \A q \in Requests : RequestInv(q)'
    BY <1>4, <1>6, MovesKept
  <1>8. Honest
    BY <1>2, Silent
  <1> QED
    BY <1>3, <1>7, <1>8 DEF IInv

LEMMA ResumeDeliveredKept ==
    ASSUME IInv, ResumeDelivered
    PROVE  IInv' /\ Honest
PROOF
  <1>1. port.job = "delivered" /\ port' = Answered(Head(port.jobs).req, "busy")
        /\ UNCHANGED <<page, bridge, flow, rec, lease, run, task, out, epoch, vault, writes, trouble>>
    BY DEF ResumeDelivered, Resuming, document, ceremonies, world
  <1>2. PICK r \in Requests : r = Head(port.jobs).req
    BY <1>1, Resumes
  <1>3. Types'
    BY <1>1 DEF IInv, Types
  <1>4. \A q \in Requests : Same(q) /\ Ends(q)
    BY <1>1 DEF Same, Ends
  <1>5. "busy" \notin Outcomes
    BY DEF Outcomes
  <1> QED
    BY <1>1, <1>2, <1>3, <1>4, <1>5, AnswerStep

\* The runtime of a ceremony goes, and its outcome with a delivery.
LEMMA FinishedTypes ==
    ASSUME IInv, NEW r \in Requests, NEW s \in Terminal, NEW by \in {"worker", "resume"},
           Finished(r, s, by)
    PROVE  /\ run' \in [Requests -> RunRec] /\ \A q \in Requests \ {r} : run'[q] = run[q]
           /\ run'[r].win = FALSE /\ run'[r].on = FALSE
           /\ out' \subseteq OutRec
           /\ \A o \in out' : o \in out \/ (o.req = r /\ o.kind = OutcomeOf(s))
           /\ OutcomeOf(s) \in Outcomes
PROOF
  <1> DEFINE n == IF run[r].on THEN run[r].port ELSE port.no
             d == Delivery(r, s, n, by)
  <1>1. port.no \in Nat /\ run \in [Requests -> RunRec]
    BY Fields, LimitsAssumption DEF IInv, PortInv, Types
  <1>2. n \in Nat
    BY <1>1 DEF RunRec
  <1>3. run' = [run EXCEPT ![r] = NoRun] /\ out' = out \cup {d}
    BY DEF Finished
  <1> HIDE DEF n
  <1>4. OutcomeOf(s) \in Outcomes
    BY DEF OutcomeOf, Outcomes, Terminal
  <1>5. d \in OutRec /\ d.req = r /\ d.kind = OutcomeOf(s)
    BY <1>2, <1>4 DEF Delivery, OutRec, Deliveries
  <1> HIDE DEF d
  <1>6. NoRun \in RunRec /\ NoRun.win = FALSE /\ NoRun.on = FALSE
    BY DEF NoRun, RunRec
  <1> QED
    BY <1>1, <1>3, <1>4, <1>5, <1>6 DEF IInv, Types

\* A step of the ceremony r that says nothing to the page.
LEMMA CeremonyStep ==
    ASSUME IInv, NEW r \in Requests, NEW k, Eases(port, port', r, k), port'.toPage = port.toPage,
           FlowInv', Types', UNCHANGED <<page, bridge, flow>>,
           \A o \in out' : o \in out \/ (o.req = r /\ o.kind = k),
           \A q \in Requests \ {r} : Same(q),
           k \in Outcomes => Heard(r, k) \/ Tells(r, k), Advances(r),
           \A q \in Requests : writes'[q] > writes[q] => lease[q] = epoch
    PROVE  IInv' /\ Honest
PROOF
  <1>1. Moves(r, k)
    BY DEF Moves, Early, Heard
  <1>2. PortInv' /\ \A q \in Requests : RequestInv(q)'
    BY <1>1, MovesKept
  <1>3. Len(port.toPage) \in Nat
    BY Fields DEF IInv, PortInv
  <1>4. Honest
    BY <1>3 DEF Honest, SuccessPosted
  <1> QED
    BY <1>2, <1>4 DEF IInv

LEMMA Unmoved ==
    ASSUME IInv, UNCHANGED <<port, flow>>, NEW r, NEW k
    PROVE  Eases(port, port', r, k) /\ port'.toPage = port.toPage /\ FlowInv'
  BY DEF IInv, PortInv, FlowInv, Eases

LEMMA Unsent ==
    ASSUME IInv, writes' = writes
    PROVE  \A q \in Requests : writes'[q] > writes[q] => lease[q] = epoch
  BY DEF IInv, Types

\* The ceremony is over, and its outcome is given to a delivery.
LEMMA FinishStep ==
    ASSUME IInv, NEW r \in Requests, NEW s \in Terminal, NEW by \in {"worker", "resume"},
           Finished(r, s, by), rec' = [rec EXCEPT ![r] = s],
           Eases(port, port', r, OutcomeOf(s)), port'.toPage = port.toPage, FlowInv',
           UNCHANGED <<page, bridge, flow, lease, epoch, vault, writes>>,
           task' \in [Requests -> Tasks], task'[r] \in {task[r], "none"},
           \A q \in Requests \ {r} : task'[q] = task[q], trouble' \in 0..MaxTroubles,
           ~Unbegun(r), ~Early(r),
           flow.req = r => s = "failed" \/ s = rec[r],
           r \in Creates => /\ WriteInv(r)'
                            /\ Unwritten(r) => s \in {"failed", "fallback"}
    PROVE  IInv' /\ Honest
PROOF
  <1> DEFINE k == OutcomeOf(s)
  <1>1. /\ run' \in [Requests -> RunRec] /\ \A q \in Requests \ {r} : run'[q] = run[q]
        /\ run'[r].win = FALSE /\ run'[r].on = FALSE
        /\ out' \subseteq OutRec
        /\ \A o \in out' : o \in out \/ (o.req = r /\ o.kind = k)
        /\ k \in Outcomes
    BY FinishedTypes
  <1> HIDE DEF k
  <1>2. /\ rec' \in [Requests -> States] /\ rec'[r] = s
        /\ \A q \in Requests \ {r} : rec'[q] = rec[q]
    BY DEF IInv, Types, States
  <1>3. Types'
    BY <1>1, <1>2 DEF IInv, Types
  <1>4. \A q \in Requests \ {r} : Same(q)
    BY <1>1, <1>2 DEF Same
  <1>5. Tells(r, k)
    BY <1>2 DEF Tells, k
  <1>6. ASSUME flow'.req = r PROVE Prepared(r)'
    <2>1. flow # NoFlow /\ flow.req = r
      BY <1>6, RequestsAssumption DEF NoFlow
    <2>2. Prepared(r)
      BY <2>1, FlowRuns
    <2> QED
      BY <1>1, <1>2, <2>1, <2>2 DEF Prepared, Shown
  <1>7. Advances(r)
    BY <1>2, <1>6 DEF Advances, Unwritten
  <1> QED
    BY <1>1, <1>3, <1>4, <1>5, <1>7, CeremonyStep, Unsent DEF k

LEMMA ResumeFindsKept ==
    ASSUME IInv, ResumeFinds
    PROVE  IInv' /\ Honest
PROOF
  <1>1. port.job = "find"
        /\ UNCHANGED <<page, bridge, flow, rec, lease, task, epoch, vault, writes, trouble>>
    BY DEF ResumeFinds, Resuming, document, world
  <1>2. PICK r \in Requests : r = Head(port.jobs).req
    BY <1>1, Resumes
  <1>3. Shape(port) /\ port.jobs # <<>> /\ flow = NoFlow /\ ~Unbegun(r) /\ ~Early(r)
    BY <1>1, <1>2, Resumes
  <1>4. r \in Creates => WriteInv(r) /\ Ends(r)
    BY <1>1 DEF IInv, RequestInv, CreateInv, Ends
  <1>5. CASE port' = Answered(r, "busy") /\ UNCHANGED <<run, out>>
    <2>1. Types' /\ \A q \in Requests : Same(q)
      BY <1>1, <1>5 DEF IInv, Types, Same
    <2> QED
      BY <1>1, <1>2, <1>4, <1>5, <2>1, AnswerStep DEF Outcomes
  <1>6. CASE /\ rec[r] \in Terminal \ {"completed"}
             /\ run' = [run EXCEPT ![r] = NoRun]
             /\ port' = Answered(r, OutcomeOf(rec[r])) /\ out' = out
    <2>1. run' \in [Requests -> RunRec] /\ \A q \in Requests \ {r} : run'[q] = run[q]
      BY <1>6 DEF IInv, Types, NoRun, RunRec
    <2>2. Types' /\ \A q \in Requests \ {r} : Same(q)
      BY <1>1, <1>6, <2>1 DEF IInv, Types, Same
    <2>3. OutcomeOf(rec[r]) \in Outcomes \ {"success"} /\ Tells(r, OutcomeOf(rec[r]))
      BY <1>1, <1>6 DEF Tells, OutcomeOf, Terminal, Outcomes
    <2> QED
      BY <1>1, <1>2, <1>4, <1>6, <2>2, <2>3, AnswerStep
  <1>7. CASE /\ rec[r] = "completed" /\ Finished(r, "completed", "resume")
             /\ port' = [port EXCEPT !.job = "delivered"]
    <2>1. /\ Eases(port, port', r, "success") /\ port'.toPage = port.toPage
          /\ port'.jobs = port.jobs /\ port'.job = "delivered"
      BY <1>3, <1>7, JobEases
    <2>2. FlowInv'
      BY <1>1, <1>3, <2>1 DEF IInv, FlowInv, Active
    <2>3. rec' = [rec EXCEPT ![r] = "completed"]
      BY <1>1, <1>7 DEF IInv, Types
    <2>4. r \in Creates => WriteInv(r)' /\ ~Unwritten(r)
      BY <1>1, <1>4, <1>7 DEF WriteInv, Unwritten
    <2>5. OutcomeOf("completed") = "success" /\ "completed" \in Terminal
      BY DEF OutcomeOf, Terminal
    <2>6. task' \in [Requests -> Tasks] /\ trouble' \in 0..MaxTroubles
      BY <1>1 DEF IInv, Types
    <2> QED
      BY <1>1, <1>3, <1>7, <2>1, <2>2, <2>3, <2>4, <2>5, <2>6, FinishStep
  <1>8. CASE rec[r] \in Active /\ port' = [port EXCEPT !.job = rec[r]] /\ UNCHANGED <<run, out>>
    <2>1. /\ Eases(port, port', r, "busy") /\ port'.toPage = port.toPage
          /\ port'.jobs = port.jobs /\ port'.job = rec[r]
      BY <1>3, <1>8, JobEases
    <2>2. Types'
      BY <1>1, <1>8 DEF IInv, Types
    <2>3. FlowInv'
      BY <1>1, <1>3, <1>8, <2>1 DEF IInv, FlowInv, Active
    <2>4. "busy" \notin Outcomes
      BY DEF Outcomes
    <2> QED
      BY <1>1, <1>8, <2>1, <2>2, <2>3, <2>4, PortStep DEF Heard, Early, ceremonies
  <1> QED
    BY <1>2, <1>5, <1>6, <1>7, <1>8 DEF ResumeFinds

LEMMA ResumeAssertsKept ==
    ASSUME IInv, NEW s \in Active, ResumeAsserts(s)
    PROVE  IInv' /\ Honest
PROOF
  <1>1. port.job = s
        /\ UNCHANGED <<page, bridge, flow, lease, task, out, epoch, vault, writes>>
    BY DEF ResumeAsserts, Resuming, document, world
  <1>2. PICK r \in Requests : r = Head(port.jobs).req
    BY <1>1, Resumes
  <1>3. Shape(port) /\ port.jobs # <<>> /\ flow = NoFlow /\ ~Unbegun(r) /\ ~Early(r)
    BY <1>1, <1>2, Resumes
  <1>4. trouble' \in 0..MaxTroubles
    BY LimitsAssumption DEF IInv, Types, ResumeAsserts, Disturb
  <1>5. run \in [Requests -> RunRec] /\ rec \in [Requests -> States]
        /\ NoRun \in RunRec /\ port.no \in Nat
    BY <1>3, Fields, LimitsAssumption DEF IInv, Types, NoRun, RunRec
  <1> DEFINE ends == IF rec[r] \in Active THEN Aborted(r) ELSE rec[r]
             told == IF ends = "completed" THEN "busy" ELSE Told(ends)
             seen == IF rec[r] = "completed" THEN "busy" ELSE Told(rec[r])
  <1>6. \/ /\ rec' = [rec EXCEPT ![r] = ends] /\ run' = [run EXCEPT ![r] = NoRun]
           /\ port' = Answered(r, told)
        \/ /\ rec[r] \in Terminal /\ port' = Answered(r, seen) /\ UNCHANGED <<rec, run>>
        \/ /\ run' = (IF run[r].on THEN [run EXCEPT ![r].port = port.no, ![r].win = TRUE] ELSE run)
           /\ port' = Answered(r, "accepted") /\ rec' = rec
    BY <1>2 DEF ResumeAsserts
  <1>7. /\ ends \in States
        /\ ends \in Terminal => Told(ends) = OutcomeOf(ends)
        /\ told \in (Outcomes \ {"success"}) \cup {"accepted", "busy"}
        /\ told \in Outcomes => ends \in Terminal /\ told = OutcomeOf(ends)
        /\ r \in Creates /\ rec'[r] = ends => Ends(r)
    <2>1. CASE rec[r] \in Active
      BY <1>5, <2>1, AbortEnds DEF Told, OutcomeOf, Outcomes, Terminal, Active, States
    <2>2. CASE rec[r] \notin Active
      BY <1>5, <2>2 DEF Told, OutcomeOf, Outcomes, Terminal, Active, States, Ends
    <2> QED
      BY <2>1, <2>2
  <1>8. CASE /\ rec' = [rec EXCEPT ![r] = ends] /\ run' = [run EXCEPT ![r] = NoRun]
             /\ port' = Answered(r, told)
    <2> HIDE DEF ends, told
    <2>1. /\ rec' \in [Requests -> States] /\ rec'[r] = ends
          /\ \A q \in Requests \ {r} : rec'[q] = rec[q]
          /\ run' \in [Requests -> RunRec] /\ \A q \in Requests \ {r} : run'[q] = run[q]
      BY <1>5, <1>7, <1>8
    <2>2. Types' /\ \A q \in Requests \ {r} : Same(q)
      BY <1>1, <1>4, <2>1 DEF IInv, Types, Same
    <2>3. told \in Outcomes => Tells(r, told)
      BY <1>7, <2>1 DEF Tells
    <2> QED
      BY <1>1, <1>2, <1>7, <1>8, <2>1, <2>2, <2>3, AnswerStep
  <1>9. CASE rec[r] \in Terminal /\ port' = Answered(r, seen) /\ UNCHANGED <<rec, run>>
    <2>1. Types' /\ \A q \in Requests : Same(q) /\ Ends(q)
      BY <1>1, <1>4, <1>9 DEF IInv, Types, Same, Ends
    <2>2. /\ seen \in (Outcomes \ {"success"}) \cup {"accepted", "busy"}
          /\ seen \in Outcomes => Tells(r, seen)
      BY <1>9 DEF Told, Tells, OutcomeOf, Outcomes, Terminal, Active
    <2> HIDE DEF seen
    <2> QED
      BY <1>1, <1>2, <1>9, <2>1, <2>2, AnswerStep
  <1>10. CASE /\ run' = (IF run[r].on
                         THEN [run EXCEPT ![r].port = port.no, ![r].win = TRUE] ELSE run)
              /\ port' = Answered(r, "accepted") /\ rec' = rec
    <2> DEFINE w == [[run[r] EXCEPT !.port = port.no] EXCEPT !.win = TRUE]
    <2>1. w \in RunRec
      BY <1>5 DEF RunRec
    <2>2. run' = run \/ run' = [run EXCEPT ![r] = w]
      BY <1>5, <1>10
    <2> HIDE DEF w
    <2>3. /\ run' \in [Requests -> RunRec] /\ \A q \in Requests \ {r} : run'[q] = run[q]
      BY <1>5, <2>1, <2>2
    <2>4. Types' /\ (\A q \in Requests \ {r} : Same(q)) /\ Ends(r)
      BY <1>1, <1>4, <1>10, <2>3 DEF IInv, Types, Same, Ends
    <2>5. "accepted" \notin Outcomes
      BY DEF Outcomes
    <2> QED
      BY <1>1, <1>2, <1>10, <2>4, <2>5, AnswerStep
  <1> QED
    BY <1>6, <1>8, <1>9, <1>10

LEMMA AbortStep ==
    ASSUME IInv, NEW r \in Requests, rec[r] \in Active, Abort(r),
           \A k : Eases(port, port', r, k), port'.toPage = port.toPage, FlowInv',
           UNCHANGED <<page, bridge, flow, lease, task, epoch, vault, writes, trouble>>
    PROVE  IInv' /\ Honest
PROOF
  <1> DEFINE s == Aborted(r)
  <1>1. rec' = [rec EXCEPT ![r] = s] /\ Finished(r, s, "worker")
    BY DEF Abort
  <1>2. /\ s \in Terminal /\ rec'[r] = s
        /\ r \in Creates => Ends(r)
        /\ rec[r] = "awaiting" => s = "failed"
    BY <1>1, AbortEnds DEF IInv, Types
  <1> HIDE DEF s
  <1>3. ~Unbegun(r) /\ ~Early(r)
    BY Begun DEF IInv, Active
  <1>4. flow.req = r => s = "failed"
    <2>1. ASSUME flow.req = r PROVE Prepared(r)
      BY <2>1, FlowRuns, RequestsAssumption DEF NoFlow
    <2> QED
      BY <1>2, <2>1 DEF Prepared, Active
  <1>5. r \in Creates => WriteInv(r)' /\ ~Unwritten(r)
    BY <1>2, CreationEnds DEF Unwritten, Active
  <1>6. task' \in [Requests -> Tasks] /\ trouble' \in 0..MaxTroubles
    BY DEF IInv, Types
  <1> QED
    BY <1>1, <1>2, <1>3, <1>4, <1>5, <1>6, FinishStep

-----------------------------------------------------------------------------
(* Cancel and acknowledge.                                                 *)

\* The control message at the head is read.
LEMMA ControlRead ==
    ASSUME Shape(port), port.ctl # <<>>, NEW b \in Bindings
    PROVE  /\ Head(port.ctl).req \in Requests
           /\ \A r \in Requests : \A k :
                LET q == [[port EXCEPT !.ctl = Tail(@)] EXCEPT !.bind[r] = b] IN
                /\ Eases(port, q, r, k) /\ q.toPage = port.toPage /\ q.jobs = port.jobs
                /\ q.job = port.job
           /\ \A r, k :
                LET q == [port EXCEPT !.ctl = Tail(@)] IN
                /\ Eases(port, q, r, k) /\ q.toPage = port.toPage /\ q.jobs = port.jobs
                /\ q.job = port.job
PROOF
  <1>1. Head(port.ctl) \in Controls /\ Tail(port.ctl) \in Seq(Controls)
    BY Fields, HeadTailProperties
  <1>2. Head(port.ctl).req \in Requests
    BY <1>1 DEF Controls
  <1> DEFINE p == [port EXCEPT !.ctl = Tail(@)]
  <1>3. \A r, k : /\ Eases(port, p, r, k) /\ p.toPage = port.toPage /\ p.jobs = port.jobs
                  /\ p.job = port.job
    BY <1>1, ControlEases
  <1> HIDE DEF p
  <1>4. Shape(p)
    BY <1>3 DEF Eases
  <1>5. ASSUME NEW r \in Requests, NEW k
        PROVE  LET q == [p EXCEPT !.bind[r] = b] IN
               /\ Eases(port, q, r, k) /\ q.toPage = port.toPage /\ q.jobs = port.jobs
               /\ q.job = port.job
    <2> DEFINE q == [p EXCEPT !.bind[r] = b]
    <2>1. Eases(p, q, r, k) /\ q.toPage = p.toPage /\ q.jobs = p.jobs /\ q.job = p.job
      BY <1>4, BoundEases
    <2> HIDE DEF q
    <2>2. Eases(port, q, r, k)
      BY <1>3, <2>1, EasesTwice
    <2> QED
      BY <1>3, <2>1, <2>2 DEF q
  <1> QED
    BY <1>2, <1>3, <1>5 DEF p

LEMMA CancelKept ==
    ASSUME IInv, Cancel
    PROVE  IInv' /\ Honest
PROOF
  <1>1. /\ Shape(port) /\ port.ctl # <<>>
        /\ UNCHANGED <<page, bridge, flow, lease, task, epoch, vault, writes, trouble>>
    BY DEF IInv, PortInv, Cancel, Control, document, world
  <1>2. PICK r \in Requests : r = Head(port.ctl).req
    BY <1>1, ControlRead DEF Bindings
  <1>3. CASE port' = Closed(port) /\ UNCHANGED <<rec, run, out>>
    <2>1. Eases(port, port', r, "accepted") /\ port'.job = "idle"
      BY <1>1, <1>3, ClosedEases
    <2>2. Types'
      BY <1>1, <1>3 DEF IInv, Types
    <2>3. FlowInv'
      BY <1>1, <2>1 DEF IInv, FlowInv, Active
    <2>4. "accepted" \notin Outcomes
      BY DEF Outcomes
    <2> QED
      BY <1>1, <1>3, <2>1, <2>2, <2>3, <2>4, PortStep DEF Heard, Early, ceremonies
  <1>4. CASE port' = [port EXCEPT !.ctl = Tail(@)]
    <2>1. /\ \A k : Eases(port, port', r, k)
          /\ port'.toPage = port.toPage /\ port'.jobs = port.jobs /\ port'.job = port.job
      BY <1>1, <1>4, ControlRead DEF Bindings
    <2>2. FlowInv'
      BY <1>1, <2>1 DEF IInv, FlowInv
    <2>3. CASE rec[r] \in Active /\ Abort(r)
      BY <1>1, <2>1, <2>2, <2>3, AbortStep
    <2>4. CASE UNCHANGED <<rec, run, out>>
      <3>1. Types'
        BY <1>1, <2>4 DEF IInv, Types
      <3>2. "accepted" \notin Outcomes
        BY DEF Outcomes
      <3> QED
        BY <1>1, <2>1, <2>2, <2>4, <3>1, <3>2, PortStep DEF Heard, Early, ceremonies
    <2> QED
      BY <1>2, <1>3, <2>3, <2>4 DEF Cancel
  <1> QED
    BY <1>2, <1>3, <1>4 DEF Cancel

LEMMA AcknowledgeKept ==
    ASSUME IInv, Acknowledge
    PROVE  IInv' /\ Honest
PROOF
  <1>1. /\ Shape(port) /\ port.ctl # <<>>
        /\ UNCHANGED <<page, bridge, flow, lease, task, out, epoch, vault, writes, trouble>>
    BY DEF IInv, PortInv, Acknowledge, Control, document, world
  <1>2. PICK r \in Requests : r = Head(port.ctl).req
    BY <1>1, ControlRead DEF Bindings
  <1> DEFINE exact == ~Misfits(r, "ack") /\ rec[r] \in Terminal
             b == IF exact THEN "acked" ELSE port.bind[r]
  <1>3. b \in Bindings
    BY <1>1, Fields DEF Bindings
  <1>4. /\ rec' = [rec EXCEPT ![r] = IF exact THEN "none" ELSE @]
        /\ run' = [run EXCEPT ![r] = IF exact THEN NoRun ELSE @]
    BY <1>2 DEF Acknowledge
  <1>5. port' = Closed(port) \/ port' = [[port EXCEPT !.ctl = Tail(@)] EXCEPT !.bind[r] = b]
    BY <1>1, <1>2 DEF Acknowledge, Shape, PortRec
  <1> HIDE DEF b
  <1>6. /\ Eases(port, port', r, "accepted") /\ port'.toPage = port.toPage
        /\ port'.job = "idle" \/ (port'.jobs = port.jobs /\ port'.job = port.job)
    <2>1. CASE port' = Closed(port)
      BY <1>1, <2>1, ClosedEases
    <2>2. CASE port' = [[port EXCEPT !.ctl = Tail(@)] EXCEPT !.bind[r] = b]
      <3> DEFINE q == [[port EXCEPT !.ctl = Tail(@)] EXCEPT !.bind[r] = b]
      <3>1. /\ Eases(port, q, r, "accepted") /\ q.toPage = port.toPage
            /\ q.jobs = port.jobs /\ q.job = port.job
        BY <1>1, <1>3, ControlRead
      <3>2. port' = q
        BY <2>2
      <3> HIDE DEF q
      <3> QED
        BY <3>1, <3>2
    <2> QED
      BY <1>5, <2>1, <2>2
  <1>7. FlowInv'
    BY <1>1, <1>6 DEF IInv, FlowInv, Active
  <1>8. "accepted" \notin Outcomes
    BY DEF Outcomes
  <1>9. CASE ~exact
    <2>1. rec' = rec /\ run' = run
      BY <1>4, <1>9 DEF IInv, Types
    <2>2. Types'
      BY <1>1, <2>1 DEF IInv, Types
    <2> QED
      BY <1>1, <1>6, <1>7, <1>8, <2>1, <2>2, PortStep DEF Heard, Early, ceremonies
  <1>10. CASE exact
    <2>1. /\ rec' \in [Requests -> States] /\ rec'[r] = "none"
          /\ \A q \in Requests \ {r} : rec'[q] = rec[q]
          /\ run' \in [Requests -> RunRec] /\ run'[r].on = FALSE
          /\ \A q \in Requests \ {r} : run'[q] = run[q]
      BY <1>4, <1>10 DEF IInv, Types, States, RunRec, NoRun
    <2>2. Types' /\ \A q \in Requests \ {r} : Same(q)
      BY <1>1, <2>1 DEF IInv, Types, Same
    <2>3. ~Unbegun(r) /\ ~Early(r)
      BY <1>10, Begun DEF IInv, Terminal
    <2>4. ASSUME flow'.req = r PROVE Prepared(r)'
      <3>1. Prepared(r)
        BY <1>1, <2>4, FlowRuns, RequestsAssumption DEF NoFlow
      <3> QED
        BY <1>1, <2>1, <3>1 DEF Prepared, Shown
    <2>5. Advances(r)
      BY <1>1, <2>1, <2>3, <2>4, CreationEnds DEF Advances, Ends
    <2> HIDE DEF exact
    <2> QED
      BY <1>1, <1>6, <1>7, <1>8, <2>2, <2>5, CeremonyStep, Unsent
  <1> QED
    BY <1>9, <1>10

-----------------------------------------------------------------------------
(* Approval and deadlines.                                                 *)

LEMMA ApproveKept ==
    ASSUME IInv, NEW r \in Requests, Approve(r)
    PROVE  IInv' /\ Honest
PROOF
  <1>1. /\ Shown(r) /\ rec[r] = "awaiting" /\ task[r] = "none"
        /\ UNCHANGED <<page, bridge, port, flow, lease, epoch, vault, writes, trouble>>
    BY DEF Approve, document, world
  <1>2. FlowInv' /\ port'.toPage = port.toPage /\ \A k : Eases(port, port', r, k)
    BY <1>1, Unmoved
  <1>3. CASE Abort(r) /\ task' = task
    BY <1>1, <1>2, <1>3, AbortStep DEF Active
  <1>4. CASE task' = [task EXCEPT ![r] = "claim"] /\ UNCHANGED <<rec, run, out>>
    <2>1. /\ task' \in [Requests -> Tasks] /\ task'[r] = "claim"
          /\ \A q \in Requests \ {r} : task'[q] = task[q]
      BY <1>4 DEF IInv, Types, Tasks
    <2>2. Types' /\ \A q \in Requests \ {r} : Same(q)
      BY <1>1, <1>4, <2>1 DEF IInv, Types, Same
    <2>3. ~Unbegun(r) /\ ~Early(r)
      BY <1>1, Begun DEF IInv
    <2>4. flow'.req # r
      BY <1>1, FlowRuns, RequestsAssumption DEF Prepared, NoFlow
    <2>5. r \in Creates => WriteInv(r)'
      BY <1>1, <1>4, <2>1 DEF IInv, RequestInv, CreateInv, WriteInv
    <2>6. Advances(r)
      BY <1>1, <2>3, <2>4, <2>5 DEF Advances, Unwritten
    <2>7. "accepted" \notin Outcomes
      BY DEF Outcomes
    <2> QED
      BY <1>1, <1>2, <1>4, <2>2, <2>6, <2>7, CeremonyStep, Unsent
  <1> QED
    BY <1>3, <1>4 DEF Approve

LEMMA DeclineKept ==
    ASSUME IInv, NEW r \in Requests, Decline(r)
    PROVE  IInv' /\ Honest
PROOF
  <1>1. rec[r] \in Active /\ Abort(r)
        /\ UNCHANGED <<page, bridge, port, flow, lease, task, epoch, vault, writes, trouble>>
    BY DEF Decline, document, world
  <1> QED
    BY <1>1, Unmoved, AbortStep

LEMMA RevalidateKept ==
    ASSUME IInv, NEW r \in Requests, Revalidate(r)
    PROVE  IInv' /\ Honest
PROOF
  <1>1. rec[r] \in Active /\ Abort(r)
        /\ UNCHANGED <<page, bridge, port, flow, lease, task, epoch, vault, writes, trouble>>
    BY DEF Revalidate, document, world
  <1> QED
    BY <1>1, Unmoved, AbortStep

LEMMA UseBrowserKept ==
    ASSUME IInv, NEW r \in Requests, UseBrowser(r)
    PROVE  IInv' /\ Honest
PROOF
  <1>1. /\ Shown(r) /\ rec[r] = "awaiting" /\ rec' = [rec EXCEPT ![r] = "fallback"]
        /\ Finished(r, "fallback", "worker")
        /\ UNCHANGED <<page, bridge, port, flow, lease, task, epoch, vault, writes, trouble>>
    BY DEF UseBrowser, document, world
  <1>2. ~Unbegun(r) /\ ~Early(r)
    BY <1>1, Begun DEF IInv
  <1>3. flow.req # r
    BY <1>1, FlowRuns, RequestsAssumption DEF Prepared, NoFlow
  <1>4. rec'[r] = "fallback"
    BY <1>1 DEF IInv, Types
  <1>5. r \in Creates => WriteInv(r)'
    BY <1>1, <1>4, CreationEnds DEF Ends
  <1>6. task' \in [Requests -> Tasks] /\ trouble' \in 0..MaxTroubles /\ "fallback" \in Terminal
    BY <1>1 DEF IInv, Types, Terminal
  <1> QED
    BY <1>1, <1>2, <1>3, <1>5, <1>6, Unmoved, FinishStep

LEMMA NoticesKept ==
    ASSUME IInv, NEW r \in Requests, Notices(r)
    PROVE  IInv' /\ Honest
PROOF
  <1>1. /\ rec[r] \in Terminal /\ Finished(r, rec[r], "worker")
        /\ UNCHANGED <<page, bridge, port, flow, rec, lease, task, epoch, vault, writes, trouble>>
    BY DEF Notices, document, world
  <1>2. ~Unbegun(r) /\ ~Early(r)
    BY <1>1, Begun DEF IInv, Terminal
  <1>3. rec' = [rec EXCEPT ![r] = rec[r]]
    BY <1>1 DEF IInv, Types
  <1>4. r \in Creates => WriteInv(r)' /\ (Unwritten(r) => rec[r] \in {"failed", "fallback"})
    BY <1>1, CreationEnds DEF Ends, Unwritten, Terminal
  <1>5. task' \in [Requests -> Tasks] /\ trouble' \in 0..MaxTroubles
    BY <1>1 DEF IInv, Types
  <1> QED
    BY <1>1, <1>2, <1>3, <1>4, <1>5, Unmoved, FinishStep

\* A step that moves only the record, the task or the credential of r, whose
\* preparation is over or not disturbed.
LEMMA QuietStep ==
    ASSUME IInv, NEW r \in Requests, UNCHANGED <<page, bridge, port, flow, lease, run, out>>,
           Types', \A q \in Requests \ {r} : Same(q), ~Unbegun(r), ~Early(r),
           flow.req = r => task'[r] = "none" /\ vault'[r] = "idle"
                           /\ rec'[r] \in {"none", "awaiting", "failed"},
           r \in Creates => /\ WriteInv(r)'
                            /\ vault[r] = "stored" => vault'[r] = "stored"
                            /\ Unwritten(r) => Unwritten(r)',
           \A q \in Requests : writes'[q] > writes[q] => lease[q] = epoch
    PROVE  IInv' /\ Honest
PROOF
  <1>1. ASSUME flow'.req = r PROVE Prepared(r)'
    <2>1. Prepared(r)
      BY <1>1, FlowRuns, RequestsAssumption DEF NoFlow
    <2> QED
      BY <1>1, <2>1 DEF Prepared, Shown
  <1>2. Advances(r)
    BY <1>1 DEF Advances
  <1>3. "accepted" \notin Outcomes
    BY DEF Outcomes
  <1> QED
    BY <1>2, <1>3, CeremonyStep, Unmoved

LEMMA ExpiresKept ==
    ASSUME IInv, NEW r \in Requests, Expires(r)
    PROVE  IInv' /\ Honest
PROOF
  <1>1. /\ rec[r] \in Active /\ rec' = [rec EXCEPT ![r] = Aborted(r)]
        /\ UNCHANGED <<page, bridge, port, flow, lease, run, task, out, epoch, vault, writes, trouble>>
    BY DEF Expires, document, world
  <1>2. /\ Aborted(r) \in {"failed", "uncertain"}
        /\ rec[r] = "awaiting" => Aborted(r) = "failed"
        /\ r \in Creates /\ rec'[r] = Aborted(r) => Ends(r)
    BY <1>1, AbortEnds
  <1>3. /\ rec' \in [Requests -> States] /\ rec'[r] = Aborted(r)
        /\ \A q \in Requests \ {r} : rec'[q] = rec[q]
    BY <1>1, <1>2 DEF IInv, Types, States, Terminal
  <1>4. Types' /\ \A q \in Requests \ {r} : Same(q)
    BY <1>1, <1>3 DEF IInv, Types, Same
  <1>5. ~Unbegun(r) /\ ~Early(r)
    BY <1>1, Begun DEF IInv, Active
  <1>6. ASSUME flow.req = r
        PROVE  task'[r] = "none" /\ vault'[r] = "idle" /\ rec'[r] \in {"none", "awaiting", "failed"}
    <2>1. Prepared(r)
      BY <1>6, FlowRuns, RequestsAssumption DEF NoFlow
    <2> QED
      BY <1>1, <1>2, <1>3, <2>1 DEF Prepared, Active
  <1>7. r \in Creates => /\ WriteInv(r)'
                         /\ vault[r] = "stored" => vault'[r] = "stored"
                         /\ Unwritten(r) => Unwritten(r)'
    BY <1>1, <1>2, <1>3, CreationEnds
  <1> QED
    BY <1>1, <1>4, <1>5, <1>6, <1>7, QuietStep, Unsent

\* The steps of an approved ceremony: its preparation is over.
LEMMA Approved ==
    ASSUME IInv, NEW r \in Requests, task[r] # "none" \/ vault[r] # "idle"
    PROVE  /\ ~Unbegun(r) /\ ~Early(r) /\ flow.req # r
           /\ r \in Creates => WriteInv(r)
PROOF
  <1>1. ~Unbegun(r) /\ ~Early(r)
    BY Begun DEF IInv
  <1>2. flow.req # r
    BY FlowRuns, RequestsAssumption DEF Prepared, NoFlow
  <1> QED
    BY <1>1, <1>2 DEF IInv, RequestInv, CreateInv

LEMMA ClaimKept ==
    ASSUME IInv, NEW r \in Requests, Claim(r)
    PROVE  IInv' /\ Honest
PROOF
  <1>1. /\ task[r] = "claim"
        /\ rec' = [rec EXCEPT ![r] = IF @ = "awaiting" THEN "executing" ELSE @]
        /\ task' = [task EXCEPT ![r] = IF rec[r] = "awaiting" THEN "execute" ELSE "none"]
        /\ UNCHANGED <<page, bridge, port, flow, lease, run, out, epoch, vault, writes, trouble>>
    BY DEF Claim, document, world
  <1>2. ~Unbegun(r) /\ ~Early(r) /\ flow.req # r /\ (r \in Creates => WriteInv(r))
    BY <1>1, Approved
  <1>3. /\ rec' \in [Requests -> States] /\ task' \in [Requests -> Tasks]
        /\ \A q \in Requests \ {r} : rec'[q] = rec[q] /\ task'[q] = task[q]
        /\ \/ rec[r] = "awaiting" /\ rec'[r] = "executing" /\ task'[r] = "execute"
           \/ rec[r] # "awaiting" /\ rec'[r] = rec[r] /\ task'[r] = "none"
    BY <1>1 DEF IInv, Types, States, Active, Tasks
  <1>4. Types' /\ \A q \in Requests \ {r} : Same(q)
    BY <1>1, <1>3 DEF IInv, Types, Same
  <1>5. r \in Creates => /\ WriteInv(r)'
                         /\ vault[r] = "stored" => vault'[r] = "stored"
                         /\ Unwritten(r) => Unwritten(r)'
    BY <1>1, <1>2, <1>3 DEF WriteInv, Unwritten
  <1> QED
    BY <1>1, <1>2, <1>4, <1>5, QuietStep, Unsent

LEMMA ExecuteKept ==
    ASSUME IInv, NEW r \in Requests, Execute(r)
    PROVE  IInv' /\ Honest
PROOF
  <1>1. /\ task[r] = "execute"
        /\ UNCHANGED <<page, bridge, port, flow, rec, lease, run, out, epoch, writes, trouble>>
    BY DEF Execute, document
  <1>2. ~Unbegun(r) /\ ~Early(r) /\ flow.req # r /\ (r \in Creates => WriteInv(r))
    BY <1>1, Approved
  <1>3. /\ task' \in [Requests -> Tasks]
        /\ vault' \in [Requests -> {"idle", "queued", "sent", "stored", "refused"}]
        /\ \A q \in Requests \ {r} : vault'[q] = vault[q] /\ task'[q] = task[q]
        /\ \/ task'[r] \in {"stopped", "none"} /\ vault'[r] = vault[r]
           \/ /\ task'[r] = "call" /\ rec[r] = "executing"
              /\ vault'[r] = IF r \in Creates THEN "queued" ELSE vault[r]
    BY DEF Execute, IInv, Types, Tasks, Answers
  <1>4. Types' /\ \A q \in Requests \ {r} : Same(q)
    BY <1>1, <1>3 DEF IInv, Types, Same
  <1>5. r \in Creates => /\ WriteInv(r)'
                         /\ vault[r] = "stored" => vault'[r] = "stored"
                         /\ Unwritten(r) => Unwritten(r)'
    BY <1>1, <1>2, <1>3 DEF WriteInv, Unwritten
  <1> QED
    BY <1>1, <1>2, <1>4, <1>5, QuietStep, Unsent

LEMMA SendsKept ==
    ASSUME IInv, NEW r \in Requests, Sends(r)
    PROVE  IInv' /\ Honest
PROOF
  <1>1. /\ vault[r] = "queued"
        /\ UNCHANGED <<page, bridge, port, flow, rec, lease, run, task, out, epoch, trouble>>
    BY DEF Sends, document, ceremonies
  <1>2. ~Unbegun(r) /\ ~Early(r) /\ flow.req # r /\ (r \in Creates => WriteInv(r))
    BY <1>1, Approved
  <1>3. /\ writes' \in [Requests -> Nat]
        /\ vault' \in [Requests -> {"idle", "queued", "sent", "stored", "refused"}]
        /\ \A q \in Requests \ {r} : vault'[q] = vault[q] /\ writes'[q] = writes[q]
        /\ \/ vault'[r] = "sent" /\ writes'[r] = writes[r] + 1 /\ MayWrite(r)
           \/ vault'[r] = "refused" /\ writes'[r] = writes[r]
    BY DEF Sends, IInv, Types
  <1>4. Types' /\ \A q \in Requests \ {r} : Same(q)
    BY <1>1, <1>3 DEF IInv, Types, Same
  <1>5. r \in Creates => /\ WriteInv(r)'
                         /\ vault[r] = "stored" => vault'[r] = "stored"
                         /\ Unwritten(r) => Unwritten(r)'
    BY <1>1, <1>2, <1>3 DEF WriteInv, Unwritten
  <1>6. ASSUME NEW q \in Requests, writes'[q] > writes[q] PROVE lease[q] = epoch
    <2>1. writes[q] \in Nat /\ lease[q] \in Snapshots /\ epoch \in Snapshots
      BY DEF IInv, Types
    <2>2. q = r /\ MayWrite(r)
      BY <1>3, <1>6, <2>1
    <2>3. lease[q].sess = epoch.sess /\ lease[q].gen = epoch.gen
      BY <2>2 DEF MayWrite, Holds
    <2> QED
      BY <2>1, <2>3 DEF Snapshots
  <1> QED
    BY <1>1, <1>2, <1>4, <1>5, <1>6, QuietStep

LEMMA LandsKept ==
    ASSUME IInv, NEW r \in Requests, Lands(r)
    PROVE  IInv' /\ Honest
PROOF
  <1>1. /\ vault[r] = "sent"
        /\ UNCHANGED <<page, bridge, port, flow, rec, lease, run, task, out, epoch, writes, trouble>>
    BY DEF Lands, document, ceremonies
  <1>2. ~Unbegun(r) /\ ~Early(r) /\ flow.req # r /\ (r \in Creates => WriteInv(r))
    BY <1>1, Approved
  <1>3. /\ vault' \in [Requests -> {"idle", "queued", "sent", "stored", "refused"}]
        /\ \A q \in Requests \ {r} : vault'[q] = vault[q]
        /\ vault'[r] \in {"stored", "refused"}
    BY DEF Lands, IInv, Types
  <1>4. Types' /\ \A q \in Requests \ {r} : Same(q)
    BY <1>1, <1>3 DEF IInv, Types, Same
  <1>5. r \in Creates => /\ WriteInv(r)'
                         /\ vault[r] = "stored" => vault'[r] = "stored"
                         /\ Unwritten(r) => Unwritten(r)'
    BY <1>1, <1>2, <1>3 DEF WriteInv, Unwritten
  <1> QED
    BY <1>1, <1>2, <1>4, <1>5, QuietStep, Unsent

LEMMA CreateAnswersKept ==
    ASSUME IInv, NEW r \in Requests, CreateAnswers(r)
    PROVE  IInv' /\ Honest
PROOF
  <1>1. /\ task[r] = "call"
        /\ UNCHANGED <<page, bridge, port, flow, rec, lease, run, out, vault, writes>>
    BY DEF CreateAnswers, document
  <1>2. ~Unbegun(r) /\ ~Early(r) /\ flow.req # r /\ (r \in Creates => WriteInv(r))
    BY <1>1, Approved
  <1>3. /\ task' \in [Requests -> Tasks] /\ \A q \in Requests \ {r} : task'[q] = task[q]
        /\ \/ task'[r] = "committed" /\ vault[r] = "stored"
           \/ task'[r] = "refused" /\ vault[r] = "refused"
           \/ task'[r] = "unknown"
    BY DEF CreateAnswers, IInv, Types, Tasks, Answers
  <1>4. epoch' \in Snapshots /\ trouble' \in 0..MaxTroubles
    BY LimitsAssumption DEF CreateAnswers, IInv, Types, Snapshots, Disturb
  <1>5. Types' /\ \A q \in Requests \ {r} : Same(q)
    BY <1>1, <1>3, <1>4 DEF IInv, Types, Same
  <1>6. r \in Creates => /\ WriteInv(r)'
                         /\ vault[r] = "stored" => vault'[r] = "stored"
                         /\ Unwritten(r) => Unwritten(r)'
    BY <1>1, <1>2, <1>3 DEF WriteInv, Unwritten
  <1> QED
    BY <1>1, <1>2, <1>5, <1>6, QuietStep, Unsent

LEMMA GetAnswersKept ==
    ASSUME IInv, NEW r \in Requests, GetAnswers(r)
    PROVE  IInv' /\ Honest
PROOF
  <1>1. /\ task[r] = "call" /\ r \notin Creates
        /\ UNCHANGED <<page, bridge, port, flow, rec, lease, run, out, epoch, vault, writes, trouble>>
    BY DEF GetAnswers, document, world
  <1>2. ~Unbegun(r) /\ ~Early(r) /\ flow.req # r
    BY <1>1, Approved
  <1>3. /\ task' \in [Requests -> Tasks] /\ \A q \in Requests \ {r} : task'[q] = task[q]
    BY DEF GetAnswers, IInv, Types, Tasks, Answers
  <1>4. Types' /\ \A q \in Requests \ {r} : Same(q)
    BY <1>1, <1>3 DEF IInv, Types, Same
  <1> QED
    BY <1>1, <1>2, <1>4, QuietStep, Unsent

LEMMA SettleKept ==
    ASSUME IInv, NEW r \in Requests, Settle(r)
    PROVE  IInv' /\ Honest
PROOF
  <1>1. /\ task[r] \in Answers /\ task' = [task EXCEPT ![r] = "none"]
        /\ UNCHANGED <<page, bridge, port, flow, lease, epoch, vault, writes>>
    BY DEF Settle, document, world
  <1>2. ~Unbegun(r) /\ ~Early(r) /\ flow.req # r /\ (r \in Creates => WriteInv(r))
    BY <1>1, Approved DEF Answers
  <1>3. /\ task' \in [Requests -> Tasks] /\ task'[r] = "none"
        /\ \A q \in Requests \ {r} : task'[q] = task[q]
    BY <1>1 DEF IInv, Types, Tasks
  <1>4. trouble' \in 0..MaxTroubles
    BY LimitsAssumption DEF Settle, IInv, Types, Disturb
  <1>5. CASE rec[r] = "executing"
    <2>1. PICK s \in {Settlement(r, task[r]), Interrupted(r)} :
             rec' = [rec EXCEPT ![r] = s] /\ Finished(r, rec'[r], "worker")
             /\ (s = Settlement(r, task[r]) \/ s = Interrupted(r))
      BY <1>5 DEF Settle, Terminal
    <2>2. s \in Terminal /\ rec'[r] = s
      BY <2>1 DEF Settlement, Interrupted, Terminal, IInv, Types
    <2>3. ASSUME r \in Creates PROVE WriteInv(r)' /\ ~Unwritten(r)
      <3>1. WriteInv(r) /\ task[r] \in {"committed", "unknown", "refused", "stopped"}
        BY <1>1, <1>2, <2>3 DEF WriteInv, Answers
      <3>2. \/ s = "completed" /\ vault[r] = "stored"
            \/ s = "failed" /\ vault[r] \in {"idle", "refused"}
            \/ s = "uncertain"
        BY <2>1, <2>3, <3>1 DEF WriteInv, Settlement, Interrupted
      <3> QED
        BY <1>1, <1>3, <1>5, <2>2, <3>1, <3>2 DEF WriteInv, Unwritten
    <2> QED
      BY <1>1, <1>2, <1>3, <1>4, <2>1, <2>2, <2>3, Unmoved, FinishStep
  <1>6. CASE rec[r] \in Terminal /\ Finished(r, rec[r], "worker") /\ rec' = rec
    <2>1. rec' = [rec EXCEPT ![r] = rec[r]]
      BY <1>6 DEF IInv, Types
    <2>2. r \in Creates => WriteInv(r)' /\ (Unwritten(r) => rec[r] \in {"failed", "fallback"})
      BY <1>1, <1>3, <1>6, CreationEnds DEF Ends, Unwritten, Terminal
    <2> QED
      BY <1>1, <1>2, <1>3, <1>4, <1>6, <2>1, <2>2, Unmoved, FinishStep
  <1>7. CASE UNCHANGED <<rec, run, out>>
    <2>1. Types' /\ \A q \in Requests \ {r} : Same(q)
      BY <1>1, <1>3, <1>4, <1>7 DEF IInv, Types, Same
    <2>2. r \in Creates => /\ WriteInv(r)'
                           /\ vault[r] = "stored" => vault'[r] = "stored"
                           /\ Unwritten(r) => Unwritten(r)'
      BY <1>1, <1>3, <1>7, CreationEnds DEF Ends
    <2> QED
      BY <1>1, <1>2, <1>7, <2>1, <2>2, QuietStep, Unsent
  <1> QED
    BY <1>5, <1>6, <1>7 DEF Settle

-----------------------------------------------------------------------------
(* Delivery and the world around.                                          *)

\* A delivery hands its outcome on, or the ceremony is forgotten.
LEMMA DeliveryStep ==
    ASSUME IInv, NEW o \in out, Eases(port, port', o.req, o.kind), FlowInv',
           out' \subseteq OutRec, \A d \in out' : d \in out \/ (d.req = o.req /\ d.kind = o.kind),
           rec' = rec \/ Retired(o.req),
           UNCHANGED <<page, bridge, flow, lease, run, task, epoch, vault, writes, trouble>>
    PROVE  IInv'
PROOF
  <1> DEFINE r == o.req
  <1>1. r \in Requests /\ o.kind \in Outcomes
    BY DEF IInv, Types, OutRec, Deliveries
  <1> HIDE DEF r
  <1>2. /\ rec' \in [Requests -> States] /\ rec'[r] \in {rec[r], "none"}
        /\ \A q \in Requests \ {r} : rec'[q] = rec[q]
    BY DEF Retired, IInv, Types, States, r
  <1>3. Types'
    BY <1>2 DEF IInv, Types
  <1>4. \A q \in Requests \ {r} : Same(q)
    BY <1>2 DEF Same
  <1>5. Heard(r, o.kind)
    BY DEF Heard, r
  <1>6. Moves(r, o.kind)
    BY <1>4, <1>5 DEF Moves, Early, Heard, r
  <1>7. ~Unbegun(r) /\ ~Early(r)
    BY <1>1, <1>5, Begun DEF IInv
  <1>8. ASSUME flow'.req = r PROVE Prepared(r)'
    <2>1. Prepared(r)
      BY <1>1, <1>8, FlowRuns, RequestsAssumption DEF NoFlow
    <2> QED
      BY <1>2, <2>1 DEF Prepared, Shown
  <1>9. Advances(r)
    BY <1>2, <1>7, <1>8, CreationEnds DEF Advances, Ends
  <1> QED
    BY <1>1, <1>3, <1>6, <1>9, MovesKept DEF IInv

LEMMA DeliverKept ==
    ASSUME IInv, NEW o \in out, Deliver(o)
    PROVE  IInv' /\ Honest
PROOF
  <1> DEFINE r == o.req
             w == [port EXCEPT !.bind[r] = "outcome"]
             p == [o EXCEPT !.at = "post"]
  <1>1. /\ o \in OutRec /\ r \in Requests /\ o.kind \in Outcomes /\ out \subseteq OutRec
        /\ Shape(port)
        /\ UNCHANGED <<page, bridge, flow, lease, run, task, epoch, vault, writes, trouble>>
    BY DEF IInv, Types, PortInv, OutRec, Deliveries, Deliver, document, world
  <1>2. /\ Eases(port, w, r, o.kind) /\ w.toPage = port.toPage /\ w.jobs = port.jobs
        /\ w.job = port.job
    BY <1>1, BoundEases DEF Bindings
  <1>3. Eases(port, port, r, o.kind)
    BY <1>1 DEF Eases
  <1>4. p.req = r /\ p.kind = o.kind /\ (o.kind = "success" => p \in OutRec)
    BY <1>1 DEF OutRec, Deliveries
  <1>5. CASE /\ o.kind # "success" /\ out' = out \ {o} /\ rec' = rec
             /\ port' = IF Listening(r) THEN Posted(w, o.kind, r) ELSE port
    <2> HIDE DEF w, r
    <2>1. Shape(w)
      BY <1>2 DEF Eases
    <2>2. /\ Eases(w, Posted(w, o.kind, r), r, o.kind)
          /\ Posted(w, o.kind, r).jobs = w.jobs /\ Posted(w, o.kind, r).job = w.job
      BY <1>1, <2>1, PostedEases
    <2>3. Eases(port, Posted(w, o.kind, r), r, o.kind)
      BY <1>2, <2>2, EasesTwice
    <2>4. Eases(port, port', r, o.kind) /\ port'.jobs = port.jobs /\ port'.job = port.job
      BY <1>2, <1>3, <1>5, <2>2, <2>3
    <2>5. FlowInv'
      BY <1>1, <2>4 DEF IInv, FlowInv
    <2>6. Honest
      BY <1>1, <1>5, <2>4, Silent
    <2>7. out' \subseteq out
      BY <1>5
    <2> QED
      BY <1>1, <1>5, <2>4, <2>5, <2>6, <2>7, DeliveryStep DEF r
  <1>6. CASE /\ o.kind = "success" /\ (port' = w \/ port' = port)
             /\ out' \subseteq (out \ {o}) \cup {p}
             /\ rec' = rec \/ Retired(r)
    <2>1. /\ Eases(port, port', r, o.kind) /\ port'.toPage = port.toPage
          /\ port'.jobs = port.jobs /\ port'.job = port.job
      <3> HIDE DEF w
      <3> QED
        BY <1>2, <1>3, <1>6
    <2> HIDE DEF w, p
    <2>2. FlowInv'
      BY <1>1, <2>1 DEF IInv, FlowInv
    <2>3. Honest
      BY <1>1, <2>1, Silent
    <2>4. out' \subseteq OutRec /\ \A d \in out' : d \in out \/ (d.req = r /\ d.kind = o.kind)
      BY <1>1, <1>4, <1>6
    <2> QED
      BY <1>1, <1>6, <2>1, <2>2, <2>3, <2>4, DeliveryStep
  <1> QED
    BY <1>5, <1>6 DEF Deliver

LEMMA PostSuccessKept ==
    ASSUME IInv, NEW o \in out, PostSuccess(o)
    PROVE  IInv' /\ Honest
PROOF
  <1> DEFINE r == o.req
  <1>1. /\ r \in Requests /\ o.kind = "success" /\ Shape(port) /\ out' = out \ {o}
        /\ UNCHANGED <<page, bridge, flow, lease, run, task, epoch, vault, writes, trouble>>
    BY DEF IInv, Types, PortInv, OutRec, Deliveries, PostSuccess, document, world
  <1>2. out' \subseteq OutRec /\ out' \subseteq out
    BY <1>1 DEF IInv, Types
  <1>3. CASE MayPost(r) /\ port' = Posted(port, "success", r) /\ rec' = rec
    <2>1. /\ Eases(port, port', r, "success") /\ port'.jobs = port.jobs /\ port'.job = port.job
      BY <1>1, <1>3, PostedEases DEF Outcomes
    <2>2. FlowInv'
      BY <1>1, <2>1 DEF IInv, FlowInv
    <2>3. Honest
      <3>1. \A q \in Requests : SuccessPosted(q) => q = r
        BY <2>1 DEF Eases, SuccessPosted
      <3>2. lease[r].sess = epoch.sess /\ (r \notin Creates => lease[r].gen = epoch.gen)
        BY <1>3 DEF MayPost, Current, Holds
      <3>3. \A q \in Requests : writes'[q] > writes[q] => lease[q] = epoch
        BY <1>1, Unsent
      <3> QED
        BY <3>1, <3>2, <3>3 DEF Honest
    <2> QED
      BY <1>1, <1>2, <1>3, <2>1, <2>2, <2>3, DeliveryStep
  <1>4. CASE (port' = Closed(port) \/ port' = port) /\ Retired(r)
    <2>1. /\ Eases(port, port', r, "success") /\ port'.toPage = port.toPage
          /\ port'.job = "idle" \/ (port'.jobs = port.jobs /\ port'.job = port.job)
      <3>1. CASE port' = Closed(port)
        BY <1>1, <3>1, ClosedEases
      <3>2. CASE port' = port
        BY <1>1, <3>2 DEF Eases
      <3> QED
        BY <1>4, <3>1, <3>2
    <2>2. FlowInv'
      BY <1>1, <2>1 DEF IInv, FlowInv, Active
    <2>3. Honest
      BY <1>1, <2>1, Silent
    <2> QED
      BY <1>1, <1>2, <1>4, <2>1, <2>2, <2>3, DeliveryStep
  <1> QED
    BY <1>3, <1>4 DEF PostSuccess

LEMMA SessionChangesKept ==
    ASSUME IInv, SessionChanges
    PROVE  IInv' /\ Honest
PROOF
  <1>1. UNCHANGED <<page, bridge, port, flow, rec, lease, run, task, out, vault, writes>>
    BY DEF SessionChanges, document, ceremonies
  <1>2. epoch' \in Snapshots /\ trouble' \in 0..MaxTroubles
    BY LimitsAssumption DEF SessionChanges, Disturb, IInv, Types, Snapshots
  <1>3. Types'
    BY <1>1, <1>2 DEF IInv, Types
  <1>4. "accepted" \notin Outcomes
    BY DEF Outcomes
  <1> QED
    BY <1>1, <1>3, <1>4, Unmoved, PortStep DEF Heard, Early, ceremonies

\* The browser stops the worker: every ceremony ends at once.
LEMMA RestartKept ==
    ASSUME IInv, Restart
    PROVE  IInv' /\ Honest
PROOF
  <1>1. /\ flow' = NoFlow /\ port' = Closed(port) /\ out' = {}
        /\ rec' = [r \in Requests |-> Recovered(r)]
        /\ run' = [r \in Requests |-> NoRun]
        /\ task' = [r \in Requests |-> "none"]
        /\ vault' = [r \in Requests |-> IF vault[r] = "queued" THEN "refused" ELSE vault[r]]
        /\ UNCHANGED <<page, bridge, lease, epoch, writes>>
    BY DEF Restart, document
  <1>2. Shape(port) /\ Eases(port, port', None, "accepted") /\ port'.job = "idle"
    BY <1>1, ClosedEases DEF IInv, PortInv
  <1>3. \A r \in Requests : Recovered(r) \in States
    BY DEF Recovered, Aborted, Interrupted, States, Terminal, IInv, Types
  <1>4. Types'
    <2>1. trouble' \in 0..MaxTroubles
      BY LimitsAssumption DEF Restart, Disturb, IInv, Types
    <2>2. NoFlow \in FlowRec /\ NoRun \in RunRec
      BY DEF NoFlow, FlowRec, NoRun, RunRec
    <2>3. rec' \in [Requests -> States]
      BY <1>1, <1>3
    <2> QED
      BY <1>1, <2>1, <2>2, <2>3 DEF IInv, Types, Tasks
  <1>5. FlowInv'
    BY <1>1, <1>2 DEF FlowInv, NoFlow, Active
  <1>6. \A q : Waits(port', q) => Waits(port, q)
    BY <1>2 DEF Eases
  <1>7. PortInv'
    BY <1>1, <1>2, NoneShape DEF IInv, PortInv, Eases, Closed
  <1>8. \A q \in Requests, k \in Outcomes : Heard(q, k)' => Heard(q, k)
    BY <1>1, <1>2 DEF Heard, Eases, Outcomes
  <1>9. ASSUME NEW r \in Requests PROVE RequestInv(r)'
    <2>1. /\ task'[r] = "none" /\ run'[r].on = FALSE /\ writes'[r] = writes[r]
          /\ vault'[r] = (IF vault[r] = "queued" THEN "refused" ELSE vault[r])
          /\ rec'[r] = Recovered(r) /\ flow'.req # r
      BY <1>1, RequestsAssumption DEF NoRun, NoFlow
    <2>2. RequestInv(r)
      BY DEF IInv
    <2>3. Unbegun(r)' => Unbegun(r)
      BY <1>1, <1>6 DEF Unbegun
    <2>4. Untouched(r) => Untouched(r)'
      BY <1>8, <2>1 DEF Untouched, Recovered, Active
    <2>5. BeginInv(r)'
      BY <2>1, <2>2, <2>3, <2>4 DEF RequestInv, BeginInv, Early
    <2>6. ASSUME r \in Creates PROVE CreateInv(r)'
      <3>1. /\ rec[r] = "awaiting" => rec'[r] = "failed"
            /\ rec[r] = "executing" => rec'[r] = "uncertain"
            /\ rec[r] \notin Active => rec'[r] = rec[r]
        BY <2>1, <2>6 DEF Recovered, Aborted, Interrupted, Active
      <3>2. WriteInv(r) /\ HeardInv(r)
        BY <2>2, <2>6 DEF RequestInv, CreateInv
      <3>3. WriteInv(r)'
        BY <2>1, <3>1, <3>2 DEF WriteInv, Active
      <3>4. HeardInv(r)'
        BY <1>8, <2>1, <3>1, <3>2 DEF HeardInv, Outcomes, Active
      <3> QED
        BY <3>3, <3>4 DEF CreateInv
    <2> QED
      BY <2>5, <2>6 DEF RequestInv
  <1>10. Honest
    BY <1>1, <1>2, Silent
  <1> QED
    BY <1>4, <1>5, <1>7, <1>9, <1>10 DEF IInv

-----------------------------------------------------------------------------
(* The theorems.                                                           *)

LEMMA InitHolds == Init => IInv
PROOF
  <1> SUFFICES ASSUME Init PROVE IInv
    OBVIOUS
  <1>1. /\ port = NoPort /\ flow = NoFlow /\ out = {} /\ Shape(NoPort)
        /\ NoPort.jobs = <<>> /\ NoPort.toPage = <<>> /\ NoPort.job = "idle"
    BY NoneShape DEF Init
  <1>2. \A r \in Requests : /\ page[r] = "new" /\ ~bridge[r].sent /\ rec[r] = "none"
                            /\ task[r] = "none" /\ ~run[r].on /\ vault[r] = "idle"
                            /\ writes[r] = 0
    BY DEF Init, NoRun
  <1>3. Types
    BY <1>1, LimitsAssumption
       DEF Init, Types, Pages, BridgeRec, NoFlow, FlowRec, States, Snapshots, NoRun, RunRec, Tasks
  <1>4. PortInv
    BY <1>1, <1>2 DEF PortInv
  <1>5. FlowInv
    BY <1>1 DEF FlowInv, NoFlow, Active
  <1>6. ASSUME NEW r \in Requests PROVE RequestInv(r)
    <2>1. \A k \in Outcomes : ~Heard(r, k)
      BY <1>1, <1>2 DEF Heard, Carries, Outcomes
    <2>2. Untouched(r) /\ flow.req # r
      BY <1>1, <1>2, <2>1, RequestsAssumption DEF Untouched, NoFlow
    <2> QED
      BY <2>2 DEF RequestInv, BeginInv, CreateInv, WriteInv, HeardInv, Untouched, Outcomes
  <1> QED
    BY <1>3, <1>4, <1>5, <1>6 DEF IInv

LEMMA StepKept == IInv /\ [Next]_vars => IInv' /\ [Honest]_vars
PROOF
  <1> SUFFICES ASSUME IInv, [Next]_vars PROVE IInv' /\ [Honest]_vars
    OBVIOUS
  <1>1. CASE UNCHANGED vars
    <2>1. /\ UNCHANGED <<page, bridge, port, flow, rec, lease, run, task, out, epoch, vault, writes>>
          /\ trouble' = trouble
      BY <1>1 DEF vars
    <2>2. Types'
      BY <2>1 DEF IInv, Types
    <2>3. "accepted" \notin Outcomes
      BY DEF Outcomes
    <2>4. IInv'
      BY <2>1, <2>2, <2>3, Unmoved, PortStep DEF Heard, Early, ceremonies
    <2> QED
      BY <1>1, <2>4
  <1>2. CASE Page
    BY <1>2, AskKept, GiveUpKept DEF Page
  <1>3. CASE Bridge
    BY <1>3, ConnectKept, BridgeLosesKept, HearsAcceptedKept, HearsBusyKept, HearsOutcomeKept
       DEF Bridge
  <1>4. CASE Begin
    BY <1>4, BeginTakesKept, DiscoverKept, RegisterKept, CheckKept, NoMatchKept, FlowOpensKept
       DEF Begin
  <1>5. CASE Resume
    BY <1>5, ResumeTakesKept, ResumeFindsKept, ResumeDeliveredKept, ResumeAssertsKept DEF Resume
  <1>6. CASE \E r \in Requests : Approval(r)
    BY <1>6, ApproveKept, DeclineKept, UseBrowserKept, ClaimKept, ExecuteKept, CreateAnswersKept,
       GetAnswersKept, SettleKept DEF Approval
  <1>7. CASE \E r \in Requests : Deadline(r) \/ Sends(r) \/ Lands(r)
    BY <1>7, ExpiresKept, NoticesKept, RevalidateKept, SendsKept, LandsKept DEF Deadline
  <1>8. CASE Cancel \/ Acknowledge \/ PortDrops \/ SessionChanges \/ Restart
    BY <1>8, CancelKept, AcknowledgeKept, PortDropsKept, SessionChangesKept, RestartKept
  <1>9. CASE \E o \in out : Deliver(o) \/ PostSuccess(o)
    BY <1>9, DeliverKept, PostSuccessKept
  <1> QED
    BY <1>1, <1>2, <1>3, <1>4, <1>5, <1>6, <1>7, <1>8, <1>9 DEF Next

\* The invariant of the page, its port, the begin under way and the ceremonies
\* holds for any calls, connections and disturbances.
THEOREM PasskeyInvariant == Spec => []IInv
PROOF
  <1>1. IInv /\ [Next]_vars => IInv'
    BY StepKept
  <1> QED
    BY InitHolds, <1>1, PTL DEF Spec

\* Every variable keeps its type (website-passkey-coordinator.ts,
\* passkey-ceremony-registry.ts, webauthn-bridge.ts).
THEOREM PasskeyTypes == Spec => []TypeOK
PROOF
  <1>1. IInv => TypeOK
    <2> SUFFICES ASSUME IInv PROVE TypeOK
      OBVIOUS
    <2>1. Shape(port)
      BY DEF IInv, PortInv
    <2> QED
      BY <2>1, Fields DEF IInv, Types, TypeOK, Pages, States, Tasks, FlowRec
  <1> QED
    BY PasskeyInvariant, <1>1, PTL

\* What the page and the registry say of a credential is so: a success is one
\* the server stored, a failure or a fallback is one no write was sent for, and
\* a write is sent at most once, whatever is aborted, expires, is lost or
\* restarts meanwhile (complete, markFailed, markUncertain, recoverStartup).
THEOREM ToldTruth == Spec => []ToldIsTrue
PROOF
  <1>1. IInv => ToldIsTrue
    <2> SUFFICES ASSUME IInv, NEW r \in Creates
                 PROVE  /\ writes[r] <= 1
                        /\ page[r] = "success" => vault[r] = "stored"
                        /\ \/ page[r] \in {"failed", "fallback"}
                           \/ rec[r] \in {"awaiting", "failed", "fallback"}
                           => vault[r] \in {"idle", "refused"}
      BY DEF ToldIsTrue
    <2>1. WriteInv(r) /\ HeardInv(r)
      BY RequestsAssumption DEF IInv, RequestInv, CreateInv
    <2> QED
      BY <2>1 DEF WriteInv, HeardInv, Heard
  <1> QED
    BY PasskeyInvariant, <1>1, PTL

\* A credential is written, and a result handed to the page, only in the
\* session and over the vault in which its ceremony was registered
\* (assertCurrent of the captured snapshot, assertAuthorized,
\* assertDeliveryCurrent).
THEOREM SessionKept == Spec => SameSession
PROOF
  <1>1. IInv /\ [Next]_vars => [\A r \in Requests :
          /\ writes'[r] > writes[r] => lease[r] = epoch
          /\ SuccessPosted(r) => lease[r].sess = epoch.sess
             /\ (r \notin Creates => lease[r].gen = epoch.gen)]_vars
    BY StepKept DEF Honest
  <1> QED
    BY PasskeyInvariant, <1>1, PTL DEF Spec, SameSession
=============================================================================
