-------------------------- MODULE WebsitePasskeys --------------------------
(***************************************************************************)
(* Passkey ceremonies of one web page: the page's intercepted calls        *)
(* (page-webauthn.ts), the content script's bridge (webauthn-bridge.ts),   *)
(* the port to the extension worker (website-passkey-port-handler.ts), the *)
(* coordinator and its durable registry (website-passkey-coordinator.ts,   *)
(* passkey-ceremony-registry.ts) and the vault adapter                     *)
(* (website-passkey-production.ts).                                        *)
(*                                                                         *)
(* A request is asked once, so a ceremony is named by its request.  The    *)
(* page and the bridge live in one document and take their steps together. *)
(* A session is a number that moves with every lock, switch or revoked     *)
(* permission; a generation is one of the vault's cache.                   *)
(***************************************************************************)
EXTENDS Naturals, Sequences, FiniteSets, SequencesExt

CONSTANTS
    Calls,         \* the page's WebAuthn calls, in the order it makes them
    Creates,       \* those that create a credential; the others use one
    None,          \* no request
    MaxPorts,      \* bound: connections of the bridge
    MaxTroubles    \* bound: lost ports, lost answers, refused writes, session
                   \* changes and restarts together

Requests == Range(Calls)

ASSUME RequestsAssumption ==
    /\ Calls \in Seq(Requests) /\ IsInjective(Calls)
    /\ Creates \subseteq Requests /\ None \notin Requests
ASSUME LimitsAssumption == MaxPorts \in Nat /\ MaxTroubles \in Nat

VARIABLES
    page,      \* what the page's promise was told
    bridge,    \* what the content script remembers of a request
    port,      \* both ends of the bridge's current port
    flow,      \* the begin that is being prepared
    rec,       \* the durable registry: the state of each ceremony
    lease,     \* the session and generation a ceremony was registered under
    run,       \* the coordinator's runtime of a ceremony
    task,      \* how far the approval of a ceremony has come
    out,       \* deliveries under way
    epoch,     \* the current session and vault generation
    vault,     \* what became of the credential a ceremony creates
    writes,    \* how often its write was sent
    trouble    \* disturbances so far

vars == <<page, bridge, port, flow, rec, lease, run, task, out, epoch, vault,
          writes, trouble>>

document == <<page, bridge>>
ceremonies == <<rec, lease, run, task, out>>
world == <<epoch, vault, writes>>

Active == {"awaiting", "executing"}
Terminal == {"completed", "failed", "uncertain", "fallback"}
Outcomes == {"success", "failed", "uncertain", "fallback"}
Answers == {"found", "missed", "committed", "unknown", "refused", "stopped"}
Bindings == {"free", "bound", "accepted", "outcome", "acked"}
Message == [kind : Outcomes \cup {"accepted", "busy"}, req : Requests]

NoFlow == [req |-> None, port |-> 0, at |-> "none", resumed |-> FALSE,
           sess |-> 0, gen |-> 0]
NoRun == [on |-> FALSE, port |-> 0, win |-> FALSE]
NoPort == [no |-> 0, open |-> FALSE, up |-> FALSE, jobs |-> <<>>, job |-> "idle",
           ctl |-> <<>>, toPage |-> <<>>, bind |-> [r \in Requests |-> "free"]]

Init ==
    /\ page = [r \in Requests |-> "new"]
    /\ bridge = [r \in Requests |->
                   [sent |-> FALSE, accepted |-> FALSE, bound |-> 0, preflight |-> FALSE]]
    /\ port = NoPort
    /\ flow = NoFlow
    /\ rec = [r \in Requests |-> "none"]
    /\ lease = [r \in Requests |-> [sess |-> 0, gen |-> 0]]
    /\ run = [r \in Requests |-> NoRun]
    /\ task = [r \in Requests |-> "none"]
    /\ out = {}
    /\ epoch = [sess |-> 0, gen |-> 0]
    /\ vault = [r \in Requests |-> "idle"]
    /\ writes = [r \in Requests |-> 0]
    /\ trouble = 0

Disturb == trouble < MaxTroubles /\ trouble' = trouble + 1

-----------------------------------------------------------------------------
(* What the steps below are made of.                                       *)

(* assertCurrent of a captured security snapshot; `rotated` when a change  *)
(* of the vault's generation is allowed.                                   *)
Holds(snapshot, rotated) ==
    /\ snapshot.sess = epoch.sess
    /\ rotated \/ snapshot.gen = epoch.gen

(* The same for a ceremony whose record was read in state s.               *)
Current(r, s) ==
    Holds(lease[r], r \in Creates /\ s \in {"executing", "completed"})

OutcomeOf(s) == IF s = "completed" THEN "success" ELSE s

(* A ceremony that may have written its credential is never failed.        *)
Interrupted(r) == IF r \in Creates THEN "uncertain" ELSE "failed"

(* mutant of Aborted: the abort forgets that the write may be under way.   *)
AbortedAnyhow(r) == "failed"

(* registry.abort, invalidateContext and expiry of an active ceremony.     *)
Aborted(r) == IF rec[r] = "awaiting" THEN "failed" ELSE Interrupted(r)

Posted(p, kind, r) == [p EXCEPT !.toPage = Append(@, [kind |-> kind, req |-> r])]

(* The worker's end goes: the channel, the bindings and the queued messages. *)
Closed(p) == [NoPort EXCEPT !.no = p.no, !.open = p.open, !.toPage = p.toPage]

Listening(r) == port.up /\ port.bind[r] \in {"bound", "accepted", "outcome"}

(* bindServerResponse: a refusal only answers a request that has no        *)
(* ceremony on this port.                                                  *)
Rebound(b, kind) ==
    IF kind = "busy" THEN "free"
    ELSE IF kind = "accepted" /\ b # "outcome" THEN "accepted" ELSE "outcome"

(* postBoundResponse: the handler of the message at the head answers it.   *)
Answered(r, kind) ==
    LET p == [port EXCEPT !.jobs = Tail(@), !.job = "idle"]
    IN  IF ~Listening(r) THEN p
        ELSE IF kind = "busy" /\ port.bind[r] # "bound" THEN Closed(port)
        ELSE Posted([p EXCEPT !.bind[r] = Rebound(@, kind)], kind, r)

Delivery(r, s, p, by) ==
    [req |-> r, kind |-> OutcomeOf(s), port |-> p, at |-> "deliver", by |-> by]

(* #finish: the runtime goes, and the outcome goes to the page.  Without a *)
(* runtime it is delivered to whichever port the document has.             *)
Finished(r, s, by) ==
    /\ run' = [run EXCEPT ![r] = NoRun]
    /\ out' = out \cup {Delivery(r, s, IF run[r].on THEN run[r].port ELSE port.no, by)}

Abort(r) ==
    /\ rec' = [rec EXCEPT ![r] = Aborted(r)]
    /\ Finished(r, Aborted(r), "worker")

-----------------------------------------------------------------------------
(* The page and the bridge.                                                *)

(* The requests the bridge knows.                                          *)
Asked == {r \in Requests : page[r] # "new"}

(* The bridge keeps requests in the order in which the page made them.     *)
Before(q, r) == \E i, j \in DOMAIN Calls : i < j /\ Calls[i] = q /\ Calls[j] = r
InOrder(S) ==
    {s \in [1..Cardinality(S) -> S] : \A i, j \in DOMAIN s : i < j => Before(s[i], s[j])}

(* navigator.credentials.get or create is called.                          *)
Ask(r) ==
    /\ r \notin Asked
    /\ \A q \in Requests : Before(q, r) => q \in Asked
    /\ page' = [page EXCEPT ![r] = "asked"]
    /\ bridge' = [bridge EXCEPT ![r].sent = port.open]
    /\ port' = IF port.up
               THEN [port EXCEPT !.jobs = Append(@, [kind |-> "begin", req |-> r])]
               ELSE port
    /\ UNCHANGED <<flow, ceremonies, world, trouble>>

(* The caller aborts, or the page's own timer ends.                        *)
GiveUp(r) ==
    /\ page[r] = "asked"
    /\ page' = [page EXCEPT ![r] = "gone"]
    /\ port' = IF port.up /\ bridge[r].accepted /\ bridge[r].bound = port.no
               THEN [port EXCEPT !.ctl = Append(@, [kind |-> "cancel", req |-> r])]
               ELSE port
    /\ UNCHANGED <<bridge, flow, ceremonies, world, trouble>>

(* Connect, and take up every request that has no refusal: one the worker  *)
(* may have seen is resumed, never begun again.                            *)
Connect ==
    LET again == {r \in Asked : ~bridge[r].preflight}
    IN  /\ ~port.open
        /\ port.no < MaxPorts
        /\ \E q \in InOrder(again) :
              port' = [NoPort EXCEPT
                         !.no = port.no + 1, !.open = TRUE, !.up = TRUE,
                         !.jobs = [i \in DOMAIN q |->
                                     [kind |-> IF bridge[q[i]].sent THEN "resume" ELSE "begin",
                                      req |-> q[i]]]]
        /\ bridge' = [r \in Requests |->
                        [bridge[r] EXCEPT !.sent = @ \/ r \in again]]
        /\ UNCHANGED <<page, flow, ceremonies, world, trouble>>

(* The browser drops the port: a suspended page, a navigation that is      *)
(* taken back.                                                             *)
PortDrops ==
    /\ Disturb
    /\ port.up
    /\ port' = Closed(port)
    /\ UNCHANGED <<document, flow, ceremonies, world>>

BridgeLoses ==
    /\ port.open
    /\ ~port.up
    /\ port' = [port EXCEPT !.open = FALSE, !.toPage = <<>>]
    /\ UNCHANGED <<document, flow, ceremonies, world, trouble>>

Received == port.toPage # <<>> /\ port.open
Taken == [port EXCEPT !.toPage = Tail(@)]

(* The worker has a ceremony.  If the page gave up meanwhile, it is        *)
(* cancelled.                                                              *)
HearsAccepted(r) ==
    /\ Received /\ Head(port.toPage) = [kind |-> "accepted", req |-> r]
    /\ bridge' = [bridge EXCEPT ![r].accepted = TRUE, ![r].bound = port.no]
    /\ port' = IF page[r] = "gone" /\ port.up
               THEN [Taken EXCEPT !.ctl = Append(@, [kind |-> "cancel", req |-> r])]
               ELSE Taken
    /\ UNCHANGED <<page, flow, ceremonies, world, trouble>>

(* The worker has no ceremony for the request: the page's promise rejects. *)
HearsBusy(r) ==
    /\ Received /\ Head(port.toPage) = [kind |-> "busy", req |-> r]
    /\ bridge' = [bridge EXCEPT ![r].preflight = TRUE, ![r].bound = 0]
    /\ page' = [page EXCEPT ![r] = IF @ = "asked" THEN "refused" ELSE @]
    /\ port' = Taken
    /\ UNCHANGED <<flow, ceremonies, world, trouble>>

(* An outcome settles the page's promise and is acknowledged.              *)
HearsOutcome(r) ==
    /\ Received /\ Head(port.toPage).req = r
    /\ Head(port.toPage).kind \in Outcomes
    /\ page' = [page EXCEPT ![r] = IF @ = "asked" THEN Head(port.toPage).kind ELSE @]
    /\ bridge' = [bridge EXCEPT ![r].bound = port.no]
    /\ port' = IF port.up
               THEN [Taken EXCEPT !.ctl = Append(@, [kind |-> "ack", req |-> r])]
               ELSE Taken
    /\ UNCHANGED <<flow, ceremonies, world, trouble>>

-----------------------------------------------------------------------------
(* Begin: one request of the document is prepared at a time.               *)

NextJob(kind) ==
    /\ port.up /\ port.job = "idle"
    /\ port.jobs # <<>> /\ Head(port.jobs).kind = kind

BeginTakes ==
    LET r == Head(port.jobs).req
    IN  /\ NextJob("begin")
        /\ port' = IF flow = NoFlow
                   THEN [port EXCEPT !.bind[r] = "bound", !.job = "flow"]
                   ELSE Posted([port EXCEPT !.jobs = Tail(@)], "busy", r)
        /\ flow' = IF flow = NoFlow
                   THEN [NoFlow EXCEPT !.req = r, !.port = port.no, !.at = "discover",
                                       !.sess = epoch.sess, !.gen = epoch.gen]
                   ELSE flow
        /\ UNCHANGED <<document, ceremonies, world, trouble>>

(* The prepared begin ends: whoever of this port waits for it is answered. *)
FlowAnswers(kind) ==
    /\ flow' = NoFlow
    /\ port' = IF port.up /\ port.job = "flow" THEN Answered(flow.req, kind) ELSE port

(* The vault is asked for the choices.                                     *)
Discover ==
    /\ flow.at = "discover"
    /\ \/ /\ Holds(flow, FALSE)
          /\ flow' = [flow EXCEPT !.at = "register"]
          /\ UNCHANGED port
       \/ /\ ~Holds(flow, FALSE)
          /\ FlowAnswers("busy")
    /\ UNCHANGED <<document, ceremonies, world, trouble>>

(* registry.begin: one active ceremony per document.                       *)
Register ==
    LET r == flow.req
        busy == \E s \in Requests : rec[s] \in Active
    IN  /\ flow.at = "register"
        /\ \/ /\ ~busy
              /\ rec' = [rec EXCEPT ![r] = "awaiting"]
              /\ lease' = [lease EXCEPT ![r] = [sess |-> flow.sess, gen |-> flow.gen]]
              /\ flow' = [flow EXCEPT !.at = "check"]
              /\ UNCHANGED <<port, trouble>>
           \/ /\ busy
              /\ FlowAnswers("busy")
              /\ UNCHANGED <<rec, lease, trouble>>
           \/ /\ Disturb                              \* the write was refused
              /\ FlowAnswers("busy")
              /\ UNCHANGED <<rec, lease>>
        /\ UNCHANGED <<document, run, task, out, world>>

(* #shouldOpenApproval: the document still has the port that began, or a   *)
(* newer one that resumed.                                                 *)
OpensApproval == port.up /\ (port.no = flow.port \/ flow.resumed)

(* The ceremony is registered and the snapshot is asserted once more.      *)
Check ==
    LET r == flow.req
    IN  /\ flow.at = "check"
        /\ \/ /\ ~Holds(flow, FALSE)
              /\ rec' = [rec EXCEPT ![r] = IF @ = "awaiting" THEN "failed" ELSE @]
              /\ FlowAnswers("failed")
              /\ UNCHANGED run
           \/ /\ Holds(flow, FALSE)
              /\ run' = [run EXCEPT ![r] = [NoRun EXCEPT !.on = TRUE, !.port = flow.port]]
              /\ UNCHANGED rec
              /\ \/ /\ r \notin Creates                \* no credential matches
                    /\ flow' = [flow EXCEPT !.at = "nomatch"]
                    /\ UNCHANGED port
                 \/ /\ OpensApproval
                    /\ flow' = [flow EXCEPT !.at = "window"]
                    /\ UNCHANGED port
                 \/ /\ ~OpensApproval
                    /\ FlowAnswers("accepted")
        /\ UNCHANGED <<document, lease, task, out, world, trouble>>

(* markFallback of a use no credential matches: the browser takes over.    *)
NoMatch ==
    LET r == flow.req
        s == IF rec[r] = "awaiting" THEN "fallback" ELSE rec[r]
    IN  /\ flow.at = "nomatch"
        /\ rec' = [rec EXCEPT ![r] = s]
        /\ run' = [run EXCEPT ![r] = NoRun]
        /\ FlowAnswers(IF s \in Terminal THEN OutcomeOf(s) ELSE "busy")
        /\ UNCHANGED <<document, lease, task, out, world, trouble>>

(* #openApproval has a window, or could not open one.                      *)
WindowOpened(r) ==
    /\ Current(r, "awaiting")
    /\ rec[r] = "awaiting"
    /\ run' = [run EXCEPT ![r].win = run[r].on]
    /\ UNCHANGED <<rec, trouble>>

WindowFailed(r) ==
    /\ \/ ~Current(r, "awaiting") /\ UNCHANGED trouble
       \/ Current(r, "awaiting") /\ rec[r] = "awaiting" /\ Disturb
    /\ rec' = [rec EXCEPT ![r] = IF @ \in Active THEN Aborted(r) ELSE @]
    /\ run' = [run EXCEPT ![r] = NoRun]

(* It was settled while the window opened.                                 *)
WindowLate(r) ==
    /\ Current(r, "awaiting")
    /\ rec[r] # "awaiting"
    /\ run' = [run EXCEPT ![r] = IF rec[r] \in Terminal THEN NoRun ELSE @]
    /\ UNCHANGED <<rec, trouble>>

(* What a request is told of a ceremony in state s.                        *)
Told(s) == IF s \in Active \cup {"none"} THEN "accepted" ELSE OutcomeOf(s)

FlowOpens ==
    LET r == flow.req
    IN  /\ flow.at = "window"
        /\ WindowOpened(r) \/ WindowFailed(r) \/ WindowLate(r)
        /\ FlowAnswers(Told(rec'[r]))
        /\ UNCHANGED <<document, lease, task, out, world>>

-----------------------------------------------------------------------------
(* Resume: a new port of the document asks for a request begun before.     *)

ResumeTakes ==
    LET r == Head(port.jobs).req
        bound == [port EXCEPT !.bind[r] = "bound"]
    IN  /\ NextJob("resume")
        /\ \/ /\ flow.req = r                           \* join the preparation
              /\ flow' = [flow EXCEPT !.resumed = TRUE]
              /\ port' = [bound EXCEPT !.job = "flow"]
           \/ /\ flow.req \notin {r, None}              \* another one is prepared
              /\ port' = Posted([port EXCEPT !.jobs = Tail(@)], "busy", r)
              /\ UNCHANGED flow
           \/ /\ flow = NoFlow
              /\ port' = [bound EXCEPT !.job = "find"]
              /\ UNCHANGED flow
        /\ UNCHANGED <<document, ceremonies, world, trouble>>

Resuming(job) == port.up /\ port.job = job

(* #findExisting and #messageForTerminal.                                  *)
ResumeFinds ==
    LET r == Head(port.jobs).req
    IN  /\ Resuming("find")
        /\ \/ /\ rec[r] = "none"
              /\ port' = Answered(r, "busy")
              /\ UNCHANGED <<run, out>>
           \/ /\ rec[r] \in Terminal \ {"completed"}
              /\ run' = [run EXCEPT ![r] = NoRun]
              /\ port' = Answered(r, OutcomeOf(rec[r]))
              /\ UNCHANGED out
           \/ /\ rec[r] = "completed"                   \* delivered apart
              /\ Finished(r, "completed", "resume")
              /\ port' = [port EXCEPT !.job = "delivered"]
           \/ /\ rec[r] \in Active
              /\ port' = [port EXCEPT !.job = rec[r]]
              /\ UNCHANGED <<run, out>>
        /\ UNCHANGED <<document, flow, rec, lease, task, world, trouble>>

(* #messageForExisting: the ceremony, read as active in state s, is        *)
(* asserted again, gets its window if it has none, and belongs to this     *)
(* port from now on.                                                       *)
ResumeAsserts(s) ==
    LET r == Head(port.jobs).req
        ends == IF rec[r] \in Active THEN Aborted(r) ELSE rec[r]
        opens == s = "awaiting" /\ ~run[r].win
    IN  /\ Resuming(s)
        /\ \/ /\ \/ ~Current(r, s) /\ UNCHANGED trouble
                 \/ opens /\ rec[r] = "awaiting" /\ Disturb   \* no window opens
              /\ rec' = [rec EXCEPT ![r] = ends]
              /\ run' = [run EXCEPT ![r] = NoRun]
              /\ port' = Answered(r, IF ends = "completed" THEN "busy" ELSE Told(ends))
           \/ /\ Current(r, s)
              /\ opens /\ rec[r] \in Terminal
              /\ port' = Answered(r, IF rec[r] = "completed" THEN "busy" ELSE Told(rec[r]))
              /\ UNCHANGED <<rec, run, trouble>>
           \/ /\ Current(r, s)
              /\ ~(opens /\ rec[r] \in Terminal)
              /\ run' = IF run[r].on
                        THEN [run EXCEPT ![r].port = port.no, ![r].win = TRUE]
                        ELSE run
              /\ port' = Answered(r, "accepted")
              /\ UNCHANGED <<rec, trouble>>
        /\ UNCHANGED <<document, flow, lease, task, out, world>>

(* The outcome went its own way: the handler has nothing left to answer.   *)
ResumeDelivered ==
    LET r == Head(port.jobs).req
    IN  /\ Resuming("delivered")
        /\ ~\E o \in out : o.req = r /\ o.by = "resume"
        /\ port' = Answered(r, "busy")
        /\ UNCHANGED <<document, flow, ceremonies, world, trouble>>

-----------------------------------------------------------------------------
(* Cancel and acknowledge, which overtake begins and resumes.              *)

Control(kind) == port.up /\ port.ctl # <<>> /\ Head(port.ctl).kind = kind

(* A message that does not fit the port's bindings closes the port.        *)
Misfits(r, kind) ==
    IF kind = "cancel" THEN port.bind[r] \notin {"accepted", "outcome"}
    ELSE port.bind[r] \notin {"outcome", "acked"}

Cancel ==
    LET r == Head(port.ctl).req
    IN  /\ Control("cancel")
        /\ \/ /\ Misfits(r, "cancel")
              /\ port' = Closed(port)
              /\ UNCHANGED <<rec, run, out>>
           \/ /\ ~Misfits(r, "cancel")
              /\ port' = [port EXCEPT !.ctl = Tail(@)]
              /\ IF rec[r] \in Active THEN Abort(r) ELSE UNCHANGED <<rec, run, out>>
        /\ UNCHANGED <<document, flow, lease, task, world, trouble>>

Acknowledge ==
    LET r == Head(port.ctl).req
        exact == ~Misfits(r, "ack") /\ rec[r] \in Terminal
    IN  /\ Control("ack")
        /\ port' = IF Misfits(r, "ack") THEN Closed(port)
                   ELSE [port EXCEPT !.ctl = Tail(@),
                                     !.bind[r] = IF exact THEN "acked" ELSE @]
        /\ rec' = [rec EXCEPT ![r] = IF exact THEN "none" ELSE @]
        /\ run' = [run EXCEPT ![r] = IF exact THEN NoRun ELSE @]
        /\ UNCHANGED <<document, flow, lease, task, out, world, trouble>>

-----------------------------------------------------------------------------
(* The approval window.                                                    *)

Shown(r) == run[r].on /\ run[r].win

(* approve, up to the claim.                                               *)
Approve(r) ==
    /\ Shown(r) /\ rec[r] = "awaiting" /\ task[r] = "none"
    /\ \/ /\ Current(r, "awaiting")
          /\ task' = [task EXCEPT ![r] = "claim"]
          /\ UNCHANGED <<rec, run, out>>
       \/ /\ ~Current(r, "awaiting")
          /\ Abort(r)
          /\ UNCHANGED task
    /\ UNCHANGED <<document, port, flow, lease, world, trouble>>

(* The user cancels or closes the window.                                  *)
Decline(r) ==
    /\ Shown(r) /\ rec[r] \in Active
    /\ Abort(r)
    /\ UNCHANGED <<document, port, flow, lease, task, world, trouble>>

(* fallbackOnce: the user hands the call to the browser.                   *)
UseBrowser(r) ==
    /\ Shown(r) /\ rec[r] = "awaiting"
    /\ rec' = [rec EXCEPT ![r] = "fallback"]
    /\ Finished(r, "fallback", "worker")
    /\ UNCHANGED <<document, port, flow, lease, task, world, trouble>>

(* registry.claim.                                                         *)
Claim(r) ==
    /\ task[r] = "claim"
    /\ rec' = [rec EXCEPT ![r] = IF @ = "awaiting" THEN "executing" ELSE @]
    /\ task' = [task EXCEPT ![r] = IF rec[r] = "awaiting" THEN "execute" ELSE "none"]
    /\ UNCHANGED <<document, port, flow, lease, run, out, world, trouble>>

(* #execute, up to the call of the vault.                                  *)
Execute(r) ==
    /\ task[r] = "execute"
    /\ \/ /\ ~Current(r, "awaiting")
          /\ task' = [task EXCEPT ![r] = "stopped"]
          /\ UNCHANGED vault
       \/ /\ Current(r, "awaiting") /\ rec[r] # "executing"
          /\ task' = [task EXCEPT ![r] = "none"]
          /\ UNCHANGED vault
       \/ /\ Current(r, "awaiting") /\ rec[r] = "executing"
          /\ task' = [task EXCEPT ![r] = "call"]
          /\ vault' = [vault EXCEPT ![r] = IF r \in Creates THEN "queued" ELSE @]
    /\ UNCHANGED <<document, port, flow, rec, lease, run, out, epoch, writes, trouble>>

-----------------------------------------------------------------------------
(* The vault.  A write that was queued goes its way whatever becomes of    *)
(* its ceremony.                                                           *)

(* mutant of MayWrite: the write is not guarded by the ceremony's session. *)
MayWriteAnyhow(r) == TRUE

(* assertAuthorized, asked in the same step that sends the request.        *)
MayWrite(r) == Holds(lease[r], FALSE)

Sends(r) ==
    /\ vault[r] = "queued"
    /\ vault' = [vault EXCEPT ![r] = IF MayWrite(r) THEN "sent" ELSE "refused"]
    /\ writes' = [writes EXCEPT ![r] = IF MayWrite(r) THEN @ + 1 ELSE @]
    /\ UNCHANGED <<document, port, flow, ceremonies, epoch, trouble>>

(* The server stores the credential, or refuses it.                        *)
Lands(r) ==
    /\ vault[r] = "sent"
    /\ \E answer \in {"stored", "refused"} : vault' = [vault EXCEPT ![r] = answer]
    /\ UNCHANGED <<document, port, flow, ceremonies, epoch, writes, trouble>>

(* createPasskey returns; a stored credential has moved the cache.         *)
CreateAnswers(r) ==
    /\ task[r] = "call" /\ r \in Creates
    /\ \/ /\ vault[r] = "stored"
          /\ task' = [task EXCEPT ![r] = "committed"]
          /\ epoch' = [epoch EXCEPT !.gen = @ + 1]
          /\ UNCHANGED trouble
       \/ /\ vault[r] = "refused"
          /\ task' = [task EXCEPT ![r] = "refused"]
          /\ UNCHANGED <<epoch, trouble>>
       \/ /\ vault[r] \in {"sent", "stored", "refused"}
          /\ writes[r] > 0 /\ Disturb                  \* the answer is lost
          /\ task' = [task EXCEPT ![r] = "unknown"]
          /\ UNCHANGED epoch
    /\ UNCHANGED <<document, port, flow, rec, lease, run, out, vault, writes>>

(* getPasskeyAssertion returns.                                            *)
GetAnswers(r) ==
    /\ task[r] = "call" /\ r \notin Creates
    /\ \E answer \in {"found", "missed"} : task' = [task EXCEPT ![r] = answer]
    /\ UNCHANGED <<document, port, flow, rec, lease, run, out, world, trouble>>

(* What an answer makes of the ceremony.                                   *)
Settlement(r, answer) ==
    IF answer = "committed" \/ (answer = "found" /\ Current(r, "awaiting")) THEN "completed"
    ELSE IF answer = "unknown" THEN "uncertain" ELSE "failed"

(* complete, markFailed or markUncertain, and #finish.  A success whose    *)
(* write is refused is recorded as an interruption.                        *)
Settle(r) ==
    /\ task[r] \in Answers
    /\ task' = [task EXCEPT ![r] = "none"]
    /\ \/ /\ rec[r] = "executing"
          /\ \/ /\ rec' = [rec EXCEPT ![r] = Settlement(r, task[r])]
                /\ UNCHANGED trouble
             \/ /\ Settlement(r, task[r]) = "completed" /\ Disturb
                /\ rec' = [rec EXCEPT ![r] = Interrupted(r)]
          /\ Finished(r, rec'[r], "worker")
       \/ /\ rec[r] \in Terminal /\ run[r].on
          /\ Finished(r, rec[r], "worker")
          /\ UNCHANGED <<rec, trouble>>
       \/ /\ rec[r] # "executing" /\ ~(rec[r] \in Terminal /\ run[r].on)
          /\ UNCHANGED <<rec, run, out, trouble>>
    /\ UNCHANGED <<document, port, flow, lease, world>>

-----------------------------------------------------------------------------
(* Deadlines and revalidation.                                             *)

(* The deadline passes: the next look at the registry settles the ceremony. *)
Expires(r) ==
    /\ rec[r] \in Active
    /\ rec' = [rec EXCEPT ![r] = Aborted(r)]
    /\ UNCHANGED <<document, port, flow, lease, run, task, out, world, trouble>>

(* The timer, the popup or a browser event finds the ceremony settled.     *)
Notices(r) ==
    /\ run[r].on /\ rec[r] \in Terminal
    /\ Finished(r, rec[r], "worker")
    /\ UNCHANGED <<document, port, flow, rec, lease, task, world, trouble>>

(* getApproval or handleBrowserDocumentChange finds it unauthorized.       *)
Revalidate(r) ==
    /\ run[r].on /\ rec[r] \in Active
    /\ ~Current(r, rec[r])
    /\ Abort(r)
    /\ UNCHANGED <<document, port, flow, lease, task, world, trouble>>

-----------------------------------------------------------------------------
(* Delivery.                                                               *)

(* #retireUndeliverableTerminal.                                           *)
Retired(r) == rec' = [rec EXCEPT ![r] = IF @ \in Terminal THEN "none" ELSE @]

(* The approval window is closed; the outcome goes to its port.  A success *)
(* goes only to the port of its ceremony, and waits for a checkpoint of    *)
(* the vault release gate; one that cannot be delivered is forgotten.      *)
Deliver(o) ==
    LET r == o.req
        exact == Current(r, "completed") /\ port.up /\ port.no = o.port
    IN  /\ o.at = "deliver"
        /\ \/ /\ o.kind # "success"
              /\ out' = out \ {o}
              /\ port' = IF Listening(r)
                         THEN Posted([port EXCEPT !.bind[r] = "outcome"], o.kind, r)
                         ELSE port
              /\ UNCHANGED rec
           \/ /\ o.kind = "success" /\ exact
              /\ out' = (out \ {o})
                         \cup IF Listening(r) THEN {[o EXCEPT !.at = "post"]} ELSE {}
              /\ port' = IF Listening(r) THEN [port EXCEPT !.bind[r] = "outcome"] ELSE port
              /\ UNCHANGED rec
           \/ /\ o.kind = "success" /\ ~exact
              /\ out' = out \ {o}
              /\ Retired(r)
              /\ UNCHANGED port
        /\ UNCHANGED <<document, flow, lease, run, task, world, trouble>>

(* mutant of MayPost: authority is not asked again after the checkpoint.   *)
MayPostAnyhow(r) == TRUE

(* assertDeliveryCurrent, next to the posting of the message.              *)
MayPost(r) == Current(r, "completed")

PostSuccess(o) ==
    LET r == o.req
        open == port.up /\ port.no = o.port
    IN  /\ o.at = "post"
        /\ out' = out \ {o}
        /\ IF open /\ MayPost(r)
           THEN port' = Posted(port, "success", r) /\ UNCHANGED rec
           ELSE port' = (IF open THEN Closed(port) ELSE port) /\ Retired(r)
        /\ UNCHANGED <<document, flow, lease, run, task, world, trouble>>

-----------------------------------------------------------------------------
(* The world around.                                                       *)

SessionChanges ==
    /\ Disturb
    /\ \/ epoch' = [epoch EXCEPT !.sess = @ + 1]
       \/ epoch' = [epoch EXCEPT !.gen = @ + 1]
    /\ UNCHANGED <<document, port, flow, ceremonies, vault, writes>>

(* mutant of Recovered: the next worker takes the interrupted write for    *)
(* one that never was.                                                     *)
RecoveredFailed(r) == IF rec[r] \in Active THEN "failed" ELSE rec[r]

(* registry.recoverStartup.                                                *)
Recovered(r) == IF rec[r] \in Active THEN Aborted(r) ELSE rec[r]

(* The browser stops the worker; the next one recovers the registry before *)
(* it listens.  A write that was queued in its memory is never sent.       *)
Restart ==
    /\ Disturb
    /\ port.no > 0
    /\ port' = Closed(port)
    /\ flow' = NoFlow
    /\ rec' = [r \in Requests |-> Recovered(r)]
    /\ run' = [r \in Requests |-> NoRun]
    /\ task' = [r \in Requests |-> "none"]
    /\ out' = {}
    /\ vault' = [r \in Requests |-> IF vault[r] = "queued" THEN "refused" ELSE vault[r]]
    /\ UNCHANGED <<document, lease, epoch, writes>>

-----------------------------------------------------------------------------
Page == \E r \in Requests : Ask(r) \/ GiveUp(r)

Bridge ==
    \/ Connect \/ BridgeLoses
    \/ \E r \in Requests : HearsAccepted(r) \/ HearsBusy(r) \/ HearsOutcome(r)

Begin == BeginTakes \/ Discover \/ Register \/ Check \/ NoMatch \/ FlowOpens

Resume ==
    \/ ResumeTakes \/ ResumeFinds \/ ResumeDelivered
    \/ \E s \in Active : ResumeAsserts(s)

Approval(r) ==
    \/ Approve(r) \/ Decline(r) \/ UseBrowser(r) \/ Claim(r) \/ Execute(r)
    \/ CreateAnswers(r) \/ GetAnswers(r) \/ Settle(r)

Deadline(r) == Expires(r) \/ Notices(r) \/ Revalidate(r)

Next ==
    \/ Page \/ Bridge \/ Begin \/ Resume \/ Cancel \/ Acknowledge
    \/ \E r \in Requests : Approval(r) \/ Deadline(r) \/ Sends(r) \/ Lands(r)
    \/ \E o \in out : Deliver(o) \/ PostSuccess(o)
    \/ PortDrops \/ SessionChanges \/ Restart

Spec == Init /\ [][Next]_vars

-----------------------------------------------------------------------------
(* Properties.                                                             *)

TypeOK ==
    /\ page \in [Requests -> {"new", "asked", "gone", "refused"} \cup Outcomes]
    /\ rec \in [Requests -> {"none"} \cup Active \cup Terminal]
    /\ task \in [Requests -> {"none", "claim", "execute", "call"} \cup Answers]
    /\ vault \in [Requests -> {"idle", "queued", "sent", "stored", "refused"}]
    /\ port.no \in 0..MaxPorts
    /\ port.toPage \in Seq(Message)
    /\ port.bind \in [Requests -> Bindings]
    /\ flow.req \in Requests \cup {None}
    /\ trouble \in 0..MaxTroubles

(* What the page and the registry say of a credential is so: a success is  *)
(* one the server stored, and a ceremony that failed, fell back or is not  *)
(* approved has neither sent a write nor has one queued, so that the page  *)
(* may try again or ask the browser.  A write is sent at most once.  It    *)
(* takes an abort, an expiry, a restart or a lost answer against a write   *)
(* under way to break it.                                                  *)
ToldIsTrue ==
    \A r \in Creates :
        /\ writes[r] <= 1
        /\ page[r] = "success" => vault[r] = "stored"
        /\ \/ page[r] \in {"failed", "fallback"}
           \/ rec[r] \in {"awaiting", "failed", "fallback"}
           => vault[r] \in {"idle", "refused"}

(* A credential is written, and a result handed to the page, only in the   *)
(* session and, for the write, over the vault in which the ceremony was    *)
(* registered, however long the user, the network or a storage write took. *)
SuccessPosted(r) ==
    Len(port'.toPage) > Len(port.toPage) /\ Last(port'.toPage) = [kind |-> "success", req |-> r]

SameSession ==
    [][\A r \in Requests :
          /\ writes'[r] > writes[r] => lease[r] = epoch
          /\ SuccessPosted(r) => lease[r].sess = epoch.sess
             /\ (r \notin Creates => lease[r].gen = epoch.gen)]_vars
=============================================================================
