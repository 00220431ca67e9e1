---------------------------- MODULE ClientEvents ----------------------------
(***************************************************************************)
(* The pipeline of the client events (enterprise audit events):            *)
(*                                                                         *)
(*   - the service gives a receipt before a user action and, once the      *)
(*     action is done, commits it: the event is stored in the durable      *)
(*     queue of its scope (a server and an account);                       *)
(*   - the queue is one envelope of the storage.  Its operations run one   *)
(*     at a time, each reads the envelope, cleans it up and writes it      *)
(*     once, so each is one step here; the worker may stop between two;    *)
(*   - the uploader claims a batch, sends it with the lease of the active  *)
(*     account, and acknowledges or releases the claim;                    *)
(*   - one alarm wakes the pipeline of the active account up.              *)
(*                                                                         *)
(* Clocks: what an operation reads is whether a deadline has passed, so a  *)
(* deadline is a flag that time raises (aged, lapsed, due) and the next    *)
(* operation of the queue acts on.  The clock may be set back: then no     *)
(* deadline has passed any more, and what is stored was stored later than  *)
(* now, until the clock has caught up with it (ahead).                     *)
(***************************************************************************)
EXTENDS Naturals, Sequences, FiniteSets, SequencesExt

CONSTANTS Accounts,          \* scopes: one account each, on one server
          None,              \* no account
          First,             \* the account that is active at first
          MaxReceipts,       \* bound on the receipts, and so on the events
          MaxBatch,          \* largest batch of a claim
          ServerBatch,       \* largest batch the server takes (413 above it)
          MaxDisturbances    \* bound on switches, logouts, removals, failed
                             \* storage writes, worker stops, settings back of
                             \* the clock and uploads that outlast their claim
                             \* or their events

ASSUME EventAssumption ==
    /\ None \notin Accounts
    /\ IsFiniteSet(Accounts)
    /\ {MaxReceipts, MaxBatch, ServerBatch} \subseteq Nat \ {0}
    /\ First \in Accounts
    /\ MaxDisturbances \in Nat

\* Receipts are numbered as they are given out; an event has the number of
\* the receipt it was committed with.
Events == 1 .. MaxReceipts

VARIABLES
    queue,        \* durable: the stored scope of each account
    alarm,        \* durable: is the upload alarm armed?
    discards,     \* durable: accounts whose logout is not yet cleaned up
    calls,        \* discards of logged out scopes that are under way
    active,       \* the account the current lease names, or None
    running,      \* is the worker running?
    receipt,      \* state of each receipt
    owner,        \* the account a receipt was prepared for
    lane,         \* jobs of each scope, the first one running
    flight,       \* the flush of each scope that holds a claim
    aged,         \* events past the retention time
    ahead,        \* events stored at a time that the clock has yet to reach
    disturbances  \* bounded counter

\* What the properties remember of the past.
VARIABLES received,   \* accounts under which the server took each event
          gone,       \* how an event left the queue
          ended,      \* events of sessions a logout has ended
          superseded  \* scopes whose last flush found its claim gone

clock == <<aged, ahead>>
durable == <<queue, alarm, discards, clock>>
memory == <<receipt, owner, lane, flight, calls>>
history == <<received, gone, ended, superseded>>
vars == <<queue, alarm, discards, aged, ahead, receipt, owner, lane, flight, calls, active,
          running, disturbances, received, gone, ended, superseded>>

-----------------------------------------------------------------------------
(* The stored envelope.                                                    *)

\* retry: has no upload failed, must the next one wait, or is it due?
NoScope == [retry |-> "none", limit |-> MaxBatch, events |-> <<>>]

\* An event without a claim; early says of a claim that it was written at an
\* earlier time than its event.
StoredEvent(e) == [id |-> e, token |-> 0, lapsed |-> FALSE, early |-> FALSE]

Ids(evs) == {evs[i].id : i \in DOMAIN evs}
StoredIn(q) == UNION {Ids(q[a].events) : a \in Accounts}
Claimed(evs) == {i \in DOMAIN evs : evs[i].token # 0}

\* What a filter leaves: the positions I of evs, in their order.
Kept(evs, I) ==
    [k \in 1 .. Cardinality(I) |-> evs[CHOOSE i \in I : Cardinality({j \in I : j <= i}) = k]]
Without(evs, ids) ==
    IF \A i \in DOMAIN evs : evs[i].id \notin ids THEN evs
    ELSE Kept(evs, {i \in DOMAIN evs : evs[i].id \notin ids})

\* What the reader demands of a scope: one claim at a time, no larger than
\* the batch limit, and no older than its events.
OneClaim(scope) ==
    LET claimed == Claimed(scope.events) IN
    /\ \A i, j \in claimed : scope.events[i].token = scope.events[j].token
    /\ Cardinality(claimed) <= scope.limit

OnTime(evs) == \A i \in DOMAIN evs : ~evs[i].early

WellFormed(q) ==
    /\ \A a \in Accounts : OneClaim(q[a])
    /\ \A a, b \in Accounts : a # b => Ids(q[a].events) \cap Ids(q[b].events) = {}

Readable(q) == WellFormed(q) /\ \A a \in Accounts : OnTime(q[a].events)

CleanedScope(scope) ==
    LET kept == Without(scope.events, aged)
    IN IF kept = <<>> THEN NoScope
       ELSE [scope EXCEPT !.events = [i \in DOMAIN kept |->
                IF kept[i].lapsed THEN StoredEvent(kept[i].id) ELSE kept[i]]]

Cleaned(q) == [a \in Accounts |-> CleanedScope(q[a])]

\* A claim token that nothing stored and no running flush holds.
TokensInUse ==
    UNION {{queue[a].events[i].token : i \in DOMAIN queue[a].events}
               \cup {flight[a].token} : a \in Accounts}
NewToken == CHOOSE t \in 1 .. (2 * Cardinality(Accounts) + 1) : t \notin TokensInUse

-----------------------------------------------------------------------------
(* Helpers of the actions.                                                 *)

NoFlight == [step |-> "idle", token |-> 0, ids |-> {}, outcome |-> "none", lease |-> FALSE]

\* The job at the head of the lane of a is of this kind and at this step.
Runs(a, kind, step) ==
    /\ running
    /\ lane[a] # <<>>
    /\ lane[a][1].kind = kind
    /\ flight[a].step = step

JobDone(a) ==
    /\ lane' = [lane EXCEPT ![a] = Tail(@)]
    /\ flight' = [flight EXCEPT ![a] = NoFlight]

\* The scheduler serves the active account alone; it keeps the earlier alarm.
Arm(a) == alarm' = (alarm \/ active = a)
Cancel(a) == alarm' = (alarm /\ active # a)

Disturbed ==
    /\ disturbances < MaxDisturbances
    /\ disturbances' = disturbances + 1

\* A successful write of the envelope; what it drops has left for this reason.
Store(q, reason) ==
    LET dropped == StoredIn(queue) \ StoredIn(q) IN
    /\ queue' = q
    /\ gone' = [e \in Events |->
           IF e \notin dropped THEN gone[e]
           ELSE IF e \in aged /\ reason # "discarded" THEN "expired" ELSE reason]
    /\ UNCHANGED disturbances

\* The operation throws: the envelope cannot be read, or the write fails or
\* is refused for its size.
StorageFails ==
    /\ \/ ~Readable(queue) /\ UNCHANGED disturbances
       \/ Disturbed
    /\ UNCHANGED <<queue, gone>>

\* mutant of RevokeReceipts: commits that wait in a lane are not revoked.
RevokeHeldOnly ==
    receipt' = [e \in Events |-> IF receipt[e] = "held" THEN "spent" ELSE receipt[e]]

\* A discard renews the epoch of the service: every receipt given out before
\* it, of any account, is refused from now on.
RevokeReceipts ==
    receipt' = [e \in Events |-> IF receipt[e] = "held" THEN "spent"
                                 ELSE IF receipt[e] = "waiting" THEN "revoked" ELSE receipt[e]]

\* Ask for a flush of a; one waiting flush does for all that are asked for.
WithFlush(l, a) ==
    IF \E i \in DOMAIN l[a] : l[a][i].kind = "flush" /\ (i > 1 \/ flight[a].step = "idle")
    THEN l
    ELSE [l EXCEPT ![a] = Append(@, [kind |-> "flush", event |-> None])]

-----------------------------------------------------------------------------
(* Receipts and commits.                                                   *)

Prepare(e) ==
    /\ running
    /\ active # None
    /\ active \notin discards
    /\ receipt[e] = "unused"
    /\ \A d \in 1 .. e - 1 : receipt[d] # "unused"
    /\ receipt' = [receipt EXCEPT ![e] = "held"]
    /\ owner' = [owner EXCEPT ![e] = active]
    /\ UNCHANGED <<durable, lane, flight, calls, active, running, disturbances, history>>

\* The receipt is consumed before anything can fail.
Commit(e) ==
    /\ running
    /\ receipt[e] = "held"
    /\ receipt' = [receipt EXCEPT ![e] = "waiting"]
    /\ lane' = [lane EXCEPT ![owner[e]] = Append(@, [kind |-> "commit", event |-> e])]
    /\ UNCHANGED <<durable, owner, flight, calls, active, running, disturbances, history>>

CommitBegins(a) ==
    /\ Runs(a, "commit", "idle")
    /\ LET e == lane[a][1].event IN
       \/ /\ receipt[e] = "revoked"
          /\ receipt' = [receipt EXCEPT ![e] = "spent"]
          /\ JobDone(a)
       \/ /\ receipt[e] = "waiting"
          /\ receipt' = [receipt EXCEPT ![e] = "spent"]
          /\ flight' = [flight EXCEPT ![a].step = "enqueuing"]
          /\ UNCHANGED lane
    /\ UNCHANGED <<durable, owner, calls, active, running, disturbances, history>>

\* The epoch was checked before the digest of the scope was awaited, so a
\* discard may have run since.
Enqueue(a) ==
    /\ Runs(a, "commit", "enqueuing")
    /\ \/ /\ Readable(queue)
          /\ Store([Cleaned(queue) EXCEPT ![a].events =
                       Append(@, StoredEvent(lane[a][1].event))], "expired")
       \/ /\ StorageFails
    /\ Arm(a)
    /\ JobDone(a)
    /\ UNCHANGED <<discards, clock, receipt, owner, calls, active, running,
                   received, ended, superseded>>

-----------------------------------------------------------------------------
(* Flushing a scope: claim, send, settle.                                  *)

FlushEnds(a, found) ==
    /\ JobDone(a)
    /\ superseded' = IF found THEN superseded \ {a} ELSE superseded \cup {a}

\* The flush ends without a claim: nothing is stored, or it is too early.
ClaimRefused(a) ==
    LET scope == Cleaned(queue)[a] IN
    /\ Readable(queue)
    /\ Store(Cleaned(queue), "expired")
    /\ \/ scope.events = <<>> /\ Cancel(a)
       \/ scope.events # <<>> /\ scope.retry = "waits" /\ Arm(a)
       \/ scope.events # <<>> /\ scope.retry # "waits" /\ Claimed(scope.events) # {} /\ Arm(a)
    /\ FlushEnds(a, TRUE)

\* The oldest events are claimed, as many as the batch limit allows.  The time
\* of the claim is not compared with the times of the events.
ClaimTaken(a) ==
    LET q == Cleaned(queue)
        scope == q[a]
        size == IF Len(scope.events) < scope.limit THEN Len(scope.events) ELSE scope.limit
        take(ev) == [ev EXCEPT !.token = NewToken, !.early = ev.id \in ahead]
    IN
    /\ Readable(queue)
    /\ scope.events # <<>>
    /\ scope.retry # "waits"
    /\ Claimed(scope.events) = {}
    /\ Store([q EXCEPT ![a].events =
                 [i \in DOMAIN @ |-> IF i <= size THEN take(@[i]) ELSE @[i]]], "expired")
    /\ flight' = [flight EXCEPT ![a].step = "claimed", ![a].token = NewToken,
                                ![a].ids = {scope.events[i].id : i \in 1 .. size}]
    /\ UNCHANGED <<alarm, lane, superseded>>

Claim(a) ==
    /\ Runs(a, "flush", "idle")
    /\ \/ ClaimRefused(a)
       \/ ClaimTaken(a)
       \/ StorageFails /\ Arm(a) /\ FlushEnds(a, TRUE)
    /\ UNCHANGED <<discards, clock, receipt, owner, calls, active, running, received, ended>>

\* The batch is sent under the lease of the active account, whose scope must
\* be the one of the batch.
SendFails(a) ==
    /\ Runs(a, "flush", "claimed")
    /\ flight' = [flight EXCEPT ![a].step = "sent", ![a].outcome = "failed"]
    /\ UNCHANGED <<durable, receipt, owner, lane, calls, active, running, disturbances, history>>

\* mutant of SendReaches: the scope of the lease is not compared.
SendReachesAnyone(a) ==
    LET fits == Cardinality(flight[a].ids) <= ServerBatch IN
    /\ Runs(a, "flush", "claimed")
    /\ active # None
    /\ received' = [e \in Events |-> IF fits /\ e \in flight[a].ids
                                     THEN received[e] \cup {active} ELSE received[e]]
    /\ flight' = [flight EXCEPT ![a].step = "sent", ![a].lease = TRUE,
                                ![a].outcome = IF fits THEN "taken" ELSE "too_large"]
    /\ UNCHANGED <<durable, receipt, owner, lane, calls, active, running, disturbances,
                   gone, ended, superseded>>

\* The server takes the batch, or answers 413; an answer may still be lost.
SendReaches(a) ==
    LET sent == flight[a].ids
        fits == Cardinality(sent) <= ServerBatch
    IN
    /\ Runs(a, "flush", "claimed")
    /\ active = a
    /\ received' = [e \in Events |-> IF fits /\ e \in sent THEN received[e] \cup {active}
                                                           ELSE received[e]]
    /\ flight' = [flight EXCEPT ![a].step = "sent", ![a].lease = TRUE,
                                ![a].outcome = IF fits THEN "taken" ELSE "too_large"]
    /\ UNCHANGED <<durable, receipt, owner, lane, calls, active, running, disturbances,
                   gone, ended, superseded>>

\* The answer is lost, or does not come in time.
AnswerLost(a) ==
    /\ Runs(a, "flush", "sent")
    /\ flight[a].outcome # "failed"
    /\ flight' = [flight EXCEPT ![a].outcome = "failed"]
    /\ UNCHANGED <<durable, receipt, owner, lane, calls, active, running, disturbances, history>>

\* An answer counts only if the lease has held all along.
Answered(a) == IF flight[a].lease THEN flight[a].outcome ELSE "failed"

\* What the claim of a still holds in the envelope.
StillClaimed(q, a) ==
    {q[a].events[i].id : i \in {j \in DOMAIN q[a].events :
        q[a].events[j].id \in flight[a].ids /\ q[a].events[j].token = flight[a].token}}

\* mutant of Acknowledged: the scope is emptied, not the batch.
AcknowledgedScope(q, a) == [q EXCEPT ![a] = NoScope]

Acknowledged(q, a) ==
    LET mine == StillClaimed(q, a)
        scope == q[a]
        left == Without(scope.events, mine)
    IN [q EXCEPT ![a] = IF left = <<>> THEN NoScope
                        ELSE [scope EXCEPT !.events = left,
                                           !.retry = IF mine = {} THEN @ ELSE "none"]]

\* mutant of Halved: a batch the server refuses is tried again as it is.
HalvedNever(limit, n) == limit

Halved(limit, n) == LET m == (IF n < limit THEN n ELSE limit) \div 2
                    IN IF m = 0 THEN 1 ELSE m

\* mutant of Released: the smaller limit is stored with the claim still on.
ReleasedClaimed(q, a) ==
    [q EXCEPT ![a].retry = "waits",
              ![a].limit = Halved(@, Cardinality(flight[a].ids))]

\* mutant of Released: the batch is written back as it was claimed.
ReleasedAnew(q, a) ==
    LET others == Without(q[a].events, flight[a].ids)
    IN [q EXCEPT ![a].events = [i \in 1 .. Cardinality(flight[a].ids) |->
                                   StoredEvent(SetToSeq(flight[a].ids)[i])] \o others,
                 ![a].retry = "waits"]

Released(q, a) ==
    LET mine == StillClaimed(q, a) IN
    [q EXCEPT ![a].events = [i \in DOMAIN @ |-> IF @[i].id \in mine THEN StoredEvent(@[i].id)
                                                                  ELSE @[i]],
              ![a].retry = "waits",
              ![a].limit = IF Answered(a) = "too_large"
                           THEN Halved(@, Cardinality(flight[a].ids)) ELSE @]

Acknowledge(a) ==
    /\ Runs(a, "flush", "sent")
    /\ Answered(a) = "taken"
    /\ \/ Readable(queue) /\ Store(Acknowledged(Cleaned(queue), a), "sent")
       \/ StorageFails
    /\ Arm(a)
    /\ FlushEnds(a, TRUE)
    /\ UNCHANGED <<discards, clock, receipt, owner, calls, active, running, received, ended>>

Release(a) ==
    LET q == Cleaned(queue) IN
    /\ Runs(a, "flush", "sent")
    /\ Answered(a) # "taken"
    /\ \/ /\ Readable(queue)
          /\ StillClaimed(q, a) # {}
          /\ Store(Released(q, a), "expired")
          /\ Arm(a)
          /\ FlushEnds(a, TRUE)
       \/ /\ Readable(queue)           \* superseded: the claim has gone
          /\ StillClaimed(q, a) = {}
          /\ Store(q, "expired")
          /\ Cancel(a)
          /\ FlushEnds(a, FALSE)
       \/ /\ StorageFails
          /\ Arm(a)
          /\ FlushEnds(a, TRUE)
    /\ UNCHANGED <<discards, clock, receipt, owner, calls, active, running, received, ended>>

-----------------------------------------------------------------------------
(* Logout, removal and switch of accounts.                                 *)

LeasesEnd == [a \in Accounts |-> [flight[a] EXCEPT !.lease = FALSE]]

\* The session settled on another account: its scope is flushed.
SwitchTo(a) ==
    /\ running
    /\ active # a
    /\ Disturbed
    /\ active' = a
    /\ flight' = LeasesEnd
    /\ lane' = WithFlush(lane, a)
    /\ UNCHANGED <<durable, receipt, owner, calls, running, history>>

\* A logout settles with its durable marker written (see ClientEventLogout).
LogOut(a) ==
    /\ running
    /\ active = a
    /\ a \notin discards
    /\ Disturbed
    /\ active' = None
    /\ flight' = LeasesEnd
    /\ discards' = discards \cup {a}
    /\ ended' = ended \cup {e \in Events : owner[e] = a}
    /\ UNCHANGED <<queue, alarm, clock, receipt, owner, lane, calls, running,
                   received, gone, superseded>>

\* The discard of a logged out scope does not wait in the lane of the scope.
DiscardBegins(a) ==
    /\ running
    /\ a \in discards \ calls
    /\ calls' = calls \cup {a}
    /\ RevokeReceipts
    /\ UNCHANGED <<durable, owner, lane, flight, active, running, disturbances, history>>

DiscardScope(a) ==
    /\ Readable(queue)
    /\ Store([queue EXCEPT ![a] = NoScope], "discarded")

Discard(a) ==
    /\ running
    /\ a \in calls
    /\ calls' = calls \ {a}
    /\ \/ DiscardScope(a) /\ Cancel(a) /\ discards' = discards \ {a}
       \/ StorageFails /\ UNCHANGED <<alarm, discards>>
    /\ UNCHANGED <<clock, receipt, owner, lane, flight, active, running,
                   received, ended, superseded>>

\* The removal of an account waits in the lane, behind an upload.
RemoveAccount(a) ==
    /\ running
    /\ ~\E i \in DOMAIN lane[a] : lane[a][i].kind = "remove"
    /\ Disturbed
    /\ active' = IF active = a THEN None ELSE active
    /\ flight' = IF active = a THEN LeasesEnd ELSE flight
    /\ lane' = [lane EXCEPT ![a] = Append(@, [kind |-> "remove", event |-> None])]
    /\ RevokeReceipts
    /\ UNCHANGED <<durable, owner, calls, running, history>>

RemoveScope(a) ==
    /\ Runs(a, "remove", "idle")
    /\ \/ DiscardScope(a) /\ Cancel(a)
       \/ StorageFails /\ UNCHANGED alarm
    /\ JobDone(a)
    /\ UNCHANGED <<discards, clock, receipt, owner, calls, active, running,
                   received, ended, superseded>>

-----------------------------------------------------------------------------
(* The alarm, the worker and time.                                         *)

AlarmFires ==
    /\ running
    /\ alarm
    /\ alarm' = FALSE
    /\ lane' = IF active = None THEN lane ELSE WithFlush(lane, active)
    /\ UNCHANGED <<queue, discards, clock, receipt, owner, flight, calls, active,
                   running, disturbances, history>>

\* Promises, receipts and claims held in memory are gone; the storage stays.
Stop ==
    /\ running
    /\ Disturbed
    /\ running' = FALSE
    /\ lane' = [a \in Accounts |-> <<>>]
    /\ flight' = [a \in Accounts |-> NoFlight]
    /\ calls' = {}
    /\ receipt' = [e \in Events |-> IF receipt[e] = "unused" THEN "unused" ELSE "spent"]
    /\ superseded' = {}
    /\ UNCHANGED <<durable, owner, active, received, gone, ended>>

Start ==
    /\ ~running
    /\ running' = TRUE
    /\ lane' = IF active = None THEN lane ELSE WithFlush(lane, active)
    /\ UNCHANGED <<durable, receipt, owner, flight, calls, active, disturbances, history>>

\* Time passes; that an upload outlasts its claim is counted.
Passes(inFlight) ==
    IF inFlight THEN Disturbed ELSE UNCHANGED disturbances

Age(e) ==
    /\ e \in StoredIn(queue) \ (aged \cup ahead)
    /\ Passes(\E a \in Accounts : e \in flight[a].ids)
    /\ aged' = aged \cup {e}
    /\ UNCHANGED <<queue, alarm, discards, ahead, memory, active, running, history>>

ClaimLapses(a) ==
    LET evs == queue[a].events
        claimed == Claimed(evs)
    IN
    /\ \E i \in claimed : ~evs[i].lapsed
    /\ \A i \in claimed : evs[i].id \notin ahead
    /\ Passes(\E i \in claimed : evs[i].token = flight[a].token)
    /\ queue' = [queue EXCEPT ![a].events =
                    [i \in DOMAIN evs |-> IF i \in claimed THEN [evs[i] EXCEPT !.lapsed = TRUE]
                                                           ELSE evs[i]]]
    /\ UNCHANGED <<alarm, discards, clock, memory, active, running, history>>

RetryComesDue(a) ==
    /\ queue[a].retry = "waits"
    /\ queue' = [queue EXCEPT ![a].retry = "due"]
    /\ UNCHANGED <<alarm, discards, clock, memory, active, running, disturbances, history>>

\* What the envelope holds is of a later time than the clock shows.
SetBackScope(scope) ==
    [scope EXCEPT !.retry = IF @ = "none" THEN "none" ELSE "waits",
                  !.events = [i \in DOMAIN @ |-> [@[i] EXCEPT !.lapsed = FALSE]]]

\* The clock is set back before every time that the envelope holds; setting it
\* back by less leaves what some time makes of that.
ClockSetBack ==
    /\ Disturbed
    /\ StoredIn(queue) # {}
    /\ queue' = [a \in Accounts |-> SetBackScope(queue[a])]
    /\ ahead' = ahead \cup StoredIn(queue)
    /\ aged' = aged \ StoredIn(queue)
    /\ UNCHANGED <<alarm, discards, memory, active, running, history>>

\* The clock reaches the time at which e was stored.
CatchesUp(e) ==
    /\ e \in ahead
    /\ ahead' = ahead \ {e}
    /\ UNCHANGED <<queue, alarm, discards, aged, memory, active, running, disturbances, history>>

-----------------------------------------------------------------------------
(* The specification.                                                      *)

Init ==
    /\ queue = [a \in Accounts |-> NoScope]
    /\ alarm = FALSE
    /\ discards = {} /\ calls = {}
    /\ active = First
    /\ running = TRUE
    /\ receipt = [e \in Events |-> "unused"]
    /\ owner = [e \in Events |-> None]
    /\ lane = [a \in Accounts |-> <<>>]
    /\ flight = [a \in Accounts |-> NoFlight]
    /\ aged = {} /\ ahead = {}
    /\ disturbances = 0
    /\ received = [e \in Events |-> {}]
    /\ gone = [e \in Events |-> "no"]
    /\ ended = {} /\ superseded = {}

LaneStep(a) ==
    \/ CommitBegins(a) \/ Enqueue(a)
    \/ Claim(a) \/ SendFails(a) \/ SendReaches(a) \/ AnswerLost(a)
    \/ Acknowledge(a) \/ Release(a)
    \/ RemoveScope(a)

\* The answer of the server arrives.
Settles(a) == flight[a].outcome # "failed" /\ (Acknowledge(a) \/ Release(a))

Next ==
    \/ \E e \in Events : Prepare(e) \/ Commit(e) \/ Age(e) \/ CatchesUp(e)
    \/ \E a \in Accounts :
          \/ LaneStep(a)
          \/ SwitchTo(a) \/ LogOut(a) \/ RemoveAccount(a)
          \/ DiscardBegins(a) \/ Discard(a)
          \/ ClaimLapses(a) \/ RetryComesDue(a)
    \/ AlarmFires \/ Stop \/ Start \/ ClockSetBack

\* Awaited work is done, time passes, and a server that is asked again and
\* again takes a batch it can take.
Fairness(a) ==
    /\ WF_vars(Start)
    /\ WF_vars(AlarmFires)
    /\ WF_vars(LaneStep(a))
    /\ SF_vars(SendReaches(a)) /\ SF_vars(Settles(a))
    /\ WF_vars(RetryComesDue(a) \/ ClaimLapses(a) \/ \E e \in Events : CatchesUp(e))

Spec == Init /\ [][Next]_vars
FairSpec == Spec /\ Fairness(First)

-----------------------------------------------------------------------------
(* Properties.                                                             *)

TypeOK ==
    /\ \A a \in Accounts :
          /\ queue[a].retry \in {"none", "waits", "due"}
          /\ queue[a].limit \in 1 .. MaxBatch
          /\ Ids(queue[a].events) \subseteq Events
          /\ flight[a].step \in {"idle", "enqueuing", "claimed", "sent"}
          /\ flight[a].step \in {"claimed", "sent"} <=> flight[a].token # 0
    /\ alarm \in BOOLEAN /\ running \in BOOLEAN
    /\ ahead \subseteq Events
    /\ discards \subseteq Accounts /\ calls \subseteq discards
    /\ active \in Accounts \cup {None}
    /\ receipt \in [Events -> {"unused", "held", "waiting", "revoked", "spent"}]
    /\ owner \in [Events -> Accounts \cup {None}]
    /\ gone \in [Events -> {"no", "sent", "expired", "discarded"}]

\* The reader accepts what the operations write.  parseEnvelope refuses a
\* scope with two claims or with a claim larger than its batch limit, and an
\* event stored twice: no operation ever writes these.  It also refuses a claim
\* older than its event: only while the clock is behind an event that it was
\* set back over can an accepted envelope become a refused one.
ReaderAcceptsWriter ==
    /\ [](TypeOK /\ WellFormed(queue))
    /\ [][ahead = {} /\ Readable(queue) => Readable(queue')]_vars

\* Whatever was appended, discarded, switched or claimed again while a batch
\* was in flight: an event is dropped as uploaded only if the server has taken
\* it, none reaches the server under another account than the one it was
\* prepared for, and one that has left the queue is never stored again (the
\* settlement of an upload does not recreate a scope discarded meanwhile).
\* After the discard of a logged out scope at most one event of the ended
\* session is stored: the one whose commit was past its check of the epoch.
EventsAccountedFor ==
    /\ \A e \in Events : gone[e] = "sent" => received[e] # {}
    /\ \A e \in Events : received[e] \subseteq {owner[e]}
    /\ \A e \in StoredIn(queue) : gone[e] = "no"
    /\ \A a \in Accounts \ discards : Cardinality(Ids(queue[a].events) \cap ended) <= 1

\* The events of an account that stays active leave the queue: a failed
\* upload, a refused batch, a claim that a stopped worker left behind, an
\* upload slower than its claim, a write that failed or a clock set back only
\* delays them.  There are two exceptions: a flush that found its claim gone
\* and cancelled the alarm, and an envelope that the reader refuses.
AtLeastOnce ==
    <>[](active = First /\ First \notin superseded /\ Readable(queue)) =>
        []<>(queue[First].events = <<>>)

=============================================================================
