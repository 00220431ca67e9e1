---------------------------- MODULE VaultTransfer ---------------------------
(***************************************************************************)
(* Imports into the vault: the transfer controller of the background       *)
(* worker, the commit that creates folders and items on the server one at  *)
(* a time, the lifecycle that revokes transfers at session transitions and *)
(* reconciles them afterwards, and the journal that outlives the worker.   *)
(*                                                                         *)
(*   - the user uploads a file, previews it, confirms and commits it; at   *)
(*     most one import is in the controller's map, but what an earlier one *)
(*     awaits may still come back later;                                   *)
(*   - the commit marks every item in the journal before it is sent and    *)
(*     records its outcome afterwards;                                     *)
(*   - a request whose answer is lost may still land, at any later time;   *)
(*   - the worker may stop between any two steps; a write of the journal   *)
(*     may fail; the session may change under every await.                 *)
(*                                                                         *)
(* A journal operation is one step (the store runs them one at a time);    *)
(* what the caller does once it returns is a step of its own where another *)
(* actor could act in between, and JournalFree keeps the next operation    *)
(* behind it.                                                              *)
(***************************************************************************)
EXTENDS VaultTransferJournal, FiniteSets, Sequences

CONSTANTS Accounts, Sources, None,
          Plan,            \* the entries of a source, in the order of the commit
          FolderOf,        \* entry -> the entry of its folder, or Nothing
          MaxImports,      \* bound on the imports begun
          MaxJournals,     \* capacity of the journal
          MaxTransitions,  \* bound on session transitions
          MaxDisturbances  \* bound on manual synchronisations, failed journal
                           \* writes and worker stops together

ASSUME TransferAssumption ==
    /\ None \notin Accounts
    /\ Plan \in Seq(Entries) /\ Entries = {Plan[k] : k \in DOMAIN Plan}
    /\ FolderOf \in [Entries -> Entries \cup {Nothing}]
    /\ {MaxImports, MaxJournals} \subseteq Nat \ {0}
    /\ {MaxTransitions, MaxDisturbances} \subseteq Nat

\* Imports are numbered in the order in which they begin.
Imports == 1 .. MaxImports
NoImport == 0

VARIABLES
    journals,     \* durable: import -> its account, its source and its entry
    server,       \* server: what each import has created
    wire,         \* requests whose answer is lost: applied already, yet to be, or never
    \* the session
    owner, epoch, \* the account the leases name, and the lease generation
    \* the controller
    import,       \* state of every import
    live,         \* the import in the controller's map, or NoImport
    maintenance, startupReady, globalImportBlocked, blocked,
    active,       \* activeAccountIdentityDigest
    acks,         \* results that wait for the user's acknowledgement
    \* what is under way
    commit,       \* the running commit
    inspecting,   \* progress of the inspection of each import
    cleanup,      \* journals that a revocation still has to cancel
    cancelling,   \* imports whose cancellation awaits the journal
    acking,       \* acknowledgement that awaits the journal
    reconcile,    \* the running reconciliation
    queued,       \* reconciliations that wait for it
    barrierOp,    \* the running inspection or lifting of barriers
    ready,        \* transferReady: may ports use the controller?
    disturbed     \* bounded counter

\* What the properties remember.
VARIABLES released,  \* imports whose file may be imported again
          completed  \* imports of which the user was told that all is there

sessionVars == <<owner, epoch>>
worldVars == <<server, wire>>
gateVars == <<maintenance, startupReady, globalImportBlocked, blocked, active>>
taskVars == <<inspecting, cleanup, cancelling, acking, reconcile, queued, barrierOp, ready>>
vars == <<journals, server, wire, owner, epoch, import, live, maintenance, startupReady,
          globalImportBlocked, blocked, active, acks, commit, inspecting, cleanup,
          cancelling, acking, reconcile, queued, barrierOp, ready, disturbed,
          released, completed>>

-----------------------------------------------------------------------------
(* The journal as a whole.                                                 *)

Stored == DOMAIN journals
Entry(i) == journals[i].entry

\* No caller stands between its journal operation and what it does next.
JournalFree ==
    /\ commit.step \notin {"inspected", "begun", "finalized"}
    /\ \A i \in Imports : inspecting[i] # "inspected"

\* There may be one more disturbance.
MayDisturb == disturbed < MaxDisturbances

\* The store serves its callers in order: what was asked for before import i
\* began comes before whatever the import asks for.
EarlierServed(i) ==
    /\ \A k \in cancelling \cup {c[2] : c \in cleanup} : k >= i
    /\ barrierOp.step = "idle"

\* A write of the journal goes through, or fails and changes nothing.
WriteFails == MayDisturb /\ disturbed' = disturbed + 1
WriteHolds == UNCHANGED disturbed

Update(i, entry) == journals' = [journals EXCEPT ![i].entry = entry]

\* inspectForStartup: imports that never sent anything are forgotten, the
\* ones found committing are held to be interrupted.
AfterInspection ==
    [i \in {k \in Stored : Entry(k).phase # "prepared"} |->
        [journals[i] EXCEPT !.entry = Interrupted(@)]]

\* begin makes room among the finished imports.  Imports of accounts outside
\* the model take some of the capacity.
Evictions ==
    {gone \in SUBSET {i \in Stored : IsEvictable(Entry(i))} :
        \E others \in 0 .. (MaxJournals - 1) :
            LET needed == Cardinality(Stored) + others + 1
            IN IF needed <= MaxJournals THEN gone = {} ELSE Cardinality(gone) = needed - MaxJournals}

-----------------------------------------------------------------------------
(* The gates of the controller.                                            *)

\* The leases and the account captured in lease generation e still hold.
Current(e) == owner # None /\ epoch = e

\* assertActive: the import is in the map, in this phase, and not cancelled.
Active(i, phase) ==
    /\ maintenance # "clearing"
    /\ live = i
    /\ ~import[i].cancelled
    /\ import[i].phase = phase

\* Both asserts of the commit's view of the journal, made around every
\* operation, and of the boundary around every request.
CommitCurrent(i) == Active(i, "committing") /\ Current(import[i].epoch)

\* assertRevocationCurrent and the leases, of a maintenance operation.
MaintenanceCurrent(e) == Current(e) /\ maintenance # "clearing"

\* Accounts with an import that is unresolved, by the journal js.
BlockedBy(js) ==
    {js[i].account : i \in {k \in DOMAIN js :
        js[k].entry.flag["requiresReconcile"] \/ js[k].entry.flag["unresolved"]}}

\* refreshBarrierState.
Refreshed(js) == blocked' = BlockedBy(js) /\ globalImportBlocked' = FALSE

\* mutant of ReplayBarred: a barrier does not outlive the reconciliation.
ReplayBarredOwing(a, s) ==
    \/ a \in blocked'
    \/ \E i \in Stored :
          /\ journals[i].account = a /\ journals[i].source = s
          /\ Entry(i).flag["requiresReconcile"]

\* An import of this file by this account may not be sent again, as the
\* controller sees it once it has refreshed its barriers.
ReplayBarred(a, s) ==
    \/ a \in blocked'
    \/ \E i \in Stored :
          /\ journals[i].account = a /\ journals[i].source = s
          /\ Entry(i).flag["requiresReconcile"] \/ Entry(i).flag["replayBarrier"]

\* Maintenance and imports exclude each other.
MaintenanceFree == maintenance = "none" /\ live = NoImport /\ commit.id = NoImport
EnterMaintenance(phase) == MaintenanceFree /\ maintenance' = phase

LeaveMaintenance(phase) ==
    maintenance' = IF maintenance = phase THEN "none" ELSE maintenance

\* destroyState.  A commit still looks at the state of its import afterwards;
\* of any other import nothing but its context matters any more.
Destroyed(i) == live' = IF live = i THEN NoImport ELSE live

Spent(i) == [import[i] EXCEPT !.phase = "over", !.cancelled = TRUE, !.abandoned = FALSE,
                              !.begun = FALSE]
Dropped(i) == Destroyed(i) /\ import' = [import EXCEPT ![i] = Spent(i)]

-----------------------------------------------------------------------------
NoCommit == [id |-> NoImport, step |-> "idle", at |-> 1, status |-> "none", reconcile |-> FALSE]
NoReconcile == [step |-> "idle", account |-> None, epoch |-> 0, forced |-> FALSE, todo |-> <<>>]
NoBarrierOp == [step |-> "idle", target |-> NoImport, account |-> None, epoch |-> 0]
NotReady == [step |-> "pending", epoch |-> 0]
NewImport == [phase |-> "none", cancelled |-> FALSE, abandoned |-> FALSE, begun |-> FALSE,
              account |-> None, source |-> None, epoch |-> 0]

\* The worker has just started: everything in memory is new.
MemoryInit ==
    /\ live = NoImport
    /\ maintenance = "none" /\ startupReady = FALSE /\ globalImportBlocked = FALSE
    /\ blocked = {} /\ active = None /\ acks = {}
    /\ commit = NoCommit
    /\ inspecting = [i \in Imports |-> "idle"]
    /\ cleanup = {} /\ cancelling = {} /\ acking = NoImport
    /\ reconcile = NoReconcile /\ queued = 0 /\ barrierOp = NoBarrierOp
    /\ ready = NotReady

MemoryReset ==
    /\ live' = NoImport
    /\ maintenance' = "none" /\ startupReady' = FALSE /\ globalImportBlocked' = FALSE
    /\ blocked' = {} /\ active' = None /\ acks' = {}
    /\ commit' = NoCommit
    /\ inspecting' = [i \in Imports |-> "idle"]
    /\ cleanup' = {} /\ cancelling' = {} /\ acking' = NoImport
    /\ reconcile' = NoReconcile /\ queued' = 0 /\ barrierOp' = NoBarrierOp
    /\ ready' = NotReady

Init ==
    /\ journals = <<>>
    /\ server = {} /\ wire = {}
    /\ owner \in Accounts /\ epoch = 0
    /\ import = [i \in Imports |-> NewImport]
    /\ MemoryInit
    /\ disturbed = 0
    /\ released = {} /\ completed = {}

-----------------------------------------------------------------------------
(* From the upload to the confirmation.                                    *)

\* beginImport and the upload of the file.
BeginImport(i, s) ==
    /\ ready.step = "ready" /\ owner # None
    /\ maintenance = "none" /\ startupReady /\ ~globalImportBlocked
    /\ active \notin blocked
    /\ commit.id = NoImport /\ live = NoImport
    /\ import[i].phase = "none" /\ \A k \in 1 .. (i - 1) : import[k].phase # "none"
    /\ import' = [import EXCEPT ![i].phase = "uploading", ![i].source = s]
    /\ live' = i
    /\ UNCHANGED <<journals, worldVars, sessionVars, gateVars, acks, commit, taskVars,
                   disturbed, released, completed>>

\* sealAndInspectImport: the leases are captured, then the source is parsed
\* and the server's capabilities are asked for.
SealAndInspect(i) ==
    /\ Active(i, "uploading")
    /\ IF globalImportBlocked
       THEN Dropped(i) /\ UNCHANGED inspecting
       ELSE /\ import' = [import EXCEPT ![i].phase = "inspecting",
                                        ![i].account = owner, ![i].epoch = epoch]
            /\ inspecting' = [inspecting EXCEPT ![i] = "probing"]
            /\ UNCHANGED live
    /\ UNCHANGED <<journals, worldVars, sessionVars, gateVars, acks, commit, cleanup,
                   cancelling, acking, reconcile, queued, barrierOp, ready, disturbed,
                   released, completed>>

\* The parsing or the probe failed, or the session has changed.
InspectFails(i) ==
    /\ inspecting[i] = "probing"
    /\ inspecting' = [inspecting EXCEPT ![i] = "idle"]
    /\ Dropped(i)
    /\ UNCHANGED <<journals, worldVars, sessionVars, gateVars, acks, commit, cleanup,
                   cancelling, acking, reconcile, queued, barrierOp, ready, disturbed,
                   released, completed>>

\* assertSourceReplaySafe asks the journal.  Whether the import is still in
\* the map is not looked at here, only its leases are.
InspectJournal(i) ==
    /\ inspecting[i] = "probing" /\ JournalFree /\ EarlierServed(i)
    /\ Current(import[i].epoch)
    /\ \/ /\ WriteHolds
          /\ journals' = AfterInspection
          /\ inspecting' = [inspecting EXCEPT ![i] = "inspected"]
          /\ UNCHANGED <<globalImportBlocked, live, import>>
       \/ /\ WriteFails
          /\ globalImportBlocked' = TRUE
          /\ inspecting' = [inspecting EXCEPT ![i] = "idle"]
          /\ Dropped(i)
          /\ UNCHANGED journals
    /\ UNCHANGED <<worldVars, sessionVars, maintenance, startupReady, blocked, active,
                   acks, commit, cleanup, cancelling, acking, reconcile, queued, barrierOp,
                   ready, released, completed>>

\* The preview is shown, unless the file or the account is barred.
InspectReturns(i) ==
    /\ inspecting[i] = "inspected"
    /\ inspecting' = [inspecting EXCEPT ![i] = "idle"]
    /\ Refreshed(journals)
    /\ active' = import[i].account
    /\ IF /\ ~ReplayBarred(import[i].account, import[i].source)
          /\ Current(import[i].epoch) /\ Active(i, "inspecting")
       THEN import' = [import EXCEPT ![i].phase = "previewed"] /\ UNCHANGED live
       ELSE Dropped(i)
    /\ UNCHANGED <<journals, worldVars, sessionVars, maintenance, startupReady, acks, commit,
                   cleanup, cancelling, acking, reconcile, queued, barrierOp, ready,
                   disturbed, released, completed>>

\* The account is blocked for what this import wants to do.
ImportBlocked(i) == globalImportBlocked \/ import[i].account \in blocked

-----------------------------------------------------------------------------
(* The commit.                                                             *)

commitElse == <<sessionVars, inspecting, cleanup, cancelling, acking, reconcile, queued,
                barrierOp, ready, released>>

To(step) == commit' = [commit EXCEPT !.step = step]

\* confirmImport and, in the same turn, commitConfirmedImport.
StartCommit(i) ==
    /\ Active(i, "previewed")
    /\ IF ImportBlocked(i)
       THEN Dropped(i) /\ UNCHANGED commit
       ELSE /\ import' = [import EXCEPT ![i].phase = "committing"]
            /\ commit' = [NoCommit EXCEPT !.id = i, !.step = "replay"]
            /\ UNCHANGED live
    /\ UNCHANGED <<journals, worldVars, gateVars, acks, commitElse, disturbed, completed>>

\* A check of the commit fails, or what it calls throws.
CommitStops(i) ==
    /\ commit.id = i
    /\ commit.step \in {"replay", "begin", "mark", "send", "settle", "sync", "audit", "complete"}
    /\ ~CommitCurrent(i) \/ commit.step \in {"replay", "begin", "sync"}
    /\ To("failed")
    /\ UNCHANGED <<journals, worldVars, import, live, gateVars, acks, commitElse, disturbed, completed>>

\* The source is parsed again and the journal asked once more.
CommitInspects(i) ==
    /\ commit.id = i /\ commit.step = "replay" /\ CommitCurrent(i) /\ JournalFree
    /\ \/ WriteHolds /\ journals' = AfterInspection /\ To("inspected") /\ UNCHANGED globalImportBlocked
       \/ WriteFails /\ globalImportBlocked' = TRUE /\ To("failed") /\ UNCHANGED journals
    /\ UNCHANGED <<worldVars, import, live, maintenance, startupReady, blocked, active, acks,
                   commitElse, completed>>

CommitInspected(i) ==
    /\ commit.id = i /\ commit.step = "inspected"
    /\ Refreshed(journals)
    /\ active' = import[i].account
    /\ To(IF ReplayBarred(import[i].account, import[i].source) THEN "failed" ELSE "begin")
    /\ UNCHANGED <<journals, worldVars, import, live, maintenance, startupReady, acks,
                   commitElse, disturbed, completed>>

\* journal.begin, which makes room among the finished imports.
CommitBegins(i) ==
    /\ commit.id = i /\ commit.step = "begin" /\ JournalFree
    /\ Current(import[i].epoch) /\ ~ImportBlocked(i)
    /\ \/ /\ WriteHolds
          /\ \E gone \in Evictions :
                journals' = [k \in (Stored \ gone) \cup {i} |->
                    IF k = i THEN [account |-> import[i].account, source |-> import[i].source,
                                   entry |-> BlankJournal]
                    ELSE journals[k]]
          /\ To("begun")
       \/ WriteFails /\ To("failed") /\ UNCHANGED journals
    /\ UNCHANGED <<worldVars, import, live, gateVars, acks, commitElse, completed>>

CommitBegun(i) ==
    /\ commit.id = i /\ commit.step = "begun"
    /\ import' = [import EXCEPT ![i].begun = TRUE]
    /\ To("mark")
    /\ UNCHANGED <<journals, worldVars, live, gateVars, acks, commitElse, disturbed, completed>>

-----------------------------------------------------------------------------
(* Folder by folder, item by item.                                         *)

AllDone == commit.at > Len(Plan)
Here == Plan[commit.at]

\* The folder of the entry was refused by the server.
FolderMissing(i) ==
    FolderOf[Here] # Nothing /\ <<i, FolderOf[Here]>> \notin server

\* A journal operation of the commit: its guard, the entry it leaves, and the
\* step that follows.  The journal may refuse it, and the write may fail.
JournalStep(i, allowed, entry, next) ==
    /\ JournalFree /\ CommitCurrent(i)
    /\ \/ i \in Stored /\ allowed /\ WriteHolds /\ Update(i, entry) /\ commit' = next
       \/ ~(i \in Stored /\ allowed) /\ UNCHANGED <<journals, disturbed>> /\ To("failed")
       \/ WriteFails /\ To("failed") /\ UNCHANGED journals
    /\ UNCHANGED <<worldVars, import, live, gateVars, acks, commitElse, completed>>

Skip(i) ==
    /\ commit.id = i /\ commit.step = "mark" /\ ~AllDone /\ FolderMissing(i)
    /\ JournalStep(i, SkipAllowed(Entry(i), Here), Skipped(Entry(i), Here),
                   [commit EXCEPT !.at = @ + 1])

Mark(i) ==
    /\ commit.id = i /\ commit.step = "mark" /\ ~AllDone /\ ~FolderMissing(i)
    /\ JournalStep(i, MarkAllowed(Entry(i), Here), Marked(Entry(i), Here),
                   [commit EXCEPT !.step = "send"])

\* The boundary is checked once more; then the request is on its way, through
\* the awaits of the vault's remote call.
Dispatch(i) ==
    /\ commit.id = i /\ commit.step = "send" /\ CommitCurrent(i)
    /\ To("sending")
    /\ UNCHANGED <<journals, worldVars, import, live, gateVars, acks, commitElse, disturbed, completed>>

\* The request leaves, or a guard refuses it before it is sent.
Send(i) ==
    /\ commit.id = i /\ commit.step = "sending"
    /\ \/ To("waiting")
       \/ \E status \in {"rejected", "denied"} :
             commit' = [commit EXCEPT !.step = "settle", !.status = status]
    /\ UNCHANGED <<journals, worldVars, import, live, gateVars, acks, commitElse, disturbed, completed>>

\* The server creates the entry or refuses it; or the answer is lost, and the
\* request may have been applied, or may be applied at any later time: nothing
\* in the worker could tell.
Answer(i) ==
    /\ commit.id = i /\ commit.step = "waiting"
    /\ \E status \in {"committed", "rejected", "unknown"} :
          /\ server' = IF status = "committed" THEN server \cup {<<i, Here>>} ELSE server
          /\ wire' = IF status = "unknown" THEN wire \cup {<<i, Here>>} ELSE wire
          /\ commit' = [commit EXCEPT !.step = "settle", !.status = status]
    /\ UNCHANGED <<journals, import, live, gateVars, acks, commitElse, disturbed, completed>>

\* settleInFlight.  An unknown outcome and a withdrawn authorization end the
\* commit.
Settle(i) ==
    /\ commit.id = i /\ commit.step = "settle"
    /\ LET status == IF commit.status = "denied" THEN "rejected" ELSE commit.status
           goesOn == commit.status \in {"committed", "rejected"}
       IN JournalStep(i, SettleAllowed(Entry(i), Here), Settled(Entry(i), status),
                      [commit EXCEPT !.step = IF goesOn THEN "mark" ELSE "failed",
                                     !.status = "none",
                                     !.at = IF goesOn THEN @ + 1 ELSE @])

-----------------------------------------------------------------------------
(* The end of the commit.                                                  *)

\* The vault is synchronised if anything was created.
AllSent(i) ==
    /\ commit.id = i /\ commit.step = "mark" /\ AllDone /\ CommitCurrent(i)
    /\ To(IF \E e \in Entries : <<i, e>> \in server THEN "sync" ELSE "audit")
    /\ UNCHANGED <<journals, worldVars, import, live, gateVars, acks, commitElse, disturbed, completed>>

Synced(i) ==
    /\ commit.id = i /\ commit.step = "sync" /\ CommitCurrent(i)
    /\ To("audit")
    /\ UNCHANGED <<journals, worldVars, import, live, gateVars, acks, commitElse, disturbed, completed>>

\* mutant of Partial: only items without their folder count.
PartialSkipped(j) == \E e \in Entries : j.outcome[e] = "skipped"

Partial(j) == \E e \in Entries : j.outcome[e] \in {"rejected", "skipped"}
Owing(j) == Partial(j) /\ \E e \in Entries : j.outcome[e] = "committed"

\* auditJournalOutcomes: every entry of the plan has an outcome that is known.
Audit(i) ==
    /\ commit.id = i /\ commit.step = "audit" /\ JournalFree /\ CommitCurrent(i)
    /\ IF /\ i \in Stored
          /\ Entry(i).inFlight = Nothing
          /\ ~HasUnknown(Entry(i)) /\ ~Entry(i).flag["requiresReconcile"]
          /\ \A e \in Entries : Answered(Entry(i), e)
       THEN commit' = [commit EXCEPT !.step = "complete", !.reconcile = Owing(Entry(i))]
       ELSE To("failed")
    /\ UNCHANGED <<journals, worldVars, import, live, gateVars, acks, commitElse, disturbed, completed>>

\* From here on a cancellation only gives up the delivery of the result.
Complete(i) ==
    /\ commit.id = i /\ commit.step = "complete" /\ JournalFree /\ CommitCurrent(i)
    /\ import' = [import EXCEPT ![i].phase = "finalizing"]
    /\ LET allowed == i \in Stored /\ CompleteAllowed(Entry(i), commit.reconcile) IN
       \/ /\ allowed /\ WriteHolds
          /\ Update(i, Completed(Entry(i), commit.reconcile))
          /\ To("finalized")
       \/ ~allowed /\ UNCHANGED <<journals, disturbed>> /\ To("failed")
       \/ WriteFails /\ To("failed") /\ UNCHANGED journals
    /\ UNCHANGED <<worldVars, live, gateVars, acks, commitElse, completed>>

Finalized(i) ==
    /\ commit.id = i /\ commit.step = "finalized"
    /\ acks' = IF import[i].abandoned THEN acks ELSE acks \cup {i}
    /\ blocked' = IF commit.reconcile THEN blocked \cup {import[i].account} ELSE blocked
    /\ completed' = IF Partial(Entry(i)) THEN completed ELSE completed \cup {i}
    /\ Dropped(i)
    /\ commit' = NoCommit
    /\ UNCHANGED <<journals, worldVars, maintenance, startupReady, globalImportBlocked,
                   active, commitElse, disturbed>>

\* The journal is asked to cancel; the account is blocked until it answers
\* that nothing is owed.
CommitFails(i) ==
    /\ commit.id = i /\ commit.step = "failed" /\ JournalFree
    /\ LET a == import[i].account
           entry == Cancelled(Entry(i))
           owed == entry.flag["requiresReconcile"]
           partial == owed /\ ~HasUnknown(entry) /\ ~import[i].cancelled
       IN
       \/ /\ import[i].begun /\ i \in Stored /\ WriteHolds
          /\ Update(i, entry)
          /\ blocked' = IF owed \/ entry.flag["unresolved"] THEN blocked \cup {a} ELSE blocked \ {a}
          /\ acks' = IF partial THEN acks \cup {i} ELSE acks
       \/ /\ import[i].begun
          /\ IF i \in Stored THEN WriteFails ELSE UNCHANGED disturbed
          /\ blocked' = blocked \cup {a}
          /\ UNCHANGED <<journals, acks>>
       \/ /\ ~import[i].begun
          /\ UNCHANGED <<journals, blocked, acks, disturbed>>
    /\ Dropped(i)
    /\ commit' = NoCommit
    /\ UNCHANGED <<worldVars, maintenance, startupReady, globalImportBlocked, active,
                   commitElse, completed>>

-----------------------------------------------------------------------------
(* Cancellation and acknowledgement by the user.                           *)

\* cancel, also for a closed port and an expired import.
CancelImport(i) ==
    /\ live = i /\ ~import[i].cancelled
    /\ IF import[i].phase = "finalizing"
       THEN /\ import' = [import EXCEPT ![i].abandoned = TRUE]
            /\ UNCHANGED <<live, cancelling>>
       ELSE IF commit.id # i
       THEN Dropped(i) /\ UNCHANGED cancelling
       ELSE /\ import' = [import EXCEPT ![i].cancelled = TRUE]
            /\ IF import[i].begun
               THEN cancelling' = cancelling \cup {i} /\ UNCHANGED live
               ELSE Destroyed(i) /\ UNCHANGED cancelling
    /\ UNCHANGED <<journals, worldVars, sessionVars, gateVars, acks, commit, inspecting, cleanup,
                   acking, reconcile, queued, barrierOp, ready, disturbed, released, completed>>

\* The journal cancels import i, or cannot: the caller blocks the account on
\* one of these flags of what was cancelled, and on a failure.
CancelInJournal(i, blocking) ==
    \/ /\ i \in Stored /\ WriteHolds
       /\ Update(i, Cancelled(Entry(i)))
       /\ blocked' = IF \E f \in blocking : Cancelled(Entry(i)).flag[f]
                     THEN blocked \cup {import[i].account} ELSE blocked
    \/ /\ IF i \in Stored THEN WriteFails ELSE UNCHANGED disturbed
       /\ blocked' = blocked \cup {import[i].account}
       /\ UNCHANGED journals

CancelReturns(i) ==
    /\ i \in cancelling /\ JournalFree
    /\ CancelInJournal(i, {"requiresReconcile"})
    /\ cancelling' = cancelling \ {i}
    /\ Destroyed(i)
    /\ UNCHANGED <<worldVars, sessionVars, import, maintenance, startupReady,
                   globalImportBlocked, active, acks, commit, inspecting, cleanup, acking,
                   reconcile, queued, barrierOp, ready, released, completed>>

\* acknowledgeImportResult.
AckResult(i) ==
    /\ ready.step = "ready" /\ maintenance = "none"
    /\ i \in acks /\ acking = NoImport /\ Current(import[i].epoch)
    /\ acking' = i
    /\ UNCHANGED <<journals, worldVars, sessionVars, import, live, gateVars, acks, commit,
                   inspecting, cleanup, cancelling, reconcile, queued, barrierOp, ready,
                   disturbed, released, completed>>

\* The result is known to the user; a file with nothing owed is free again.
AckReturns ==
    /\ acking # NoImport /\ JournalFree
    /\ acking' = NoImport
    /\ LET i == acking
           kept == UNCHANGED <<journals, acks, released>>
       IN
       \/ /\ i \in Stored /\ DeliverAllowed(Entry(i)) /\ WriteHolds
          /\ Update(i, Delivered(Entry(i)))
          /\ released' = IF Delivered(Entry(i)).flag["replayBarrier"] THEN released
                         ELSE released \cup {i}
          /\ acks' = IF MaintenanceCurrent(import[i].epoch) /\ ~Entry(i).flag["unresolved"]
                     THEN acks \ {i} ELSE acks
       \/ ~(i \in Stored /\ DeliverAllowed(Entry(i))) /\ kept /\ UNCHANGED disturbed
       \/ WriteFails /\ kept
    /\ UNCHANGED <<worldVars, sessionVars, import, live, gateVars, commit, inspecting, cleanup,
                   cancelling, reconcile, queued, barrierOp, ready, completed>>

-----------------------------------------------------------------------------
(* Session transitions, and what the lifecycle does about them.            *)

\* revokeAll, called when a transition starts: every import is gone from
\* memory at once; the journal of a committing one is cancelled afterwards.
TransitionStart ==
    /\ epoch < MaxTransitions
    /\ epoch' = epoch + 1 /\ owner' = None
    /\ LET revoked == {i \in {live} \ {NoImport} : import[i].begun} IN
       /\ cleanup' = cleanup \cup {<<epoch + 1, i>> : i \in revoked}
       /\ maintenance' = IF revoked = {} THEN "none" ELSE "clearing"
    /\ import' = [i \in Imports |->
          IF i # live THEN import[i]
          ELSE IF commit.id # i THEN Spent(i)
          ELSE [import[i] EXCEPT !.cancelled = TRUE,
                                 !.abandoned = @ \/ import[i].phase = "finalizing"]]
    /\ live' = NoImport
    /\ startupReady' = FALSE /\ active' = None /\ acks' = {}
    /\ UNCHANGED <<journals, worldVars, globalImportBlocked, blocked, commit, inspecting,
                   cancelling, acking, reconcile, queued, barrierOp, ready, disturbed,
                   released, completed>>

\* Only the latest revocation reopens the controller.
CleanupReturns(e, i) ==
    /\ <<e, i>> \in cleanup /\ JournalFree
    /\ CancelInJournal(i, {"requiresReconcile", "unresolved"})
    /\ cleanup' = cleanup \ {<<e, i>>}
    /\ IF epoch = e THEN LeaveMaintenance("clearing") ELSE UNCHANGED maintenance
    /\ UNCHANGED <<worldVars, sessionVars, import, live, startupReady, globalImportBlocked,
                   active, acks, commit, inspecting, cancelling, acking, reconcile, queued,
                   barrierOp, ready, released, completed>>

\* The transition settles with an account in session.
TransitionSettles(a) ==
    /\ owner = None
    /\ owner' = a
    /\ queued' = queued + 1
    /\ UNCHANGED <<journals, worldVars, epoch, import, live, gateVars, acks, commit, inspecting,
                   cleanup, cancelling, acking, reconcile, barrierOp, ready, disturbed,
                   released, completed>>

\* The user asks for a synchronisation, which reconciles afterwards.
ManualSync ==
    /\ MayDisturb /\ owner # None
    /\ disturbed' = disturbed + 1
    /\ queued' = queued + 1
    /\ UNCHANGED <<journals, worldVars, sessionVars, import, live, gateVars, acks, commit,
                   inspecting, cleanup, cancelling, acking, reconcile, barrierOp, ready,
                   released, completed>>

-----------------------------------------------------------------------------
(* Start of the worker.  Ports wait for transferReady, and are refused for *)
(* good if it failed.                                                      *)

startElse == <<worldVars, sessionVars, import, live, active, acks, commit, inspecting, cleanup,
               cancelling, acking, reconcile, barrierOp, released, completed>>

\* inspectJournalForStartup.
StartupBegins ==
    /\ ready.step = "pending"
    /\ \/ /\ EnterMaintenance("startup")
          /\ globalImportBlocked' = TRUE
          /\ ready' = [step |-> "inspecting", epoch |-> epoch]
       \/ /\ ~MaintenanceFree
          /\ ready' = [ready EXCEPT !.step = "failed"]
          /\ UNCHANGED <<maintenance, globalImportBlocked>>
    /\ UNCHANGED <<startElse, journals, startupReady, blocked, queued, disturbed>>

StartupReturns ==
    /\ ready.step = "inspecting" /\ JournalFree
    /\ \/ /\ WriteHolds /\ journals' = AfterInspection
          /\ IF epoch = ready.epoch /\ maintenance # "clearing"
             THEN /\ startupReady' = TRUE
                  /\ Refreshed(journals')
                  /\ ready' = [ready EXCEPT !.step = "reconciling"]
                  /\ queued' = queued + 1
             ELSE /\ ready' = [ready EXCEPT !.step = "failed"]
                  /\ UNCHANGED <<startupReady, globalImportBlocked, blocked, queued>>
       \/ /\ WriteFails
          /\ ready' = [ready EXCEPT !.step = "failed"]
          /\ UNCHANGED <<journals, startupReady, globalImportBlocked, blocked, queued>>
    /\ LeaveMaintenance("startup")
    /\ UNCHANGED startElse

\* The reconciliation of the start has run, or failed.
StartupDone ==
    /\ ready.step = "reconciling" /\ queued = 0 /\ reconcile.step = "idle"
    /\ ready' = [ready EXCEPT !.step = "ready"]
    /\ UNCHANGED <<startElse, journals, maintenance, startupReady, globalImportBlocked,
                   blocked, queued, disturbed>>

-----------------------------------------------------------------------------
(* reconcileCurrentAccount, one at a time, after the revocations.          *)

reconcileElse == <<worldVars, sessionVars, import, live, acks, commit, inspecting, cleanup,
                   cancelling, acking, barrierOp, ready, released, completed>>

\* The account is blocked while it is reconciled.
ReconcileBegins ==
    /\ queued > 0 /\ reconcile.step = "idle" /\ cleanup = {}
    /\ queued' = queued - 1
    /\ IF MaintenanceFree /\ owner # None
       THEN /\ maintenance' = "reconcile"
            /\ reconcile' = [NoReconcile EXCEPT !.step = "inspect", !.account = owner,
                                !.epoch = epoch, !.forced = owner \in blocked]
            /\ active' = owner
            /\ blocked' = blocked \cup {owner}
       ELSE UNCHANGED <<maintenance, reconcile, active, blocked>>
    /\ UNCHANGED <<reconcileElse, journals, startupReady, globalImportBlocked, disturbed>>

\* The reconciliation ends, in success or in failure; a failure leaves the
\* account blocked.
\* mutant of ReconcileEnds: maintenance is not left.
ReconcileEndsInside == reconcile' = NoReconcile /\ UNCHANGED maintenance

ReconcileEnds == reconcile' = NoReconcile /\ LeaveMaintenance("reconcile")
ReconcileFails == ReconcileEnds /\ blocked' = blocked \cup {reconcile.account}

\* What each import of the account needs: decided from this inspection.
ToReview(js) ==
    LET needs == {i \in DOMAIN js :
            /\ js[i].account = reconcile.account
            /\ js[i].entry.flag["requiresReconcile"] \/ js[i].entry.flag["replayBarrier"]}
    IN [i \in needs |->
            IF js[i].entry.flag["requiresReconcile"] THEN "reconcile"
            ELSE IF js[i].entry.flag["reconciled"] THEN "none" ELSE "review"]

ReconcileInspects ==
    /\ reconcile.step = "inspect" /\ JournalFree /\ barrierOp.step = "idle"
    /\ \/ /\ WriteHolds /\ journals' = AfterInspection
          /\ IF epoch # reconcile.epoch \/ maintenance = "clearing"
             THEN ReconcileFails /\ UNCHANGED <<startupReady, globalImportBlocked>>
             ELSE LET todo == ToReview(journals') IN
                  /\ startupReady' = TRUE
                  /\ globalImportBlocked' = FALSE
                  /\ IF todo = <<>> /\ ~reconcile.forced
                     THEN ReconcileEnds /\ blocked' = BlockedBy(journals')
                     ELSE /\ reconcile' = [reconcile EXCEPT !.step = "sync", !.forced = FALSE,
                                                     !.todo = todo]
                          /\ blocked' = BlockedBy(journals') \cup {reconcile.account}
                          /\ UNCHANGED maintenance
       \/ WriteFails /\ ReconcileFails /\ UNCHANGED <<journals, startupReady, globalImportBlocked>>
    /\ UNCHANGED <<reconcileElse, active, queued>>

\* vault.sync, forced.
ReconcileSyncs ==
    /\ reconcile.step = "sync"
    /\ \/ /\ MaintenanceCurrent(reconcile.epoch)
          /\ reconcile' = [reconcile EXCEPT !.step = "acknowledge"]
          /\ UNCHANGED <<maintenance, blocked>>
       \/ ReconcileFails
    /\ UNCHANGED <<reconcileElse, journals, startupReady, globalImportBlocked, active, queued, disturbed>>

\* One import after the other is marked as reconciled.
ReconcileAcknowledges(i) ==
    /\ reconcile.step = "acknowledge" /\ JournalFree
    /\ i \in DOMAIN reconcile.todo
    /\ LET need == reconcile.todo[i]
           allowed == \/ need = "none"
                      \/ /\ i \in Stored
                         /\ \/ need = "reconcile" /\ ReconcileAllowed(Entry(i))
                            \/ need = "review" /\ BarrierReviewAllowed(Entry(i))
           rest == DOMAIN reconcile.todo \ {i}
           goesOn == reconcile' = [reconcile EXCEPT !.todo = [k \in rest |-> reconcile.todo[k]]]
                     /\ UNCHANGED <<maintenance, blocked>>
       IN
       \/ /\ MaintenanceCurrent(reconcile.epoch) /\ allowed /\ WriteHolds
          /\ \/ need = "reconcile" /\ Update(i, Reconciled(Entry(i)))
             \/ need = "review" /\ Update(i, BarrierReviewed(Entry(i)))
             \/ need = "none" /\ UNCHANGED journals
          /\ goesOn
       \/ /\ ~(MaintenanceCurrent(reconcile.epoch) /\ allowed)
          /\ ReconcileFails /\ UNCHANGED <<journals, disturbed>>
       \/ WriteFails /\ ReconcileFails /\ UNCHANGED journals
    /\ UNCHANGED <<reconcileElse, startupReady, globalImportBlocked, active, queued>>

\* The journal is read back, and the account is free again.
ReconcileReturns ==
    /\ reconcile.step = "acknowledge" /\ DOMAIN reconcile.todo = {} /\ JournalFree
    /\ \/ /\ WriteHolds /\ journals' = AfterInspection
          /\ IF epoch # reconcile.epoch \/ maintenance = "clearing"
             THEN ReconcileFails /\ UNCHANGED globalImportBlocked
             ELSE ReconcileEnds /\ Refreshed(journals')
       \/ WriteFails /\ ReconcileFails /\ UNCHANGED <<journals, globalImportBlocked>>
    /\ UNCHANGED <<reconcileElse, startupReady, active, queued>>

-----------------------------------------------------------------------------
(* inspectReplayBarriers and clearReplayBarrier, for the user.             *)

barrierElse == <<worldVars, sessionVars, import, live, commit, inspecting, cleanup, cancelling,
                 acking, reconcile, queued, ready, completed>>

\* A barrier may be lifted once a reconciliation has been reviewed.
Clearable(i) == i \in Stored /\ ClearAllowed(Entry(i)) /\ i \notin acks

\* target is the import whose barrier is lifted, or NoImport to look only.
BarrierBegins(target) ==
    /\ ready.step = "ready" /\ barrierOp.step = "idle"
    /\ EnterMaintenance("barrier") /\ owner # None
    /\ target # NoImport => Clearable(target) /\ journals[target].account = owner
    /\ barrierOp' = [step |-> IF target = NoImport THEN "inspect" ELSE "clear",
                     target |-> target, account |-> owner, epoch |-> epoch]
    /\ active' = owner
    /\ UNCHANGED <<barrierElse, journals, acks, startupReady, globalImportBlocked, blocked,
                   disturbed, released>>

BarrierEnds == barrierOp' = NoBarrierOp /\ LeaveMaintenance("barrier")
BarrierFails ==
    /\ BarrierEnds
    /\ blocked' = IF barrierOp.target = NoImport THEN blocked ELSE blocked \cup {barrierOp.account}

BarrierClears ==
    /\ barrierOp.step = "clear" /\ JournalFree
    /\ LET i == barrierOp.target IN
       \/ /\ i \in Stored /\ ClearAllowed(Entry(i)) /\ WriteHolds
          /\ Update(i, Cleared(Entry(i)))
          /\ released' = released \cup {i}
          /\ IF MaintenanceCurrent(barrierOp.epoch)
             THEN /\ acks' = acks \ {i}
                  /\ barrierOp' = [barrierOp EXCEPT !.step = "inspect"]
                  /\ UNCHANGED <<maintenance, blocked>>
             ELSE BarrierFails /\ UNCHANGED acks
       \/ /\ ~(i \in Stored /\ ClearAllowed(Entry(i))) /\ UNCHANGED disturbed
          /\ BarrierFails /\ UNCHANGED <<journals, acks, released>>
       \/ WriteFails /\ BarrierFails /\ UNCHANGED <<journals, acks, released>>
    /\ UNCHANGED <<barrierElse, startupReady, globalImportBlocked, active>>

\* The journal is read back; after a lifted barrier without looking whether
\* the session was revoked meanwhile.
BarrierReturns ==
    /\ barrierOp.step = "inspect" /\ JournalFree
    /\ \/ /\ WriteHolds /\ journals' = AfterInspection
          /\ BarrierEnds
          /\ IF barrierOp.target # NoImport \/ MaintenanceCurrent(barrierOp.epoch)
             THEN startupReady' = TRUE /\ Refreshed(journals')
             ELSE UNCHANGED <<startupReady, globalImportBlocked, blocked>>
       \/ /\ WriteFails /\ BarrierFails
          /\ UNCHANGED <<journals, startupReady, globalImportBlocked>>
    /\ UNCHANGED <<barrierElse, acks, active, released>>

-----------------------------------------------------------------------------
\* The worker stops, and starts again with some account in session.  The
\* answer of a request that was waiting is lost.
Crash ==
    /\ MayDisturb /\ disturbed' = disturbed + 1
    /\ wire' = IF commit.step = "waiting" THEN wire \cup {<<commit.id, Here>>} ELSE wire
    /\ UNCHANGED server
    /\ owner' \in Accounts
    /\ MemoryReset
    /\ import' = [i \in Imports |->
          IF import[i].phase = "none" THEN import[i] ELSE Spent(i)]
    /\ UNCHANGED <<journals, epoch, released, completed>>

CommitStep(i) ==
    \/ CommitStops(i) \/ CommitInspects(i) \/ CommitInspected(i)
    \/ CommitBegins(i) \/ CommitBegun(i)
    \/ Skip(i) \/ Mark(i) \/ Dispatch(i) \/ Send(i) \/ Answer(i) \/ Settle(i)
    \/ AllSent(i) \/ Synced(i) \/ Audit(i) \/ Complete(i) \/ Finalized(i) \/ CommitFails(i)

ReconcileStep ==
    \/ ReconcileBegins \/ ReconcileInspects \/ ReconcileSyncs
    \/ \E i \in Imports : ReconcileAcknowledges(i)
    \/ ReconcileReturns

StartupStep == StartupBegins \/ StartupReturns \/ StartupDone
BarrierStep == BarrierClears \/ BarrierReturns

UserStep(i) ==
    \/ \E s \in Sources : BeginImport(i, s)
    \/ SealAndInspect(i) \/ StartCommit(i)
    \/ CancelImport(i) \/ AckResult(i)

InspectStep(i) == InspectFails(i) \/ InspectJournal(i) \/ InspectReturns(i)

CleanupStep == \E c \in cleanup : CleanupReturns(c[1], c[2])

Next ==
    \/ \E i \in Imports : UserStep(i) \/ InspectStep(i) \/ CommitStep(i) \/ CancelReturns(i)
    \/ AckReturns
    \/ TransitionStart \/ CleanupStep
    \/ \E a \in Accounts : TransitionSettles(a)
    \/ ManualSync \/ ReconcileStep \/ StartupStep
    \/ \E i \in Imports \cup {NoImport} : BarrierBegins(i)
    \/ BarrierStep
    \/ Crash

Spec == Init /\ [][Next]_vars

-----------------------------------------------------------------------------
(* Properties.                                                             *)

\* The state is well formed, and the reader of the journal accepts whatever
\* the operations leave behind, in any order: otherwise no import would ever be
\* allowed again (hasValidPhaseInvariants).
TypeOK ==
    /\ Stored \subseteq Imports
    /\ \A i \in Stored : /\ journals[i].account \in Accounts /\ journals[i].source \in Sources
                         /\ Entry(i) \in JournalEntry
    /\ server \subseteq Imports \X Entries /\ wire \subseteq Imports \X Entries
    /\ owner \in Accounts \cup {None} /\ epoch \in 0 .. MaxTransitions
    /\ live \in Imports \cup {NoImport} /\ commit.id \in Imports \cup {NoImport}
    /\ maintenance \in {"none", "startup", "barrier", "reconcile", "clearing"}
    /\ blocked \subseteq Accounts /\ active \in Accounts \cup {None}
    /\ acks \subseteq Imports /\ released \subseteq Imports

JournalReadable ==
    /\ TypeOK
    /\ \A i \in Stored : Readable(Entry(i))
    /\ Cardinality(Stored) <= MaxJournals

\* A write that reached the server, or may still do so, is on record with its
\* barrier up, through crashes, failed writes and evictions, until the file
\* was released: by the user, or by the delivery of a full result.
MaySent == server \cup wire \cup
           (IF commit.step \in {"sending", "waiting"} THEN {<<commit.id, Here>>} ELSE {})

EvidenceKept ==
    \A r \in MaySent : r[1] \notin released =>
        /\ r[1] \in Stored
        /\ Entry(r[1]).flag["replayBarrier"]
        /\ \/ Entry(r[1]).inFlight = r[2]
           \/ Entry(r[1]).outcome[r[2]] \in {"committed"} \cup Unknown

\* What the journal calls committed, refused or skipped is what the server
\* has, and a cancelled import created nothing: no late request turns a known
\* outcome into a lie.  A user who is told that an import is complete has all
\* of it on the server.
OutcomesAreTrue ==
    /\ \A i \in Stored : \A e \in Entries :
        /\ Entry(i).outcome[e] = "committed" => <<i, e>> \in server
        /\ Entry(i).outcome[e] \in {"rejected", "skipped"} => <<i, e>> \notin MaySent
        /\ Entry(i).phase = "cancelled" => <<i, e>> \notin MaySent
    /\ \A i \in completed : \A e \in Entries : <<i, e>> \in server

\* No entry of a file is sent for an account on whose server it may already
\* be, unless the earlier import was released.
SendsOnce ==
    \A i, k \in Imports : \A e \in Entries :
        /\ commit.id = i /\ commit.step = "sending" /\ commit'.step = "waiting" /\ Here = e
        /\ k # i /\ <<k, e>> \in MaySent
        /\ import[k].account = import[i].account /\ import[k].source = import[i].source
        => k \in released

NoSilentDuplicate == [][SendsOnce]_vars

\* Whatever closed the controller is still under way and will reopen it: a
\* revocation that overtakes a reconciliation, or a second revocation, leaves
\* no maintenance behind that nobody ends.
MaintenanceIsHeld ==
    /\ maintenance = "clearing" => \E i \in Imports : <<epoch, i>> \in cleanup
    /\ maintenance = "reconcile" => reconcile.step # "idle"
    /\ maintenance = "barrier" => barrierOp.step # "idle"
    /\ maintenance = "startup" => ready.step = "inspecting"

=============================================================================
