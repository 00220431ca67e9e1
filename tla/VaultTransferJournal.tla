------------------------ MODULE VaultTransferJournal ------------------------
(***************************************************************************)
(* One entry of the durable journal of vault imports, and what each        *)
(* operation of the journal store makes of it.  The store reads its state, *)
(* changes one entry and writes once, one operation at a time: here an     *)
(* operation is a guard (what the code refuses to do) and a new entry.     *)
(*                                                                         *)
(* The entry is what survives of an import: which folders and items it     *)
(* may have created on the server, and whether the same file may be        *)
(* imported again.  Aliases, pages, timestamps and byte limits are left    *)
(* out; an instant is the fact that it was recorded.                       *)
(***************************************************************************)
EXTENDS Naturals

CONSTANTS Entries,   \* source positions of an import: its folders and items
          Nothing    \* no request is in flight

ASSUME EntryAssumption == Nothing \notin Entries

Phases == {"prepared", "committing", "reconcile_required", "completed", "cancelled"}

\* "interrupted" is an unknown outcome coded service_worker_restarted.
Unknown == {"unknown", "interrupted"}
Statuses == {"none", "committed", "rejected", "skipped"} \cup Unknown

JournalFlags == {"requiresReconcile", "replayBarrier", "unresolved", "explicitClear",
                 "reconciled", "delivered"}

\* One stored entry: its phase, its flags, the request that was sent and not
\* answered, and the recorded outcome of every source position.
JournalEntry ==
    [phase : Phases, flag : [JournalFlags -> BOOLEAN],
     inFlight : Entries \cup {Nothing}, outcome : [Entries -> Statuses]]

BlankJournal ==
    [phase |-> "prepared", flag |-> [f \in JournalFlags |-> FALSE],
     inFlight |-> Nothing, outcome |-> [e \in Entries |-> "none"]]

-----------------------------------------------------------------------------
(* What an entry says.                                                     *)

IsWritable(j) == j.phase \in {"prepared", "committing"}
HasUnknown(j) == \E e \in Entries : j.outcome[e] \in Unknown

\* A recorded outcome says that a write reached the server, or may have.
HasEvidence(j) == \E e \in Entries : j.outcome[e] \in {"committed"} \cup Unknown

Answered(j, e) == j.outcome[e] # "none"

\* mutant of IsEvictable: a finished import is evicted with its barrier.
IsEvictableAny(j) == j.phase \in {"completed", "cancelled"}

\* An entry no longer needed to keep the same file from being imported twice.
IsEvictable(j) == j.phase \in {"completed", "cancelled"} /\ ~j.flag["replayBarrier"]

\* What the reader of the storage demands.  Storage with an entry that fails
\* it is refused as a whole, and imports stay blocked.
ReadablePhase(j) ==
    LET f == j.flag IN
    /\ j.phase = "prepared" =>
            /\ ~f["requiresReconcile"] /\ ~f["replayBarrier"]
            /\ ~f["reconciled"] /\ ~f["delivered"]
            /\ j.inFlight = Nothing
            /\ \A e \in Entries : j.outcome[e] = "none"
    /\ j.phase = "committing" =>
            ~f["requiresReconcile"] /\ ~f["reconciled"] /\ ~HasUnknown(j)
    /\ j.phase = "reconcile_required" =>
            f["requiresReconcile"] /\ ~f["reconciled"] /\ j.inFlight = Nothing
    /\ j.phase = "cancelled" =>
            /\ ~f["requiresReconcile"] /\ ~f["replayBarrier"]
            /\ ~f["reconciled"] /\ ~f["delivered"]
            /\ j.inFlight = Nothing
            /\ ~HasEvidence(j)
    /\ j.phase = "completed" =>
            /\ ~f["requiresReconcile"]
            /\ j.inFlight = Nothing
            /\ f["reconciled"] \/ ~HasUnknown(j)

Readable(j) ==
    LET f == j.flag
        evidence == j.inFlight # Nothing \/ HasEvidence(j)
    IN
    /\ j.inFlight # Nothing => ~Answered(j, j.inFlight)
    /\ f["replayBarrier"] => evidence
    /\ evidence /\ ~f["replayBarrier"] =>
           j.phase = "completed" /\ (f["delivered"] \/ f["reconciled"])
    /\ f["unresolved"] => HasUnknown(j) /\ f["replayBarrier"]
    /\ f["explicitClear"] =>
           f["replayBarrier"] /\ j.phase \in {"reconcile_required", "completed"}
    /\ HasUnknown(j) /\ ~f["unresolved"] =>
           j.phase = "completed" /\ ~f["replayBarrier"] /\ f["reconciled"]
    /\ f["delivered"] => j.phase \in {"completed", "reconcile_required"}
    /\ f["delivered"] /\ j.phase = "completed" /\ f["replayBarrier"] =>
           f["unresolved"] \/ f["explicitClear"]
    /\ ReadablePhase(j)

-----------------------------------------------------------------------------
(* The operations.                                                         *)

\* markInFlight, awaited before the request is sent.
MarkAllowed(j, e) == IsWritable(j) /\ j.inFlight = Nothing /\ ~Answered(j, e)

Marked(j, e) ==
    [j EXCEPT !.inFlight = e, !.phase = "committing", !.flag["replayBarrier"] = TRUE]

\* settleInFlight: the marker gives way to the outcome.
SettleAllowed(j, e) == IsWritable(j) /\ j.inFlight = e

Settled(j, status) ==
    LET answered == [j EXCEPT !.inFlight = Nothing, !.outcome[j.inFlight] = status]
    IN [answered EXCEPT
           !.phase = IF status \in Unknown THEN "reconcile_required" ELSE "committing",
           !.flag = [@ EXCEPT !["replayBarrier"] = HasEvidence(answered),
                              !["requiresReconcile"] = j.flag["requiresReconcile"] \/ status \in Unknown,
                              !["unresolved"] = j.flag["unresolved"] \/ status \in Unknown]]

\* recordSkipped: the folder of the item was refused.
SkipAllowed(j, e) == MarkAllowed(j, e)
Skipped(j, e) == [j EXCEPT !.outcome[e] = "skipped", !.phase = "committing"]

\* complete: a second call, and one that agrees with a reconciliation already
\* due, change nothing.
CompleteAllowed(j, reconcile) ==
    /\ j.inFlight = Nothing
    /\ j.phase # "cancelled"
    /\ j.phase = "completed" => ~reconcile
    /\ ~reconcile => ~j.flag["requiresReconcile"]

Completed(j, reconcile) ==
    IF j.phase = "completed" \/ (j.phase = "reconcile_required" /\ reconcile) THEN j
    ELSE [j EXCEPT
             !.phase = IF reconcile THEN "reconcile_required" ELSE "completed",
             !.flag = [@ EXCEPT
                 !["requiresReconcile"] = reconcile,
                 !["explicitClear"] = j.flag["explicitClear"] \/ (reconcile /\ j.flag["replayBarrier"])]]

-----------------------------------------------------------------------------
\* mutant of Abandoned: the outcome has a status the reader does not know.
AbandonedUnread(j, code) ==
    IF j.inFlight = Nothing THEN j
    ELSE [j EXCEPT !.inFlight = Nothing, !.outcome[j.inFlight] = "cancelled",
                   !.flag["unresolved"] = TRUE]

\* A request that nobody will hear of again: its outcome is unknown.
Abandoned(j, code) ==
    IF j.inFlight = Nothing THEN j
    ELSE [j EXCEPT !.inFlight = Nothing, !.outcome[j.inFlight] = code,
                   !.flag["unresolved"] = TRUE]

\* An import that stopped in the middle waits for a synchronisation; if every
\* outcome is known, the user has to lift its barrier.
AwaitsReconcile(j) ==
    [j EXCEPT
        !.phase = "reconcile_required",
        !.flag = [@ EXCEPT
            !["requiresReconcile"] = TRUE,
            !["explicitClear"] =
                j.flag["explicitClear"] \/ (HasEvidence(j) /\ ~j.flag["unresolved"])]]

\* mutant of Cancelled: a cancelled import forgets what it wrote.
CancelledClean(j) ==
    IF j.phase \in {"completed", "cancelled"} THEN j
    ELSE [j EXCEPT !.phase = "cancelled", !.inFlight = Nothing,
                   !.flag = [@ EXCEPT !["requiresReconcile"] = FALSE,
                                      !["replayBarrier"] = FALSE]]

\* cancel.
Cancelled(j) ==
    LET stopped == Abandoned(j, "unknown") IN
    IF j.phase \in {"completed", "cancelled"} THEN j
    ELSE IF HasEvidence(stopped) \/ stopped.flag["replayBarrier"] THEN AwaitsReconcile(stopped)
    ELSE [stopped EXCEPT !.phase = "cancelled", !.flag["requiresReconcile"] = FALSE]

\* inspectForStartup, what becomes of an import that was committing.
Interrupted(j) ==
    IF j.phase # "committing" THEN j
    ELSE AwaitsReconcile([Abandoned(j, "interrupted") EXCEPT
             !.flag["replayBarrier"] = @ \/ j.inFlight # Nothing])

\* acknowledgeResultDelivered: the user has seen the result.
DeliverAllowed(j) == j.phase \in {"completed", "reconcile_required"} /\ j.inFlight = Nothing

Delivered(j) ==
    IF j.flag["delivered"] THEN j
    ELSE LET resolved == /\ j.phase = "completed"
                         /\ ~j.flag["unresolved"]
                         /\ ~j.flag["explicitClear"]
         IN [j EXCEPT !.flag = [@ EXCEPT !["delivered"] = TRUE,
                                         !["replayBarrier"] = j.flag["replayBarrier"] /\ ~resolved]]

\* acknowledgeReconciled and acknowledgeReplayBarrierReconciled: a
\* synchronisation has shown the user what the import created.
ReconcileAllowed(j) ==
    j.phase = "reconcile_required" /\ j.flag["requiresReconcile"] /\ j.inFlight = Nothing
Reconciled(j) ==
    [j EXCEPT !.phase = "completed",
              !.flag = [@ EXCEPT !["requiresReconcile"] = FALSE, !["reconciled"] = TRUE]]

BarrierReviewAllowed(j) ==
    j.phase = "completed" /\ j.inFlight = Nothing /\ j.flag["replayBarrier"]
BarrierReviewed(j) == [j EXCEPT !.flag["reconciled"] = TRUE]

\* mutant of Cleared: the flags that depend on the barrier stay.
ClearedBarrier(j) == [j EXCEPT !.flag["replayBarrier"] = FALSE]

\* clearReplayBarrier: the user lets the file be imported again.
ClearAllowed(j) == j.phase = "completed" /\ j.inFlight = Nothing /\ j.flag["reconciled"]
Cleared(j) ==
    IF ~j.flag["replayBarrier"] THEN j
    ELSE [j EXCEPT !.flag = [@ EXCEPT !["replayBarrier"] = FALSE, !["unresolved"] = FALSE,
                                      !["explicitClear"] = FALSE]]


=============================================================================
