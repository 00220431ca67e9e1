------------------------- MODULE VaultTransfer_proofs ------------------------
(***************************************************************************)
(* The safety of imports, for any number of accounts, files, entries,      *)
(* imports, transitions and disturbances.                                  *)
(***************************************************************************)
EXTENDS VaultTransfer, FiniteSetTheorems, TLAPS

-----------------------------------------------------------------------------
(* One entry of the journal.  Whatever an operation of the journal store   *)
(* makes of it, the reader of the storage accepts.  The reader's           *)
(* conditions alone are not preserved: a delivered import that waits for a *)
(* reconciliation and created nothing, say, would be cancelled into an     *)
(* entry that is refused.  Sound says what else holds of the entries that  *)
(* operations make.                                                        *)

\* The barrier of an import that waits for a reconciliation has a reason, and
\* one whose result was delivered has written something.
Sound(j) ==
    /\ j \in JournalEntry /\ Readable(j)
    /\ j.phase = "reconcile_required" /\ j.flag["replayBarrier"] =>
           j.flag["unresolved"] \/ j.flag["explicitClear"]
    /\ j.phase = "reconcile_required" /\ j.flag["delivered"] => HasEvidence(j)

\* An import that has written, or that is finished.
Over(j) == HasEvidence(j) \/ j.phase \in {"completed", "cancelled"}

\* What becomes of a sound entry: it stays sound, and nothing is unwritten.
Advances(j, k) ==
    /\ Sound(k)
    /\ HasEvidence(j) => HasEvidence(k)
    /\ Over(j) => Over(k)

\* The outcomes are the same, but for the request in flight, which may have
\* been given up.
Lapses(j, k) ==
    \/ k.inFlight = j.inFlight /\ k.outcome = j.outcome
    \/ /\ j.inFlight \in Entries /\ k.inFlight = Nothing
       /\ \E code \in Unknown : k.outcome = [j.outcome EXCEPT ![j.inFlight] = code]

\* What anybody but the commit makes of an entry.
Quiet(j, k) ==
    /\ Advances(j, k)
    /\ Lapses(j, k)
    /\ j.phase = "completed" => k.phase = "completed"
    /\ k.phase = "cancelled" => j.phase = "cancelled" \/ ~j.flag["replayBarrier"]

\* An entry that is left alone.
LEMMA SameQuiet ==
    ASSUME NEW j, Sound(j)
    PROVE  Quiet(j, j)
BY DEF Quiet, Advances, Lapses

\* The first entry of an import is sound.
LEMMA BlankSound == Sound(BlankJournal)
<1> DEFINE k == BlankJournal
<1>1. k \in JournalEntry
  BY DEF BlankJournal, JournalEntry, JournalFlags, Phases, Statuses, Unknown
<1>2. /\ k.phase = "prepared" /\ k.inFlight = Nothing
      /\ \A f \in JournalFlags : k.flag[f] = FALSE
      /\ \A e \in Entries : k.outcome[e] = "none"
  BY DEF BlankJournal
<1>3. ~HasUnknown(k) /\ ~HasEvidence(k)
  BY <1>2 DEF HasUnknown, HasEvidence, Unknown
<1> HIDE DEF k
<1>4. Readable(k) /\ k.phase = "prepared"
  BY <1>2, <1>3 DEF Readable, ReadablePhase, JournalFlags
<1> QED BY <1>1, <1>4 DEF Sound, k

\* markInFlight.
LEMMA MarkAdvances ==
    ASSUME NEW j, Sound(j), NEW e \in Entries, MarkAllowed(j, e)
    PROVE  LET k == Marked(j, e) IN
           /\ Advances(j, k)
           /\ k.phase = "committing" /\ k.flag["replayBarrier"]
           /\ k.inFlight = e /\ k.outcome = j.outcome
<1> DEFINE k == Marked(j, e)
<1>0. j \in JournalEntry /\ Readable(j) BY DEF Sound
<1>1. k \in JournalEntry
  BY <1>0 DEF JournalEntry, Marked, JournalFlags, Phases
<1>2. /\ k.phase = "committing" /\ k.inFlight = e /\ k.outcome = j.outcome
      /\ k.flag["replayBarrier"] = TRUE
      /\ k.flag["requiresReconcile"] = j.flag["requiresReconcile"]
      /\ k.flag["unresolved"] = j.flag["unresolved"]
      /\ k.flag["explicitClear"] = j.flag["explicitClear"]
      /\ k.flag["reconciled"] = j.flag["reconciled"]
      /\ k.flag["delivered"] = j.flag["delivered"]
  BY <1>0 DEF JournalEntry, Marked, JournalFlags
<1>3. HasUnknown(k) = HasUnknown(j) /\ HasEvidence(k) = HasEvidence(j)
  BY <1>2 DEF HasUnknown, HasEvidence
<1> HIDE DEF k
<1>4. j.phase = "prepared" => ~HasUnknown(j)
  BY <1>0 DEF Readable, ReadablePhase, HasUnknown, Unknown
<1>5. Readable(k)
  BY <1>0, <1>2, <1>3, <1>4, EntryAssumption
     DEF Readable, ReadablePhase, MarkAllowed, IsWritable, Answered
<1> QED BY <1>0, <1>1, <1>2, <1>3, <1>5 DEF Advances, Sound, Over, k, MarkAllowed, IsWritable

\* settleInFlight.
LEMMA SettleAdvances ==
    ASSUME NEW j, Sound(j), NEW e \in Entries, SettleAllowed(j, e),
           NEW status \in {"committed", "rejected"} \cup Unknown
    PROVE  LET k == Settled(j, status) IN
           /\ Advances(j, k)
           /\ k.phase \in {"committing", "reconcile_required"}
           /\ k.flag["replayBarrier"] <=> HasEvidence(k)
           /\ k.inFlight = Nothing /\ k.outcome = [j.outcome EXCEPT ![e] = status]
<1> DEFINE k == Settled(j, status)
           answered == [j EXCEPT !.inFlight = Nothing, !.outcome[j.inFlight] = status]
<1>0. j \in JournalEntry /\ Readable(j) /\ j.inFlight = e /\ j.inFlight # Nothing
  BY EntryAssumption DEF Sound, SettleAllowed
<1>1. k \in JournalEntry
  BY <1>0 DEF JournalEntry, Settled, JournalFlags, Phases, Statuses, Unknown, HasEvidence
<1>2. /\ k.phase = (IF status \in Unknown THEN "reconcile_required" ELSE "committing")
      /\ k.inFlight = Nothing
      /\ k.outcome = [j.outcome EXCEPT ![e] = status]
  BY <1>0 DEF JournalEntry, Settled
<1>a. k.flag = [j.flag EXCEPT
          !["replayBarrier"] = HasEvidence(answered),
          !["requiresReconcile"] = j.flag["requiresReconcile"] \/ status \in Unknown,
          !["unresolved"] = j.flag["unresolved"] \/ status \in Unknown]
  BY <1>0 DEF JournalEntry, Settled
<1>b. /\ k.flag["replayBarrier"] = HasEvidence(answered)
      /\ k.flag["requiresReconcile"] = (j.flag["requiresReconcile"] \/ status \in Unknown)
      /\ k.flag["unresolved"] = (j.flag["unresolved"] \/ status \in Unknown)
      /\ k.flag["explicitClear"] = j.flag["explicitClear"]
      /\ k.flag["reconciled"] = j.flag["reconciled"]
      /\ k.flag["delivered"] = j.flag["delivered"]
  <2> HIDE DEF k, answered
  <2> QED BY <1>0, <1>a DEF JournalEntry, JournalFlags
<1>3. answered.outcome = k.outcome
  BY <1>0, <1>2 DEF JournalEntry
<1>4. HasEvidence(answered) = HasEvidence(k)
  BY <1>3 DEF HasEvidence
<1>5. j.outcome[e] = "none" /\ j.outcome \in [Entries -> Statuses]
  BY <1>0 DEF Readable, Answered, JournalEntry
<1>6. HasUnknown(k) <=> HasUnknown(j) \/ status \in Unknown
  BY <1>2, <1>5 DEF HasUnknown, Unknown
<1>7. HasEvidence(k) <=> HasEvidence(j) \/ status \in {"committed"} \cup Unknown
  BY <1>2, <1>5 DEF HasEvidence, Unknown
<1> HIDE DEF k, answered
<1>8. Readable(k)
  BY <1>0, <1>2, <1>b, <1>4, <1>6, <1>7
     DEF Readable, ReadablePhase, SettleAllowed, IsWritable, Answered
<1> QED
  BY <1>0, <1>1, <1>2, <1>b, <1>4, <1>6, <1>7, <1>8
     DEF Advances, Sound, Over, k, SettleAllowed, IsWritable, Readable, ReadablePhase

\* recordSkipped.
LEMMA SkipAdvances ==
    ASSUME NEW j, Sound(j), NEW e \in Entries, SkipAllowed(j, e)
    PROVE  LET k == Skipped(j, e) IN
           /\ Advances(j, k)
           /\ k.phase = "committing" /\ k.flag = j.flag
           /\ k.inFlight = j.inFlight /\ k.outcome = [j.outcome EXCEPT ![e] = "skipped"]
<1> DEFINE k == Skipped(j, e)
<1>0. j \in JournalEntry /\ Readable(j) BY DEF Sound
<1>1. k \in JournalEntry
  BY <1>0 DEF JournalEntry, Skipped, Phases, Statuses
<1>2. /\ k.phase = "committing" /\ k.inFlight = j.inFlight /\ k.flag = j.flag
      /\ k.outcome = [j.outcome EXCEPT ![e] = "skipped"]
  BY <1>0 DEF JournalEntry, Skipped
<1>3. j.outcome[e] = "none" /\ j.outcome \in [Entries -> Statuses]
  BY <1>0 DEF SkipAllowed, MarkAllowed, Answered, JournalEntry
<1>4. HasUnknown(k) = HasUnknown(j) /\ HasEvidence(k) = HasEvidence(j)
  BY <1>2, <1>3 DEF HasUnknown, HasEvidence, Unknown
<1> HIDE DEF k
<1>5. j.phase = "prepared" => ~HasUnknown(j)
  BY <1>0 DEF Readable, ReadablePhase, HasUnknown, Unknown
<1>6. Readable(k)
  BY <1>0, <1>2, <1>4, <1>5
     DEF Readable, ReadablePhase, SkipAllowed, MarkAllowed, IsWritable, Answered
<1> QED BY <1>0, <1>1, <1>2, <1>4, <1>6 DEF Advances, Sound, Over, k, SkipAllowed, MarkAllowed, IsWritable

\* complete.
LEMMA CompleteQuiet ==
    ASSUME NEW j, Sound(j), NEW needed \in BOOLEAN, CompleteAllowed(j, needed)
    PROVE  /\ Quiet(j, Completed(j, needed))
           /\ Completed(j, needed).flag["replayBarrier"] = j.flag["replayBarrier"]
           /\ Completed(j, needed).inFlight = Nothing
           /\ Completed(j, needed).outcome = j.outcome
           /\ needed /\ HasEvidence(j) => Over(Completed(j, needed))
           /\ ~needed => Over(Completed(j, needed))
<1> DEFINE k == Completed(j, needed)
<1>0. j \in JournalEntry /\ Readable(j) BY DEF Sound
<1>1. CASE j.phase = "completed" \/ (j.phase = "reconcile_required" /\ needed)
  <2>1. k = j BY <1>1 DEF Completed
  <2> QED BY <1>1, <2>1 DEF Quiet, Lapses, Advances, Over, CompleteAllowed
<1>2. CASE ~(j.phase = "completed" \/ (j.phase = "reconcile_required" /\ needed))
  <2>1. k \in JournalEntry
    BY <1>0, <1>2 DEF JournalEntry, Completed, JournalFlags, Phases
  <2>2. /\ k.phase = IF needed THEN "reconcile_required" ELSE "completed"
        /\ k.inFlight = j.inFlight /\ k.outcome = j.outcome
        /\ k.flag["requiresReconcile"] = needed
        /\ k.flag["replayBarrier"] = j.flag["replayBarrier"]
        /\ k.flag["unresolved"] = j.flag["unresolved"]
        /\ k.flag["explicitClear"] = (j.flag["explicitClear"] \/ (needed /\ j.flag["replayBarrier"]))
        /\ k.flag["reconciled"] = j.flag["reconciled"]
        /\ k.flag["delivered"] = j.flag["delivered"]
    BY <1>0, <1>2 DEF JournalEntry, Completed, JournalFlags
  <2>3. HasUnknown(k) = HasUnknown(j) /\ HasEvidence(k) = HasEvidence(j)
    BY <2>2 DEF HasUnknown, HasEvidence
  <2>4. j.phase = "prepared" => ~HasUnknown(j)
    BY <1>0 DEF Readable, ReadablePhase, HasUnknown, Unknown
  <2>5. j.phase \in {"prepared", "committing"}
    BY <1>0, <1>2 DEF CompleteAllowed, Readable, ReadablePhase, JournalEntry, Phases
  <2> HIDE DEF k
  <2>6. Readable(k)
    BY <1>0, <2>2, <2>3, <2>4, <2>5
       DEF Readable, ReadablePhase, CompleteAllowed, Answered
  <2> QED BY <1>0, <2>1, <2>2, <2>3, <2>5, <2>6
         DEF Quiet, Lapses, CompleteAllowed, Advances, Sound, Over, k, Readable
<1> QED BY <1>1, <1>2

-----------------------------------------------------------------------------
\* k is j with the request in flight turned into an unknown outcome.
GivesUp(j, k) ==
    /\ k \in JournalEntry
    /\ k.phase = j.phase /\ k.inFlight = Nothing /\ Lapses(j, k)
    /\ HasUnknown(k) <=> HasUnknown(j) \/ j.inFlight # Nothing
    /\ HasEvidence(k) <=> HasEvidence(j) \/ j.inFlight # Nothing
    /\ k.flag["requiresReconcile"] = j.flag["requiresReconcile"]
    /\ k.flag["replayBarrier"] = j.flag["replayBarrier"]
    /\ k.flag["unresolved"] = (j.flag["unresolved"] \/ j.inFlight # Nothing)
    /\ k.flag["explicitClear"] = j.flag["explicitClear"]
    /\ k.flag["reconciled"] = j.flag["reconciled"]
    /\ k.flag["delivered"] = j.flag["delivered"]

\* A request in flight becomes an unknown outcome, which is evidence.
LEMMA AbandonedEntry ==
    ASSUME NEW j, Sound(j), NEW code \in Unknown
    PROVE  GivesUp(j, Abandoned(j, code))
<1> DEFINE k == Abandoned(j, code)
<1>0. j \in JournalEntry /\ Readable(j) BY DEF Sound
<1>1. CASE j.inFlight = Nothing
  BY <1>0, <1>1 DEF GivesUp, Lapses, Abandoned, JournalEntry, JournalFlags
<1>2. CASE j.inFlight # Nothing
  <2>0. j.inFlight \in Entries /\ j.outcome[j.inFlight] = "none"
    BY <1>0, <1>2 DEF JournalEntry, Readable, Answered
  <2>1. k \in JournalEntry
    BY <1>0, <1>2 DEF JournalEntry, Abandoned, JournalFlags, Statuses
  <2>2. /\ k.phase = j.phase /\ k.inFlight = Nothing
        /\ k.outcome = [j.outcome EXCEPT ![j.inFlight] = code]
        /\ k.flag["requiresReconcile"] = j.flag["requiresReconcile"]
        /\ k.flag["replayBarrier"] = j.flag["replayBarrier"]
        /\ k.flag["unresolved"] = TRUE
        /\ k.flag["explicitClear"] = j.flag["explicitClear"]
        /\ k.flag["reconciled"] = j.flag["reconciled"]
        /\ k.flag["delivered"] = j.flag["delivered"]
    BY <1>0, <1>2 DEF JournalEntry, Abandoned, JournalFlags
  <2>3. HasUnknown(k) /\ HasEvidence(k)
    BY <1>0, <2>0, <2>2 DEF HasUnknown, HasEvidence, JournalEntry
  <2> HIDE DEF k
  <2>4. k.flag["unresolved"] = (j.flag["unresolved"] \/ j.inFlight # Nothing)
    BY <1>2, <2>2
  <2> QED BY <1>2, <2>0, <2>1, <2>2, <2>3, <2>4 DEF GivesUp, Lapses, k
<1> QED BY <1>1, <1>2

\* k is j, waiting for a reconciliation.
Waits(j, k) ==
    /\ k \in JournalEntry
    /\ k.phase = "reconcile_required" /\ k.inFlight = j.inFlight /\ k.outcome = j.outcome
    /\ HasUnknown(k) <=> HasUnknown(j)
    /\ HasEvidence(k) <=> HasEvidence(j)
    /\ k.flag["requiresReconcile"] = TRUE
    /\ k.flag["replayBarrier"] = j.flag["replayBarrier"]
    /\ k.flag["unresolved"] = j.flag["unresolved"]
    /\ k.flag["explicitClear"] = (j.flag["explicitClear"] \/ (HasEvidence(j) /\ ~j.flag["unresolved"]))
    /\ k.flag["reconciled"] = j.flag["reconciled"]
    /\ k.flag["delivered"] = j.flag["delivered"]

\* An entry that waits for a reconciliation.
LEMMA AwaitsEntry ==
    ASSUME NEW j \in JournalEntry
    PROVE  Waits(j, AwaitsReconcile(j))
<1> DEFINE k == AwaitsReconcile(j)
<1>1. HasEvidence(j) \in BOOLEAN
  BY DEF HasEvidence
<1>2. k \in JournalEntry
  BY <1>1 DEF JournalEntry, AwaitsReconcile, JournalFlags, Phases
<1>3. /\ k.phase = "reconcile_required" /\ k.inFlight = j.inFlight /\ k.outcome = j.outcome
      /\ k.flag["requiresReconcile"] = TRUE
      /\ k.flag["replayBarrier"] = j.flag["replayBarrier"]
      /\ k.flag["unresolved"] = j.flag["unresolved"]
      /\ k.flag["explicitClear"] = (j.flag["explicitClear"] \/ (HasEvidence(j) /\ ~j.flag["unresolved"]))
      /\ k.flag["reconciled"] = j.flag["reconciled"]
      /\ k.flag["delivered"] = j.flag["delivered"]
  BY <1>1 DEF JournalEntry, AwaitsReconcile, JournalFlags
<1>4. HasUnknown(k) = HasUnknown(j) /\ HasEvidence(k) = HasEvidence(j)
  BY <1>3 DEF HasUnknown, HasEvidence
<1> HIDE DEF k
<1> QED BY <1>2, <1>3, <1>4 DEF Waits, k

\* cancel: an import that has written, or may have, is not forgotten; it waits
\* for a reconciliation.
LEMMA CancelQuiet ==
    ASSUME NEW j, Sound(j)
    PROVE  /\ Quiet(j, Cancelled(j))
           /\ j.flag["replayBarrier"] => Cancelled(j).flag["replayBarrier"]
           /\ Cancelled(j).flag["requiresReconcile"] => HasEvidence(Cancelled(j))
<1> DEFINE k == Cancelled(j)
           s == Abandoned(j, "unknown")
<1>0. j \in JournalEntry /\ Readable(j) BY DEF Sound
<1>1. CASE j.phase \in {"completed", "cancelled"}
  <2>1. k = j BY <1>1 DEF Cancelled
  <2>2. ~j.flag["requiresReconcile"]
    BY <1>0, <1>1 DEF Readable, ReadablePhase
  <2> QED BY <2>1, <2>2 DEF Quiet, Lapses, Advances
<1>2. CASE j.phase \notin {"completed", "cancelled"}
  <2>1. GivesUp(j, s)
    BY AbandonedEntry DEF Unknown
  <2> HIDE DEF s
  <2>2. HasEvidence(s) <=> s.flag["replayBarrier"]
    BY <1>0, <1>2, <2>1 DEF GivesUp, Readable, ReadablePhase
  <2>3. CASE HasEvidence(s)
    <3>1. k = AwaitsReconcile(s)
      BY <1>2, <2>3 DEF Cancelled, s
    <3>2. Waits(s, k)
      BY <2>1, <3>1, AwaitsEntry DEF GivesUp
    <3> HIDE DEF k
    <3>3. Readable(k)
      BY <1>0, <1>2, <2>1, <2>2, <2>3, <3>2
         DEF GivesUp, Waits, Readable, ReadablePhase, JournalEntry, Phases
    <3>4. Lapses(j, k)
      BY <2>1, <3>2 DEF GivesUp, Waits, Lapses
    <3>5. Advances(j, k)
      BY <2>2, <2>3, <2>1, <3>2, <3>3 DEF GivesUp, Waits, Advances, Sound, Over
    <3> QED BY <1>2, <2>1, <2>3, <3>2, <3>4, <3>5 DEF GivesUp, Waits, Quiet, k
  <2>4. CASE ~HasEvidence(s)
    <3>1. k = [s EXCEPT !.phase = "cancelled", !.flag["requiresReconcile"] = FALSE]
      BY <1>2, <2>2, <2>4 DEF Cancelled, s
    <3> HIDE DEF k
    <3>2. k \in JournalEntry
      BY <2>1, <3>1 DEF GivesUp, JournalEntry, JournalFlags, Phases
    <3>3. /\ k.phase = "cancelled" /\ k.inFlight = Nothing /\ k.outcome = s.outcome
          /\ k.flag["requiresReconcile"] = FALSE
          /\ k.flag["replayBarrier"] = s.flag["replayBarrier"]
          /\ k.flag["unresolved"] = s.flag["unresolved"]
          /\ k.flag["explicitClear"] = s.flag["explicitClear"]
          /\ k.flag["reconciled"] = s.flag["reconciled"]
          /\ k.flag["delivered"] = s.flag["delivered"]
      BY <2>1, <3>1 DEF GivesUp, JournalEntry, JournalFlags
    <3>4. HasUnknown(k) = HasUnknown(s) /\ HasEvidence(k) = HasEvidence(s)
      BY <3>3 DEF HasUnknown, HasEvidence
    <3>5. ~HasEvidence(j) /\ ~j.flag["delivered"] /\ ~HasUnknown(j)
      BY <1>0, <1>2, <2>1, <2>4 DEF GivesUp, Sound, Readable, HasUnknown, HasEvidence
    <3>6. Readable(k)
      BY <1>0, <1>2, <2>1, <2>2, <2>4, <3>3, <3>4, <3>5 DEF GivesUp, Readable, ReadablePhase, JournalEntry, Phases
    <3>7. Lapses(j, k)
      BY <2>1, <3>3 DEF GivesUp, Lapses
    <3>8. Advances(j, k)
      BY <2>4, <3>2, <3>3, <3>4, <3>5, <3>6 DEF Advances, Sound, Over
    <3> QED BY <1>2, <2>1, <2>2, <2>4, <3>3, <3>7, <3>8 DEF GivesUp, Quiet, k
  <2> QED BY <2>3, <2>4
<1> QED BY <1>1, <1>2

\* inspectForStartup.
LEMMA InterruptQuiet ==
    ASSUME NEW j, Sound(j)
    PROVE  /\ Quiet(j, Interrupted(j))
           /\ j.flag["replayBarrier"] => Interrupted(j).flag["replayBarrier"]
<1> DEFINE k == Interrupted(j)
           s == Abandoned(j, "interrupted")
           b == [s EXCEPT !.flag["replayBarrier"] = @ \/ j.inFlight # Nothing]
<1>0. j \in JournalEntry /\ Readable(j) BY DEF Sound
<1>1. CASE j.phase # "committing"
  BY <1>1 DEF Interrupted, Quiet, Lapses, Advances
<1>2. CASE j.phase = "committing"
  <2>1. GivesUp(j, s)
    BY AbandonedEntry DEF Unknown
  <2>2. k = AwaitsReconcile(b)
    BY <1>2 DEF Interrupted
  <2> HIDE DEF s
  <2>3. b \in JournalEntry
    BY <2>1 DEF GivesUp, JournalEntry, JournalFlags
  <2>4. /\ b.inFlight = Nothing /\ b.outcome = s.outcome
        /\ b.flag["replayBarrier"] = (s.flag["replayBarrier"] \/ j.inFlight # Nothing)
        /\ b.flag["requiresReconcile"] = s.flag["requiresReconcile"]
        /\ b.flag["unresolved"] = s.flag["unresolved"]
        /\ b.flag["explicitClear"] = s.flag["explicitClear"]
        /\ b.flag["reconciled"] = s.flag["reconciled"]
        /\ b.flag["delivered"] = s.flag["delivered"]
    BY <2>1 DEF GivesUp, JournalEntry, JournalFlags
  <2>5. HasUnknown(b) = HasUnknown(s) /\ HasEvidence(b) = HasEvidence(s)
    BY <2>4 DEF HasUnknown, HasEvidence
  <2> HIDE DEF b
  <2>6. Waits(b, k)
    BY <2>2, <2>3, AwaitsEntry
  <2> HIDE DEF k
  <2>7. ~j.flag["delivered"] /\ ~HasUnknown(j) /\ ~j.flag["reconciled"]
    BY <1>0, <1>2 DEF Readable, ReadablePhase
  <2>8. HasEvidence(s) <=> k.flag["replayBarrier"]
    BY <1>0, <1>2, <2>1, <2>4, <2>6 DEF Waits, GivesUp, Readable
  <2>9. Readable(k)
    BY <1>0, <1>2, <2>1, <2>4, <2>5, <2>6, <2>7, <2>8 DEF Waits, GivesUp, Readable, ReadablePhase
  <2> QED
    BY <1>2, <2>1, <2>4, <2>5, <2>6, <2>7, <2>8, <2>9 DEF Waits, GivesUp, Quiet, Lapses, Advances, Sound, Over, k
<1> QED BY <1>1, <1>2

\* acknowledgeResultDelivered, of an import that has written or is finished.
LEMMA DeliverQuiet ==
    ASSUME NEW j, Sound(j), DeliverAllowed(j), Over(j)
    PROVE  /\ Quiet(j, Delivered(j))
           /\ j.flag["replayBarrier"] => Delivered(j).flag["replayBarrier"] \/ Delivered(j).phase = "completed"
<1> DEFINE k == Delivered(j)
           resolved == j.phase = "completed" /\ ~j.flag["unresolved"] /\ ~j.flag["explicitClear"]
<1>0. j \in JournalEntry /\ Readable(j) BY DEF Sound
<1>1. CASE j.flag["delivered"]
  BY <1>1 DEF Delivered, Quiet, Lapses, Advances, DeliverAllowed
<1>2. CASE ~j.flag["delivered"]
  <2>1. k \in JournalEntry
    BY <1>0, <1>2 DEF JournalEntry, Delivered, JournalFlags
  <2>2. /\ k.phase = j.phase /\ k.inFlight = j.inFlight /\ k.outcome = j.outcome
        /\ k.flag["requiresReconcile"] = j.flag["requiresReconcile"]
        /\ k.flag["replayBarrier"] = (j.flag["replayBarrier"] /\ ~resolved)
        /\ k.flag["unresolved"] = j.flag["unresolved"]
        /\ k.flag["explicitClear"] = j.flag["explicitClear"]
        /\ k.flag["reconciled"] = j.flag["reconciled"]
        /\ k.flag["delivered"] = TRUE
    BY <1>0, <1>2 DEF JournalEntry, Delivered, JournalFlags
  <2>3. HasUnknown(k) = HasUnknown(j) /\ HasEvidence(k) = HasEvidence(j)
    BY <2>2 DEF HasUnknown, HasEvidence
  <2> HIDE DEF k
  <2>4. Readable(k)
    BY <1>0, <2>2, <2>3 DEF Readable, ReadablePhase, DeliverAllowed, Answered
  <2> QED
    BY <1>0, <2>1, <2>2, <2>3, <2>4 DEF Quiet, Lapses, Advances, Sound, Over, k, DeliverAllowed
<1> QED BY <1>1, <1>2

-----------------------------------------------------------------------------
\* acknowledgeReconciled.
LEMMA ReconcileQuiet ==
    ASSUME NEW j, Sound(j), ReconcileAllowed(j)
    PROVE  /\ Quiet(j, Reconciled(j))
           /\ j.flag["replayBarrier"] => Reconciled(j).flag["replayBarrier"]
<1> DEFINE k == Reconciled(j)
<1>0. j \in JournalEntry /\ Readable(j) BY DEF Sound
<1>1. k \in JournalEntry
  BY <1>0 DEF JournalEntry, Reconciled, JournalFlags, Phases
<1>2. /\ k.phase = "completed" /\ k.inFlight = j.inFlight /\ k.outcome = j.outcome
      /\ k.flag["requiresReconcile"] = FALSE
      /\ k.flag["replayBarrier"] = j.flag["replayBarrier"]
      /\ k.flag["unresolved"] = j.flag["unresolved"]
      /\ k.flag["explicitClear"] = j.flag["explicitClear"]
      /\ k.flag["reconciled"] = TRUE
      /\ k.flag["delivered"] = j.flag["delivered"]
  BY <1>0 DEF JournalEntry, Reconciled, JournalFlags
<1>3. HasUnknown(k) = HasUnknown(j) /\ HasEvidence(k) = HasEvidence(j)
  BY <1>2 DEF HasUnknown, HasEvidence
<1> HIDE DEF k
<1>4. Readable(k)
  BY <1>0, <1>2, <1>3 DEF Sound, Readable, ReadablePhase, ReconcileAllowed, Answered
<1> QED BY <1>1, <1>2, <1>3, <1>4 DEF Quiet, Lapses, Advances, Sound, Over, k

\* acknowledgeReplayBarrierReconciled.
LEMMA ReviewQuiet ==
    ASSUME NEW j, Sound(j), BarrierReviewAllowed(j)
    PROVE  /\ Quiet(j, BarrierReviewed(j))
           /\ j.flag["replayBarrier"] => BarrierReviewed(j).flag["replayBarrier"]
<1> DEFINE k == BarrierReviewed(j)
<1>0. j \in JournalEntry /\ Readable(j) BY DEF Sound
<1>1. k \in JournalEntry
  BY <1>0 DEF JournalEntry, BarrierReviewed, JournalFlags
<1>2. /\ k.phase = j.phase /\ k.inFlight = j.inFlight /\ k.outcome = j.outcome
      /\ k.flag["requiresReconcile"] = j.flag["requiresReconcile"]
      /\ k.flag["replayBarrier"] = j.flag["replayBarrier"]
      /\ k.flag["unresolved"] = j.flag["unresolved"]
      /\ k.flag["explicitClear"] = j.flag["explicitClear"]
      /\ k.flag["reconciled"] = TRUE
      /\ k.flag["delivered"] = j.flag["delivered"]
  BY <1>0 DEF JournalEntry, BarrierReviewed, JournalFlags
<1>3. HasUnknown(k) = HasUnknown(j) /\ HasEvidence(k) = HasEvidence(j)
  BY <1>2 DEF HasUnknown, HasEvidence
<1> HIDE DEF k
<1>4. Readable(k)
  BY <1>0, <1>2, <1>3 DEF Readable, ReadablePhase, BarrierReviewAllowed, Answered
<1> QED BY <1>1, <1>2, <1>3, <1>4 DEF Quiet, Lapses, Advances, Sound, Over, k, BarrierReviewAllowed

\* clearReplayBarrier.
LEMMA ClearQuiet ==
    ASSUME NEW j, Sound(j), ClearAllowed(j)
    PROVE  Quiet(j, Cleared(j)) /\ Cleared(j).phase = "completed"
<1> DEFINE k == Cleared(j)
<1>0. j \in JournalEntry /\ Readable(j) BY DEF Sound
<1>1. CASE ~j.flag["replayBarrier"]
  BY <1>1 DEF Cleared, Quiet, Lapses, Advances, ClearAllowed
<1>2. CASE j.flag["replayBarrier"]
  <2>1. k \in JournalEntry
    BY <1>0, <1>2 DEF JournalEntry, Cleared, JournalFlags
  <2>2. /\ k.phase = j.phase /\ k.inFlight = j.inFlight /\ k.outcome = j.outcome
        /\ k.flag["requiresReconcile"] = j.flag["requiresReconcile"]
        /\ k.flag["replayBarrier"] = FALSE
        /\ k.flag["unresolved"] = FALSE
        /\ k.flag["explicitClear"] = FALSE
        /\ k.flag["reconciled"] = j.flag["reconciled"]
        /\ k.flag["delivered"] = j.flag["delivered"]
    BY <1>0, <1>2 DEF JournalEntry, Cleared, JournalFlags
  <2>3. HasUnknown(k) = HasUnknown(j) /\ HasEvidence(k) = HasEvidence(j)
    BY <2>2 DEF HasUnknown, HasEvidence
  <2> HIDE DEF k
  <2>4. Readable(k)
    BY <1>0, <1>2, <2>2, <2>3 DEF Readable, ReadablePhase, ClearAllowed, Answered
  <2> QED BY <1>0, <2>1, <2>2, <2>3, <2>4 DEF Quiet, Lapses, Advances, Sound, Over, k, ClearAllowed
<1> QED BY <1>1, <1>2

-----------------------------------------------------------------------------
(* The inductive invariant.                                                *)

ImportPhases == {"none", "uploading", "inspecting", "previewed", "committing", "finalizing",
                 "over"}
ImportState ==
    [phase : ImportPhases, cancelled : BOOLEAN, abandoned : BOOLEAN, begun : BOOLEAN,
     account : Accounts \cup {None}, source : Sources \cup {None}, epoch : Nat]

CommitSteps == {"idle", "replay", "inspected", "begin", "begun", "mark", "send", "sending",
                "waiting", "settle", "sync", "audit", "complete", "finalized", "failed"}
CommitState ==
    [id : Imports \cup {NoImport}, step : CommitSteps, at : Nat \ {0},
     status : {"none", "committed", "rejected", "denied", "unknown"}, reconcile : BOOLEAN]

BarrierState ==
    [step : {"idle", "inspect", "clear"}, target : Imports \cup {NoImport},
     account : Accounts \cup {None}, epoch : Nat]

\* The journal is in order.
JournalInv ==
    /\ Stored \subseteq Imports
    /\ \A i \in Stored :
          /\ journals[i] \in [account : Accounts, source : Sources, entry : JournalEntry]
          /\ Sound(Entry(i))
    /\ Cardinality(Stored) <= MaxJournals

\* An import that somebody is still concerned with has its account.
Engaged(i) ==
    \/ import[i].phase \in {"inspecting", "previewed", "committing", "finalizing"}
    \/ import[i].begun
    \/ inspecting[i] # "idle"
    \/ commit.id = i
    \/ i \in cancelling
    \/ \E c \in cleanup : c[2] = i

Known(i) ==
    /\ import[i].phase # "none" => import[i].source \in Sources
    /\ Engaged(i) => import[i].account \in Accounts /\ import[i].phase # "none"

\* The types of what the controller keeps.
MemoryInv ==
    /\ import \in [Imports -> ImportState]
    /\ \A i \in Imports : Known(i)
    /\ inspecting \in [Imports -> {"idle", "probing", "inspected"}]
    /\ live \in Imports \cup {NoImport}
    /\ live # NoImport => owner # None
    /\ commit \in CommitState
    /\ commit.step # "idle" <=> commit.id # NoImport
    /\ cleanup \subseteq (0 .. MaxTransitions) \X Imports
    /\ cancelling \subseteq Imports
    /\ acking \in Imports \cup {NoImport}
    /\ acks \subseteq Imports

\* The types of the rest.
GateInv ==
    /\ owner \in Accounts \cup {None} /\ epoch \in 0 .. MaxTransitions
    /\ maintenance \in {"none", "startup", "barrier", "reconcile", "clearing"}
    /\ blocked \subseteq Accounts /\ active \in Accounts \cup {None}
    /\ released \subseteq Imports /\ completed \subseteq Imports
    /\ barrierOp \in BarrierState
    /\ barrierOp.step # "idle" => barrierOp.account \in Accounts
    /\ barrierOp.step = "clear" => barrierOp.target \in Imports
    /\ reconcile = [step |-> reconcile.step, account |-> reconcile.account,
                    epoch |-> reconcile.epoch, forced |-> reconcile.forced,
                    todo |-> reconcile.todo]
    /\ reconcile.step # "idle" => reconcile.account \in Accounts

\* Nobody works on the import any more.
Retired(i) == import[i].phase = "over" /\ commit.id # i

\* Nothing of the import exists yet, on the server or in the journal.
Sent == server \cup wire
Fresh(i) == i \notin Stored /\ \A e \in Entries : <<i, e>> \notin Sent

\* Where an import is in its life.
Placed(i) ==
    /\ import[i].phase \notin {"none", "over"} => i = live \/ i = commit.id
    /\ import[i].phase \in {"none", "uploading", "inspecting", "previewed"} => Fresh(i)
    /\ commit.id = i => import[i].phase \in {"committing", "finalizing", "over"}
    /\ commit.id = i /\ commit.step \in {"replay", "inspected", "begin"} => Fresh(i)
    /\ i \in Stored => /\ journals[i].account = import[i].account
                       /\ journals[i].source = import[i].source

\* Every import is in its place, and who is concerned with it agrees.
LifeInv ==
    /\ \A i \in Imports : Placed(i)
    /\ live # NoImport => import[live].phase \notin {"none", "over"}
    /\ commit.id # NoImport => live \in {commit.id, NoImport}
    /\ \A i \in cancelling : commit.id = i \/ import[i].phase = "over"
    /\ \A i \in acks \cup released \cup ({acking} \ {NoImport}) : Retired(i)
    /\ barrierOp.step = "clear" => Retired(barrierOp.target)

\* The journal has the request on record, in flight or by its outcome.
Evid(j, e) == j.inFlight = e \/ j.outcome[e] \in {"committed"} \cup Unknown

Covered(i, e) ==
    \/ i \in released
    \/ i \in Stored /\ Entry(i).flag["replayBarrier"] /\ Evid(Entry(i), e)

\* What the journal says of what was sent.
EvidenceInv ==
    /\ server \subseteq Imports \X Entries /\ wire \subseteq Imports \X Entries
    /\ \A i \in Imports : \A e \in Entries : <<i, e>> \in Sent => Covered(i, e)
    /\ \A i \in Stored :
          /\ i \in released => Entry(i).phase = "completed"
          /\ \A e \in Entries :
                /\ Entry(i).outcome[e] = "committed" => <<i, e>> \in server
                /\ Entry(i).outcome[e] \in {"rejected", "skipped"} => <<i, e>> \notin Sent
                /\ Entry(i).phase = "cancelled" => <<i, e>> \notin Sent
    /\ \A i \in completed : \A e \in Entries : <<i, e>> \in server

\* Where the commit is.
CommitInv ==
    /\ commit.step \in {"send", "sending", "waiting", "settle"} =>
          /\ commit.at \in DOMAIN Plan
          /\ Covered(commit.id, Here)
          /\ commit.step # "settle" \/ commit.status \in {"rejected", "denied"} =>
                <<commit.id, Here>> \notin Sent
    /\ commit.step = "settle" =>
          /\ commit.status # "none"
          /\ commit.status = "committed" => <<commit.id, Here>> \in server
    /\ commit.step \in {"complete", "finalized"} /\ commit.id \in Stored =>
          /\ Entry(commit.id).inFlight = Nothing
          /\ \A e \in Entries : Entry(commit.id).outcome[e] \in {"committed", "rejected", "skipped"}
    /\ commit.step = "complete" /\ commit.reconcile /\ commit.id \in Stored =>
          HasEvidence(Entry(commit.id))
    /\ commit.step = "finalized" => commit.id \in Stored /\ Over(Entry(commit.id))

\* An import whose result the user may acknowledge has written, or is finished.
AckInv ==
    \A i \in acks \cup {acking} : i \in Stored => Over(Entry(i))

\* Once the journal was asked, every earlier import of the file was released.
ReplayInv ==
    commit.step \in {"begin", "begun", "mark", "send", "sending", "waiting", "settle"} =>
        \A k \in Imports : \A e \in Entries :
            /\ k # commit.id /\ <<k, e>> \in Sent
            /\ import[k].account = import[commit.id].account
            /\ import[k].source = import[commit.id].source
            => k \in released

IInv == /\ JournalInv /\ MemoryInv /\ GateInv /\ LifeInv
        /\ EvidenceInv /\ CommitInv /\ AckInv /\ ReplayInv


-----------------------------------------------------------------------------
(* The journal under an operation that is not the commit's.                *)

\* The journals of the next state are those of this one, some of them having
\* been given up or forgotten; a barrier falls only when its import is released.
QuietJournals ==
    /\ Stored' \subseteq Stored
    /\ \A i \in Stored' :
          /\ journals'[i] \in [account : Accounts, source : Sources, entry : JournalEntry]
          /\ journals'[i].account = journals[i].account
          /\ journals'[i].source = journals[i].source
          /\ Quiet(Entry(i), Entry(i)')
          /\ Entry(i).flag["replayBarrier"] => Entry(i)'.flag["replayBarrier"] \/ i \in released'
          /\ i \in released' => i \in released \/ Entry(i)'.phase = "completed"
    /\ \A i \in Stored \ Stored' : ~Entry(i).flag["replayBarrier"]
    /\ released \subseteq released'

LEMMA JournalsAlone ==
    ASSUME JournalInv, journals' = journals, released' = released
    PROVE  QuietJournals
BY SameQuiet DEF JournalInv, QuietJournals, Stored, Entry

LEMMA JournalsUpdated ==
    ASSUME JournalInv, NEW i \in Stored, NEW k, Update(i, k), Quiet(Entry(i), k),
           Entry(i).flag["replayBarrier"] => k.flag["replayBarrier"] \/ i \in released',
           released' \in {released, released \cup {i}},
           released' # released => k.phase = "completed"
    PROVE  QuietJournals
<1>1. k \in JournalEntry
  BY DEF Quiet, Advances, Sound
<1>2. Stored' = Stored
  BY DEF Update, Stored
<1>3. /\ journals'[i].account = journals[i].account /\ journals'[i].source = journals[i].source
      /\ Entry(i)' = k
      /\ journals'[i] \in [account : Accounts, source : Sources, entry : JournalEntry]
  BY <1>1 DEF Update, Stored, Entry, JournalInv
<1>4. ASSUME NEW n \in Stored, n # i
      PROVE  journals'[n] = journals[n]
  BY <1>4 DEF Update, Stored
<1>5. ASSUME NEW n \in Stored', n # i
      PROVE  /\ journals'[n] \in [account : Accounts, source : Sources, entry : JournalEntry]
             /\ journals'[n].account = journals[n].account
             /\ journals'[n].source = journals[n].source
             /\ Quiet(Entry(n), Entry(n)')
             /\ Entry(n).flag["replayBarrier"] => Entry(n)'.flag["replayBarrier"]
             /\ n \in released' => n \in released
  BY <1>2, <1>4, <1>5, SameQuiet DEF JournalInv, Entry
<1> QED BY <1>2, <1>3, <1>5 DEF QuietJournals

\* inspectForStartup, for every stored entry.
LEMMA JournalsInspected ==
    ASSUME JournalInv, journals' = AfterInspection, released' = released
    PROVE  QuietJournals
<1>1. Stored' = {k \in Stored : Entry(k).phase # "prepared"}
  BY DEF AfterInspection, Stored
<1>2. ASSUME NEW i \in Stored'
      PROVE  journals'[i] = [journals[i] EXCEPT !.entry = Interrupted(journals[i].entry)]
  BY <1>1 DEF AfterInspection
<1>3. ASSUME NEW i \in Stored'
      PROVE  /\ Quiet(Entry(i), Interrupted(Entry(i)))
             /\ Entry(i).flag["replayBarrier"] => Interrupted(Entry(i)).flag["replayBarrier"]
  BY <1>1, InterruptQuiet DEF JournalInv
<1>4. ASSUME NEW i \in Stored'
      PROVE  /\ Entry(i)' = Interrupted(Entry(i))
             /\ journals'[i].account = journals[i].account
             /\ journals'[i].source = journals[i].source
             /\ journals'[i] \in [account : Accounts, source : Sources, entry : JournalEntry]
  <2>1. Interrupted(Entry(i)) \in JournalEntry
    BY <1>3 DEF Quiet, Advances, Sound
  <2>2. i \in Stored
    BY <1>1
  <2> QED BY <1>2, <2>1, <2>2 DEF Entry, JournalInv
<1>5. ASSUME NEW i \in Stored \ Stored'
      PROVE  ~Entry(i).flag["replayBarrier"]
  BY <1>1 DEF JournalInv, Sound, Readable, ReadablePhase
<1> QED BY <1>1, <1>3, <1>4, <1>5 DEF QuietJournals

\* Quiet journals are in order.
LEMMA QuietInOrder ==
    ASSUME JournalInv, QuietJournals
    PROVE  JournalInv'
<1>1. IsFiniteSet(Stored)
  <2>1. IsFiniteSet(Imports)
    BY FS_Interval, TransferAssumption DEF Imports
  <2> QED BY <2>1, FS_Subset DEF JournalInv
<1>2. Cardinality(Stored') <= Cardinality(Stored) /\ Cardinality(Stored') \in Nat
      /\ Cardinality(Stored) \in Nat
  BY <1>1, FS_Subset, FS_CardinalityType DEF QuietJournals
<1>3. Cardinality(Stored') <= MaxJournals
  BY <1>2, TransferAssumption DEF JournalInv
<1>4. ASSUME NEW i \in Stored'
      PROVE  Sound(Entry(i)')
  BY <1>4 DEF QuietJournals, Quiet, Advances
<1> QED BY <1>3, <1>4 DEF JournalInv, QuietJournals

\* Giving up the request in flight keeps what is on record of an entry.
LEMMA LapseKeeps ==
    ASSUME NEW j \in JournalEntry, NEW k, Lapses(j, k), NEW e \in Entries, Evid(j, e)
    PROVE  Evid(k, e)
<1>1. CASE k.inFlight = j.inFlight /\ k.outcome = j.outcome
  BY <1>1 DEF Evid
<1>2. ASSUME NEW code \in Unknown, k.outcome = [j.outcome EXCEPT ![j.inFlight] = code]
      PROVE  Evid(k, e)
  <2>1. DOMAIN j.outcome = Entries
    BY DEF JournalEntry
  <2>2. CASE j.inFlight = e
    BY <1>2, <2>1, <2>2 DEF Evid
  <2>3. CASE j.inFlight # e
    BY <1>2, <2>1, <2>3 DEF Evid
  <2> QED BY <2>2, <2>3
<1> QED BY <1>1, <1>2 DEF Lapses

\* What is on record stays there.
LEMMA QuietCovers ==
    ASSUME JournalInv, QuietJournals, NEW i, NEW e \in Entries, Covered(i, e)
    PROVE  Covered(i, e)'
<1>1. CASE i \in released
  BY <1>1 DEF Covered, QuietJournals
<1>2. CASE i \notin released /\ i \notin released'
  <2>1. i \in Stored /\ Entry(i).flag["replayBarrier"] /\ Evid(Entry(i), e)
    BY <1>2 DEF Covered
  <2>2. i \in Stored' /\ Entry(i)'.flag["replayBarrier"] /\ Lapses(Entry(i), Entry(i)')
    BY <1>2, <2>1 DEF QuietJournals, Quiet
  <2>3. Entry(i) \in JournalEntry
    BY <2>1 DEF JournalInv, Sound
  <2>4. Evid(Entry(i)', e)
    BY <2>1, <2>2, <2>3, LapseKeeps
  <2> QED BY <2>2, <2>4 DEF Covered, Evid
<1>3. CASE i \in released'
  BY <1>3 DEF Covered
<1> QED BY <1>1, <1>2, <1>3

\* What the journal says of the server stays true.
LEMMA QuietEvidence ==
    ASSUME JournalInv, EvidenceInv, QuietJournals,
           server' = server, wire' = wire, completed' = completed
    PROVE  EvidenceInv'
<1>1. Sent' = Sent
  BY DEF Sent
<1>2. ASSUME NEW i \in Imports, NEW e \in Entries, <<i, e>> \in Sent'
      PROVE  Covered(i, e)'
  BY <1>1, <1>2, QuietCovers DEF EvidenceInv
<1>3. ASSUME NEW i \in Stored'
      PROVE  /\ i \in released' => Entry(i)'.phase = "completed"
             /\ \A e \in Entries :
                   /\ Entry(i)'.outcome[e] = "committed" => <<i, e>> \in server
                   /\ Entry(i)'.outcome[e] \in {"rejected", "skipped"} => <<i, e>> \notin Sent
                   /\ Entry(i)'.phase = "cancelled" => <<i, e>> \notin Sent
  <2>1. /\ i \in Stored /\ i \in Imports
        /\ Quiet(Entry(i), Entry(i)')
        /\ i \in released' => i \in released \/ Entry(i)'.phase = "completed"
    BY DEF QuietJournals, JournalInv
  <2>2. i \in released' => Entry(i)'.phase = "completed"
    BY <2>1 DEF EvidenceInv, Quiet
  <2>3. ASSUME NEW e \in Entries
        PROVE  \/ Entry(i)'.outcome[e] = Entry(i).outcome[e]
               \/ Entry(i)'.outcome[e] \in Unknown
    <3>1. Entry(i) \in JournalEntry
      BY <2>1 DEF JournalInv, Sound
    <3> QED BY <2>1, <3>1 DEF Quiet, Lapses, JournalEntry
  <2>4. ASSUME NEW e \in Entries, Entry(i)'.phase = "cancelled"
        PROVE  <<i, e>> \notin Sent
    <3>1. CASE Entry(i).phase = "cancelled"
      BY <2>1, <3>1 DEF EvidenceInv
    <3>2. CASE ~Entry(i).flag["replayBarrier"] /\ Entry(i).phase # "cancelled"
      <4>1. i \notin released
        BY <2>1, <2>4 DEF EvidenceInv, Quiet
      <4> QED BY <2>1, <3>2, <4>1 DEF EvidenceInv, Covered
    <3> QED BY <2>1, <2>4, <3>1, <3>2 DEF Quiet
  <2> QED BY <2>1, <2>2, <2>3, <2>4 DEF EvidenceInv, Unknown
<1> QED BY <1>1, <1>2, <1>3 DEF EvidenceInv

\* An import that may be acknowledged stays so.
LEMMA QuietAcks ==
    ASSUME JournalInv, AckInv, QuietJournals,
           acks' \cup {acking'} \subseteq acks \cup {acking, NoImport}
    PROVE  AckInv'
<1>1. NoImport \notin Stored
  BY DEF JournalInv, NoImport, Imports
<1>2. ASSUME NEW i \in acks' \cup {acking'}, i \in Stored'
      PROVE  Over(Entry(i)')
  <2>1. i \in Stored /\ Quiet(Entry(i), Entry(i)')
    BY <1>2 DEF QuietJournals
  <2>2. i \in acks \cup {acking}
    BY <1>1, <2>1
  <2> QED BY <2>1, <2>2 DEF AckInv, Quiet, Advances
<1> QED BY <1>2 DEF AckInv

\* The commit finds what it left.
LEMMA QuietCommit ==
    ASSUME JournalInv, CommitInv, QuietJournals, UNCHANGED <<server, wire, commit>>,
           commit.step = "finalized" => Stored' = Stored
    PROVE  CommitInv'
<1>1. Here' = Here /\ Sent' = Sent
  BY DEF Here, Sent
<1>2. ASSUME commit.step \in {"send", "sending", "waiting", "settle"}
      PROVE  Covered(commit.id, Here)'
  <2>1. Here \in Entries /\ Covered(commit.id, Here)
    BY <1>2, TransferAssumption DEF CommitInv, Here
  <2> QED BY <2>1, <1>1, QuietCovers DEF Covered
<1>3. ASSUME commit.id \in Stored'
      PROVE  /\ commit.id \in Stored
             /\ HasEvidence(Entry(commit.id)) => HasEvidence(Entry(commit.id)')
             /\ Over(Entry(commit.id)) => Over(Entry(commit.id)')
             /\ Entry(commit.id).inFlight = Nothing =>
                    /\ Entry(commit.id)'.inFlight = Nothing
                    /\ Entry(commit.id)'.outcome = Entry(commit.id).outcome
  BY <1>3, EntryAssumption DEF QuietJournals, Quiet, Advances, Lapses
<1> QED
  <2>1. commit.step \in {"send", "sending", "waiting", "settle"} =>
          /\ commit.at \in DOMAIN Plan
          /\ Covered(commit.id, Here)'
          /\ commit.step # "settle" \/ commit.status \in {"rejected", "denied"} =>
                <<commit.id, Here>> \notin Sent
    BY <1>2 DEF CommitInv
  <2>2. commit.step = "settle" =>
          /\ commit.status # "none"
          /\ commit.status = "committed" => <<commit.id, Here>> \in server
    BY DEF CommitInv
  <2>3. commit.step \in {"complete", "finalized"} /\ commit.id \in Stored' =>
          /\ Entry(commit.id)'.inFlight = Nothing
          /\ \A e \in Entries :
                Entry(commit.id)'.outcome[e] \in {"committed", "rejected", "skipped"}
    BY <1>3 DEF CommitInv
  <2>4. commit.step = "complete" /\ commit.reconcile /\ commit.id \in Stored' =>
          HasEvidence(Entry(commit.id)')
    BY <1>3 DEF CommitInv
  <2>5. commit.step = "finalized" => commit.id \in Stored' /\ Over(Entry(commit.id)')
    BY <1>3 DEF CommitInv
  <2> QED BY <1>1, <2>1, <2>2, <2>3, <2>4, <2>5 DEF CommitInv, Covered, Entry, Here, Stored

\* An import keeps its account and its file from the moment it writes.
SameIdentity(k) == /\ import'[k].account = import[k].account
                   /\ import'[k].source = import[k].source
Identity == \A k \in Imports : SameIdentity(k) \/ (Fresh(k) /\ commit.id # k)

LEMMA QuietReplay ==
    ASSUME ReplayInv, MemoryInv, Identity, UNCHANGED <<server, wire, commit>>,
           released \subseteq released'
    PROVE  ReplayInv'
<1>1. Sent' = Sent
  BY DEF Sent
<1>2. ASSUME commit.step \in {"begin", "begun", "mark", "send", "sending", "waiting", "settle"},
             NEW k \in Imports, NEW e \in Entries, k # commit.id, <<k, e>> \in Sent,
             import'[k].account = import'[commit.id].account,
             import'[k].source = import'[commit.id].source
      PROVE  k \in released
  <2>1. SameIdentity(k)
    BY <1>2 DEF Identity, Fresh
  <2>2. commit.id \in Imports /\ SameIdentity(commit.id)
    BY <1>2 DEF Identity, MemoryInv, Known, CommitState
  <2> QED BY <1>2, <2>1, <2>2 DEF ReplayInv, SameIdentity
<1> QED BY <1>1, <1>2 DEF ReplayInv

\* No step of anybody but the commit disturbs what is known of the server.
LEMMA QuietStep ==
    ASSUME IInv, QuietJournals, UNCHANGED <<server, wire, commit, completed>>,
           commit.step = "finalized" => Stored' = Stored,
           acks' \cup {acking'} \subseteq acks \cup {acking, NoImport}, Identity
    PROVE  JournalInv' /\ EvidenceInv' /\ CommitInv' /\ AckInv' /\ ReplayInv'
<1>1. released \subseteq released'
  BY DEF QuietJournals
<1> QED
  BY <1>1, QuietInOrder, QuietEvidence, QuietAcks, QuietCommit, QuietReplay DEF IInv

-----------------------------------------------------------------------------
(* What the steps of anybody but the commit do to the imports.             *)

\* Nothing that was not there appears.
LEMMA QuietFresh ==
    ASSUME QuietJournals, UNCHANGED <<server, wire>>
    PROVE  /\ \A i \in Imports : Fresh(i) => Fresh(i)'
           /\ \A i \in Stored' : /\ i \in Stored
                                 /\ journals'[i].account = journals[i].account
                                 /\ journals'[i].source = journals[i].source
BY DEF QuietJournals, Fresh, Sent

\* An import is dropped.
LEMMA SpentFields ==
    ASSUME MemoryInv, NEW i \in Imports
    PROVE  /\ Spent(i) \in ImportState
           /\ Spent(i).phase = "over" /\ ~Spent(i).begun
           /\ Spent(i).account = import[i].account /\ Spent(i).source = import[i].source
BY DEF MemoryInv, Known, Spent, ImportState, ImportPhases

\* Only an import that has begun is cleaned up.
CleanupGrows ==
    /\ cleanup' \subseteq (0 .. MaxTransitions) \X Imports
    /\ \A c \in cleanup' : c \in cleanup \/ import[c[2]].begun

LEMMA MemoryDropped ==
    ASSUME MemoryInv, NEW i \in Imports, import[i].phase # "none", Dropped(i),
           UNCHANGED <<commit, cancelling, acking>>, acks' \subseteq acks,
           owner' = owner \/ live' = NoImport, CleanupGrows,
           inspecting' \in {inspecting, [inspecting EXCEPT ![i] = "idle"]}
    PROVE  MemoryInv' /\ Identity
<1> USE DEF Dropped, Destroyed
<1>1. /\ import' \in [Imports -> ImportState]
      /\ import'[i].phase = "over" /\ ~import'[i].begun
      /\ SameIdentity(i)
      /\ \A n \in Imports \ {i} : import'[n] = import[n]
  BY SpentFields DEF MemoryInv, Known, SameIdentity
<1>2. /\ inspecting' \in [Imports -> {"idle", "probing", "inspected"}]
      /\ \A n \in Imports : inspecting[n] = "idle" => inspecting'[n] = "idle"
  BY DEF MemoryInv, Known
<1>3. Identity
  BY <1>1 DEF Identity, SameIdentity
<1>4. ASSUME NEW n \in Imports
      PROVE  Known(n)'
  <2>1. (\E c \in cleanup' : c[2] = n) => Engaged(n)
    BY DEF CleanupGrows, Engaged
  <2>2. Engaged(n)' => Engaged(n)
    BY <1>1, <1>2, <2>1 DEF Engaged
  <2> QED BY <1>1, <2>2 DEF MemoryInv, Known, SameIdentity
<1> HIDE DEF Dropped, Destroyed
<1>5. live' \in Imports \cup {NoImport} /\ (live' # NoImport => live' = live)
  BY DEF MemoryInv, Known, Dropped, Destroyed
<1> QED BY <1>1, <1>2, <1>3, <1>4, <1>5 DEF MemoryInv, Known, CleanupGrows

LEMMA LifeDropped ==
    ASSUME LifeInv, MemoryInv, GateInv, QuietJournals, NEW i \in Imports, Dropped(i),
           UNCHANGED <<server, wire, commit, cancelling, acking, released, barrierOp>>,
           acks' \subseteq acks
    PROVE  LifeInv'
<1> USE DEF Dropped, Destroyed
<1>1. /\ import'[i].phase = "over"
      /\ import'[i].account = import[i].account
      /\ import'[i].source = import[i].source
      /\ \A n \in Imports \ {i} : import'[n] = import[n]
  BY SpentFields DEF MemoryInv, Known
<1>2. /\ live' \in {live, NoImport} /\ live' # i
      /\ \A n \in Imports \ {i} : n = live => n = live'
  BY DEF Imports, NoImport
<1> HIDE DEF Dropped, Destroyed
<1>3. ASSUME NEW n \in Imports
      PROVE  Placed(n)'
  BY <1>1, <1>2, QuietFresh DEF LifeInv, Placed
<1>4. ASSUME NEW n \in Imports, Retired(n)
      PROVE  Retired(n)'
  BY <1>1, <1>4 DEF Retired
<1>5. released \subseteq Imports /\ (barrierOp.step = "clear" => barrierOp.target \in Imports)
  BY DEF GateInv
<1> QED BY <1>1, <1>2, <1>3, <1>4, <1>5 DEF LifeInv, Placed, MemoryInv, Known

-----------------------------------------------------------------------------
(* The steps of the user and of the inspection.                            *)

\* The gates are left alone.
LEMMA GatesAlone ==
    ASSUME GateInv, UNCHANGED <<owner, epoch, maintenance, blocked, active, released,
                                completed, barrierOp, reconcile>>
    PROVE  GateInv'
BY DEF GateInv

\* beginImport.
LEMMA BeginImportSafe ==
    ASSUME IInv, NEW i \in Imports, NEW s \in Sources, BeginImport(i, s)
    PROVE  IInv'
<1> USE DEF BeginImport, worldVars, sessionVars, gateVars, taskVars
<1>1. QuietJournals /\ UNCHANGED <<server, wire, commit, completed>>
  BY JournalsAlone DEF IInv
<1>2. GateInv'
  BY GatesAlone DEF IInv
<1>3. /\ import' \in [Imports -> ImportState]
      /\ import'[i].phase = "uploading" /\ import'[i].source = s
      /\ import'[i].begun = import[i].begun
      /\ import'[i].account = import[i].account
      /\ import[i].phase = "none" /\ Fresh(i) /\ commit.id = NoImport /\ i # NoImport
      /\ live = NoImport /\ live' = i /\ owner # None
      /\ \A n \in Imports \ {i} : import'[n] = import[n]
  <2>1. import \in [Imports -> ImportState]
    BY DEF IInv, MemoryInv, Known
  <2>2. /\ import' \in [Imports -> ImportState]
        /\ import'[i].phase = "uploading" /\ import'[i].source = s
        /\ import'[i].begun = import[i].begun
        /\ import'[i].account = import[i].account
        /\ \A n \in Imports \ {i} : import'[n] = import[n]
    BY <2>1 DEF ImportState, ImportPhases
  <2>3. import[i].phase = "none" /\ Fresh(i)
    BY DEF IInv, LifeInv, Placed
  <2>4. i # NoImport
    BY DEF NoImport, Imports
  <2> QED BY <2>2, <2>3, <2>4
<1> HIDE DEF BeginImport
<1>4. MemoryInv'
  <2>1. ASSUME NEW n \in Imports
        PROVE  Known(n)'
    BY <1>3 DEF BeginImport, IInv, MemoryInv, Known, Engaged
  <2> QED BY <1>3, <2>1 DEF BeginImport, IInv, MemoryInv, Known
<1>5. LifeInv'
  <2>1. ASSUME NEW n \in Imports
        PROVE  Placed(n)'
    BY <1>1, <1>3, QuietFresh DEF IInv, LifeInv, Placed, Fresh, QuietJournals, NoImport, Imports
  <2>2. ASSUME NEW n \in Imports, Retired(n)
        PROVE  Retired(n)'
    BY <1>1, <1>3, <2>2 DEF Retired
  <2>3. /\ released \subseteq Imports /\ acks \subseteq Imports /\ cancelling \subseteq Imports
        /\ acking \in Imports \cup {NoImport}
        /\ barrierOp.step = "clear" => barrierOp.target \in Imports
    BY DEF IInv, GateInv, MemoryInv, Known
  <2>4. \A n \in cancelling : n # i
    BY <1>3 DEF IInv, LifeInv, Placed
  <2> QED BY <1>1, <1>3, <2>1, <2>2, <2>3, <2>4 DEF BeginImport, IInv, LifeInv, Placed
<1>6. Identity
  BY <1>3 DEF Identity, SameIdentity
<1> QED BY <1>1, <1>2, <1>4, <1>5, <1>6, QuietStep DEF BeginImport, IInv, Stored

\* sealAndInspectImport.
LEMMA SealAndInspectSafe ==
    ASSUME IInv, NEW i \in Imports, SealAndInspect(i)
    PROVE  IInv'
<1> USE DEF SealAndInspect, Active, worldVars, sessionVars, gateVars
<1>1. QuietJournals /\ UNCHANGED <<server, wire, commit, completed>>
  BY JournalsAlone DEF IInv
<1>2. GateInv'
  BY GatesAlone DEF IInv
<1>3. CASE globalImportBlocked
  <2>1. MemoryInv' /\ Identity
    BY <1>3, MemoryDropped DEF IInv, MemoryInv, Known, CleanupGrows
  <2>2. LifeInv'
    BY <1>1, <1>3, LifeDropped DEF IInv
  <2> QED BY <1>1, <1>2, <2>1, <2>2, QuietStep DEF IInv, Stored
<1>4. CASE ~globalImportBlocked
  <2>1. /\ import' \in [Imports -> ImportState]
        /\ import'[i].phase = "inspecting" /\ import'[i].source = import[i].source
        /\ import'[i].account = owner /\ owner \in Accounts
        /\ import[i].phase = "uploading" /\ live = i /\ live' = i /\ Fresh(i) /\ commit.id # i
        /\ \A n \in Imports \ {i} : import'[n] = import[n]
        /\ inspecting' \in [Imports -> {"idle", "probing", "inspected"}]
        /\ \A n \in Imports \ {i} : inspecting'[n] = inspecting[n]
    <3>1. /\ import \in [Imports -> ImportState]
          /\ inspecting \in [Imports -> {"idle", "probing", "inspected"}]
      BY DEF IInv, MemoryInv, Known
    <3>2. /\ import[i].phase = "uploading" /\ live = i /\ i # NoImport /\ live' = i
      BY <1>4 DEF NoImport, Imports
    <3>3. owner \in Accounts /\ epoch \in Nat
      BY <3>2, TransferAssumption DEF IInv, MemoryInv, Known, GateInv
    <3>4. Fresh(i) /\ commit.id # i
      BY <3>2 DEF IInv, LifeInv, Placed
    <3>5. /\ import' \in [Imports -> ImportState]
          /\ import'[i].phase = "inspecting" /\ import'[i].source = import[i].source
          /\ import'[i].account = owner
          /\ \A n \in Imports \ {i} : import'[n] = import[n]
      BY <1>4, <3>1, <3>3 DEF ImportState, ImportPhases
    <3>6. /\ inspecting' \in [Imports -> {"idle", "probing", "inspected"}]
          /\ \A n \in Imports \ {i} : inspecting'[n] = inspecting[n]
      BY <1>4, <3>1
    <3> QED BY <3>2, <3>3, <3>4, <3>5, <3>6
  <2>2. UNCHANGED <<commit, cleanup, cancelling, acking, acks, owner, released, barrierOp>>
    BY <1>4
  <2> HIDE DEF SealAndInspect
  <2>3. MemoryInv'
    <3>1. ASSUME NEW n \in Imports
          PROVE  Known(n)'
      BY <2>1, <2>2 DEF IInv, MemoryInv, Known, Engaged
    <3> QED BY <2>1, <2>2, <3>1 DEF IInv, MemoryInv, Known
  <2>4. LifeInv'
    <3>1. ASSUME NEW n \in Imports
          PROVE  Placed(n)'
      BY <1>1, <2>1, QuietFresh DEF IInv, LifeInv, Placed, Fresh
    <3>2. ASSUME NEW n \in Imports, Retired(n)
          PROVE  Retired(n)'
      BY <1>1, <2>1, <3>2 DEF Retired
    <3>3. /\ released \subseteq Imports /\ acks \subseteq Imports /\ cancelling \subseteq Imports
          /\ acking \in Imports \cup {NoImport}
          /\ barrierOp.step = "clear" => barrierOp.target \in Imports
      BY DEF IInv, GateInv, MemoryInv, Known
    <3> QED BY <1>1, <2>1, <2>2, <3>1, <3>2, <3>3 DEF IInv, LifeInv, Placed
  <2>5. Identity
    BY <2>1 DEF Identity, SameIdentity
  <2> QED BY <1>1, <1>2, <2>2, <2>3, <2>4, <2>5, QuietStep DEF SealAndInspect, IInv, Stored
<1> QED BY <1>3, <1>4

\* The parsing or the probe fails.
LEMMA InspectFailsSafe ==
    ASSUME IInv, NEW i \in Imports, InspectFails(i)
    PROVE  IInv'
<1> USE DEF InspectFails, worldVars, sessionVars, gateVars
<1>1. QuietJournals /\ UNCHANGED <<server, wire, commit, completed>>
  BY JournalsAlone DEF IInv
<1>2. GateInv'
  BY GatesAlone DEF IInv
<1>3. MemoryInv' /\ Identity
  BY MemoryDropped DEF IInv, MemoryInv, Known, Engaged, CleanupGrows
<1>4. LifeInv'
  BY <1>1, LifeDropped DEF IInv
<1> QED BY <1>1, <1>2, <1>3, <1>4, QuietStep DEF IInv, Stored

-----------------------------------------------------------------------------
(* The steps that leave every import where it is.                          *)

\* The accounts that the journal blocks are accounts.
LEMMA BlockedAccounts ==
    ASSUME JournalInv, QuietJournals
    PROVE  BlockedBy(journals) \subseteq Accounts /\ BlockedBy(journals') \subseteq Accounts
<1>1. BlockedBy(journals) \subseteq Accounts
  BY DEF JournalInv, BlockedBy, Stored
<1>2. BlockedBy(journals') \subseteq Accounts
  BY DEF QuietJournals, BlockedBy, Stored
<1> QED BY <1>1, <1>2

\* The import is where it was: it may have been cancelled.
Looks(n) ==
    /\ import'[n].phase = import[n].phase /\ import'[n].begun = import[n].begun
    /\ SameIdentity(n)

\* A step that leaves the imports where they are, and the commit alone, but may
\* end what is concerned with them, or ask for the cleanup of one.
LEMMA LooksSafe ==
    ASSUME IInv, QuietJournals, GateInv',
           UNCHANGED <<server, wire, commit, completed>>,
           import' \in [Imports -> ImportState], \A n \in Imports : Looks(n),
           live' = live \/ (live' = NoImport /\ live \in cancelling \cup {commit.id}),
           inspecting' \in [Imports -> {"idle", "probing", "inspected"}],
           \A n \in Imports : inspecting[n] = "idle" => inspecting'[n] = "idle",
           live' # NoImport => owner' # None,
           CleanupGrows, cancelling' \subseteq cancelling \cup ({commit.id} \ {NoImport}),
           acks' \subseteq acks, acking' \in acks \cup {acking, NoImport},
           \A n \in released' : Retired(n),
           barrierOp'.step = "clear" => Retired(barrierOp'.target),
           commit.step = "finalized" => journals' = journals
    PROVE  IInv'
<1>1. MemoryInv'
  <2>1. ASSUME NEW n \in Imports, Engaged(n)'
        PROVE  Engaged(n)
    <3>1. (\E c \in cleanup' : c[2] = n) => Engaged(n)
      BY DEF CleanupGrows, Engaged
    <3>2. import'[n].phase = import[n].phase /\ import'[n].begun = import[n].begun
      BY DEF Looks
    <3> QED BY <2>1, <3>1, <3>2 DEF Engaged
  <2>2. acking' \in Imports \cup {NoImport} /\ acks' \subseteq Imports
    BY DEF IInv, MemoryInv, Known
  <2>3. live' \in Imports \cup {NoImport} /\ (live' # NoImport => owner' # None)
    BY DEF IInv, MemoryInv, Known
  <2>4. cancelling' \subseteq Imports
    BY DEF IInv, MemoryInv, Known, CommitState
  <2>5. ASSUME NEW n \in Imports
        PROVE  Known(n)'
    BY <2>1 DEF IInv, MemoryInv, Known, Looks, SameIdentity
  <2> QED BY <2>2, <2>3, <2>4, <2>5 DEF IInv, MemoryInv, Known, CleanupGrows
<1>2. LifeInv'
  <2>1. ASSUME NEW n \in Imports, import[n].phase \notin {"none", "over"}
        PROVE  n = live' \/ n = commit.id
    <3>1. n = live \/ n = commit.id
      BY <2>1 DEF IInv, LifeInv, Placed
    <3>2. n \in cancelling => n = commit.id
      BY <2>1 DEF IInv, LifeInv, Placed
    <3> QED BY <3>1, <3>2 DEF NoImport, Imports
  <2>2. ASSUME NEW n \in Imports, Retired(n)
        PROVE  Retired(n)'
    BY <2>2 DEF Retired, Looks
  <2>3. /\ released' \subseteq Imports
        /\ barrierOp'.step = "clear" => barrierOp'.target \in Imports
    BY DEF GateInv
  <2>4. \A n \in acks' \cup released' \cup ({acking'} \ {NoImport}) : Retired(n)'
    BY <2>2, <2>3 DEF IInv, LifeInv, Placed, MemoryInv, Known
  <2>5. barrierOp'.step = "clear" => Retired(barrierOp.target)'
    BY <2>2, <2>3
  <2>6. /\ live' # NoImport => import'[live'].phase \notin {"none", "over"}
        /\ commit.id # NoImport => live' \in {commit.id, NoImport}
    BY DEF IInv, LifeInv, Placed, MemoryInv, Known, Looks
  <2>7. \A n \in cancelling' : commit.id = n \/ import'[n].phase = "over"
    BY DEF IInv, LifeInv, Placed, MemoryInv, Known, Looks
  <2>8. ASSUME NEW n \in Imports
        PROVE  Placed(n)'
    BY <2>1, QuietFresh DEF IInv, LifeInv, Placed, Looks, SameIdentity
  <2> QED BY <2>4, <2>5, <2>6, <2>7, <2>8 DEF LifeInv, Placed
<1>3. Identity
  BY DEF Identity, Looks
<1>4. commit.step = "finalized" => Stored' = Stored
  BY DEF Stored
<1> QED BY <1>1, <1>2, <1>3, <1>4, QuietStep DEF IInv

\* The imports are left alone.
LEMMA StillSafe ==
    ASSUME IInv, QuietJournals, GateInv',
           UNCHANGED <<server, wire, commit, completed, import>>,
           live' = live \/ (live' = NoImport /\ live \in cancelling),
           inspecting' \in [Imports -> {"idle", "probing", "inspected"}],
           \A n \in Imports : inspecting[n] = "idle" => inspecting'[n] = "idle",
           live # NoImport => owner' # None,
           cleanup' \subseteq cleanup, cancelling' \subseteq cancelling,
           acks' \subseteq acks, acking' \in acks \cup {acking, NoImport},
           \A n \in released' : Retired(n),
           barrierOp'.step = "clear" => Retired(barrierOp'.target),
           commit.step = "finalized" => journals' = journals
    PROVE  IInv'
<1>1. import' \in [Imports -> ImportState] /\ CleanupGrows /\ \A n \in Imports : Looks(n)
  BY DEF IInv, MemoryInv, Known, CleanupGrows, Looks, SameIdentity
<1> QED BY <1>1, LooksSafe

\* What most of those steps leave alone, the gates apart.
LEMMA StillerSafe ==
    ASSUME IInv, QuietJournals, GateInv', commit.step = "finalized" => journals' = journals,
           UNCHANGED <<server, wire, commit, completed, import, live, inspecting, cleanup,
                       cancelling, acks, acking, released>>,
           live # NoImport => owner' # None,
           barrierOp'.step = "clear" => barrierOp' = barrierOp
    PROVE  IInv'
<1>1. /\ inspecting' \in [Imports -> {"idle", "probing", "inspected"}]
      /\ \A n \in released' : Retired(n)
      /\ barrierOp'.step = "clear" => Retired(barrierOp'.target)
  BY DEF IInv, MemoryInv, Known, LifeInv, Placed
<1> QED BY <1>1, StillSafe

\* acknowledgeImportResult.
LEMMA AckResultSafe ==
    ASSUME IInv, NEW i \in Imports, AckResult(i)
    PROVE  IInv'
<1> USE DEF AckResult, worldVars, sessionVars, gateVars
<1>1. QuietJournals /\ GateInv'
  BY JournalsAlone, GatesAlone DEF IInv
<1>2. /\ inspecting \in [Imports -> {"idle", "probing", "inspected"}]
      /\ live # NoImport => owner # None
      /\ \A n \in released : Retired(n)
      /\ barrierOp.step = "clear" => Retired(barrierOp.target)
  BY DEF IInv, MemoryInv, Known, LifeInv, Placed
<1> QED BY <1>1, <1>2, StillSafe

\* acknowledgeResultDelivered.
LEMMA AckReturnsSafe ==
    ASSUME IInv, AckReturns
    PROVE  IInv'
<1> USE DEF worldVars, sessionVars, gateVars
<1>1. UNCHANGED <<server, wire, commit, completed, import, live, inspecting, cleanup, cancelling,
                  owner, epoch, maintenance, blocked, active, barrierOp, reconcile>>
      /\ acking' = NoImport /\ commit.step # "finalized" /\ acking # NoImport
  BY DEF AckReturns, JournalFree
<1>2. /\ inspecting \in [Imports -> {"idle", "probing", "inspected"}]
      /\ live # NoImport => owner # None
      /\ \A n \in released \cup {acking} : Retired(n)
      /\ barrierOp.step = "clear" => Retired(barrierOp.target)
      /\ acking \in Imports
  BY <1>1 DEF IInv, MemoryInv, Known, LifeInv, Placed
<1>3. CASE UNCHANGED <<journals, acks, released>>
  <2>1. QuietJournals /\ GateInv'
    BY <1>1, <1>3, JournalsAlone, GatesAlone DEF IInv
  <2> QED BY <1>1, <1>2, <1>3, <2>1, StillSafe
<1>4. CASE /\ acking \in Stored /\ DeliverAllowed(Entry(acking))
           /\ Update(acking, Delivered(Entry(acking)))
           /\ released' = IF Delivered(Entry(acking)).flag["replayBarrier"] THEN released
                          ELSE released \cup {acking}
           /\ acks' \subseteq acks
  <2>1. Sound(Entry(acking)) /\ Over(Entry(acking))
    BY <1>4 DEF IInv, JournalInv, AckInv
  <2> DEFINE k == Delivered(Entry(acking))
  <2>2. /\ Quiet(Entry(acking), k)
        /\ Entry(acking).flag["replayBarrier"] => k.flag["replayBarrier"] \/ k.phase = "completed"
    BY <1>4, <2>1, DeliverQuiet
  <2>3. k.phase = "completed" \/ k.flag["replayBarrier"]
    <3>1. Entry(acking).flag["replayBarrier"] \/ Entry(acking).phase = "completed"
      BY <1>4, <2>1 DEF Sound, Readable, Over, DeliverAllowed
    <3> QED BY <2>2, <3>1 DEF Quiet
  <2>4. QuietJournals
    BY <1>4, <2>2, <2>3, JournalsUpdated DEF IInv
  <2>5. GateInv'
    BY <1>1, <1>2, <1>4 DEF IInv, GateInv
  <2> QED BY <1>1, <1>2, <1>4, <2>4, <2>5, StillSafe
<1> QED BY <1>3, <1>4 DEF AckReturns

\* The journal is asked to cancel.
LEMMA CancelInJournalQuiet ==
    ASSUME JournalInv, NEW i, NEW blocking, CancelInJournal(i, blocking), released' = released,
           import[i].account \in Accounts, blocked \subseteq Accounts
    PROVE  QuietJournals /\ blocked' \subseteq Accounts
<1>1. ASSUME i \in Stored /\ Update(i, Cancelled(Entry(i)))
      PROVE  QuietJournals
  <2>1. /\ Quiet(Entry(i), Cancelled(Entry(i)))
        /\ Entry(i).flag["replayBarrier"] => Cancelled(Entry(i)).flag["replayBarrier"]
    BY <1>1, CancelQuiet DEF JournalInv
  <2> QED BY <1>1, <2>1, JournalsUpdated
<1>2. journals' = journals => QuietJournals
  BY JournalsAlone
<1>3. blocked' \subseteq Accounts
  BY DEF CancelInJournal
<1> QED BY <1>1, <1>2, <1>3 DEF CancelInJournal

\* cancel, once the journal has answered.
LEMMA CancelReturnsSafe ==
    ASSUME IInv, NEW i \in Imports, CancelReturns(i)
    PROVE  IInv'
<1> USE DEF CancelReturns, worldVars, sessionVars
<1>1. /\ import[i].account \in Accounts /\ blocked \subseteq Accounts
      /\ inspecting \in [Imports -> {"idle", "probing", "inspected"}]
      /\ live # NoImport => owner # None
      /\ \A n \in released : Retired(n)
      /\ barrierOp.step = "clear" => Retired(barrierOp.target)
  BY DEF IInv, GateInv, MemoryInv, Known, LifeInv, Placed, Engaged
<1>2. QuietJournals /\ blocked' \subseteq Accounts
  BY <1>1, CancelInJournalQuiet DEF IInv
<1>3. GateInv'
  BY <1>2 DEF IInv, GateInv
<1>4. live' = live \/ (live' = NoImport /\ live \in cancelling)
  BY DEF Destroyed
<1>5. commit.step # "finalized" /\ cancelling' \subseteq cancelling
  BY DEF JournalFree
<1> QED BY <1>1, <1>2, <1>3, <1>4, <1>5, StillSafe

\* The cleanup of a revocation, once the journal has answered.
LEMMA CleanupReturnsSafe ==
    ASSUME IInv, NEW c \in cleanup, CleanupReturns(c[1], c[2])
    PROVE  IInv'
<1> DEFINE i == c[2]
<1>1. UNCHANGED <<server, wire, owner, epoch, import, live, active, acks, commit, inspecting,
                  cancelling, acking, reconcile, barrierOp, released, completed>>
      /\ CancelInJournal(i, {"requiresReconcile", "unresolved"}) /\ JournalFree
      /\ cleanup' = cleanup \ {<<c[1], i>>}
      /\ maintenance' \in {maintenance, "none"}
  BY DEF CleanupReturns, worldVars, sessionVars, LeaveMaintenance
<1>2. i \in Imports
  BY DEF IInv, MemoryInv, Known
<1>3. /\ import[i].account \in Accounts /\ blocked \subseteq Accounts
      /\ inspecting \in [Imports -> {"idle", "probing", "inspected"}]
      /\ live # NoImport => owner # None
      /\ \A n \in released : Retired(n)
      /\ barrierOp.step = "clear" => Retired(barrierOp.target)
  BY <1>2 DEF IInv, GateInv, MemoryInv, Known, LifeInv, Placed, Engaged
<1> HIDE DEF i
<1>4. QuietJournals /\ blocked' \subseteq Accounts
  BY <1>1, <1>3, CancelInJournalQuiet DEF IInv
<1>5. GateInv'
  BY <1>1, <1>4 DEF IInv, GateInv
<1>6. commit.step # "finalized" /\ cleanup' \subseteq cleanup
  BY <1>1 DEF JournalFree
<1> QED BY <1>1, <1>3, <1>4, <1>5, <1>6, StillSafe

\* A transition settles.
LEMMA TransitionSettlesSafe ==
    ASSUME IInv, NEW a \in Accounts, TransitionSettles(a)
    PROVE  IInv'
<1> USE DEF TransitionSettles, worldVars, gateVars
<1>1. QuietJournals
  BY JournalsAlone DEF IInv
<1>2. GateInv' /\ owner' # None
  BY TransferAssumption DEF IInv, GateInv
<1> QED BY <1>1, <1>2, StillerSafe

LEMMA ManualSyncSafe ==
    ASSUME IInv, ManualSync
    PROVE  IInv'
<1> USE DEF ManualSync, worldVars, gateVars, sessionVars
<1>1. QuietJournals /\ GateInv'
  BY JournalsAlone, GatesAlone DEF IInv
<1>2. live # NoImport => owner # None
  BY DEF IInv, MemoryInv, Known
<1> QED BY <1>1, <1>2, StillerSafe

\* The start of the worker.
LEMMA StartupSafe ==
    ASSUME IInv, StartupStep
    PROVE  IInv'
<1>1. UNCHANGED <<server, wire, owner, epoch, import, live, active, acks, commit, inspecting,
                  cleanup, cancelling, acking, reconcile, barrierOp, released, completed>>
  BY DEF StartupStep, StartupBegins, StartupReturns, StartupDone, startElse, worldVars, sessionVars
<1>2. \/ journals' = journals
      \/ journals' = AfterInspection /\ commit.step # "finalized"
  BY DEF StartupStep, StartupBegins, StartupReturns, StartupDone, JournalFree
<1>3. QuietJournals
  BY <1>1, <1>2, JournalsAlone, JournalsInspected DEF IInv
<1>4. blocked' \subseteq Accounts
  BY <1>3, BlockedAccounts
     DEF IInv, GateInv, StartupStep, StartupBegins, StartupReturns, StartupDone, Refreshed
<1>5. maintenance' \in {"none", "startup", "barrier", "reconcile", "clearing"}
  BY DEF IInv, GateInv, StartupStep, StartupBegins, StartupReturns, StartupDone,
         EnterMaintenance, LeaveMaintenance
<1>6. GateInv' /\ (live # NoImport => owner # None)
  BY <1>1, <1>4, <1>5 DEF IInv, GateInv, MemoryInv, Known
<1> QED BY <1>1, <1>2, <1>3, <1>6, StillerSafe

\* The reconciliation.
LEMMA ReconcileSafe ==
    ASSUME IInv, ReconcileStep
    PROVE  IInv'
<1> USE DEF ReconcileStep, ReconcileBegins, ReconcileInspects, ReconcileSyncs,
            ReconcileAcknowledges, ReconcileReturns
<1>1. UNCHANGED <<server, wire, owner, epoch, import, live, acks, commit, inspecting, cleanup,
                  cancelling, acking, barrierOp, released, completed>>
  BY DEF reconcileElse, worldVars, sessionVars
<1>2. commit.step = "finalized" => journals' = journals
  BY DEF JournalFree
<1>3. QuietJournals
  <2>1. CASE journals' = journals \/ journals' = AfterInspection
    BY <1>1, <2>1, JournalsAlone, JournalsInspected DEF IInv
  <2>2. ASSUME NEW i \in Stored, ReconcileAllowed(Entry(i)), Update(i, Reconciled(Entry(i)))
        PROVE  QuietJournals
    <3>1. /\ Quiet(Entry(i), Reconciled(Entry(i)))
          /\ Entry(i).flag["replayBarrier"] => Reconciled(Entry(i)).flag["replayBarrier"]
      BY <2>2, ReconcileQuiet DEF IInv, JournalInv
    <3> QED BY <1>1, <2>2, <3>1, JournalsUpdated DEF IInv
  <2>3. ASSUME NEW i \in Stored, BarrierReviewAllowed(Entry(i)),
               Update(i, BarrierReviewed(Entry(i)))
        PROVE  QuietJournals
    <3>1. /\ Quiet(Entry(i), BarrierReviewed(Entry(i)))
          /\ Entry(i).flag["replayBarrier"] => BarrierReviewed(Entry(i)).flag["replayBarrier"]
      BY <2>3, ReviewQuiet DEF IInv, JournalInv
    <3> QED BY <1>1, <2>3, <3>1, JournalsUpdated DEF IInv
  <2> QED BY <2>1, <2>2, <2>3
<1>4. /\ maintenance' \in {maintenance, "none", "reconcile"}
      /\ active' \in {active, owner}
  BY DEF LeaveMaintenance, ReconcileFails, ReconcileEnds
<1>5. /\ reconcile' = [step |-> reconcile'.step, account |-> reconcile'.account,
                       epoch |-> reconcile'.epoch, forced |-> reconcile'.forced,
                       todo |-> reconcile'.todo]
      /\ reconcile'.step # "idle" => reconcile'.account \in Accounts
  <2>1. CASE reconcile' \in {reconcile, NoReconcile}
    BY <2>1 DEF IInv, GateInv, NoReconcile
  <2>2. CASE ReconcileBegins /\ reconcile' # reconcile
    BY <2>2 DEF IInv, GateInv, NoReconcile
  <2>3. ASSUME NEW step, NEW forced, NEW todo, reconcile.step # "idle",
               reconcile' = [reconcile EXCEPT !.step = step, !.forced = forced, !.todo = todo]
        PROVE  <1>5!:
    <3>1. reconcile' = [step |-> step, account |-> reconcile.account,
                        epoch |-> reconcile.epoch, forced |-> forced, todo |-> todo]
      BY <2>3 DEF IInv, GateInv
    <3> QED BY <2>3, <3>1 DEF IInv, GateInv
  <2>4. CASE ReconcileInspects
    <3>1. /\ reconcile.step # "idle"
          /\ reconcile' \in {NoReconcile, [reconcile EXCEPT !.step = "sync", !.forced = FALSE,
                                                             !.todo = ToReview(journals')]}
      BY <2>4 DEF ReconcileFails, ReconcileEnds
    <3> QED BY <2>1, <2>3, <3>1
  <2>5. CASE ReconcileSyncs
    <3>1. /\ reconcile.step # "idle"
          /\ reconcile' \in {NoReconcile, [reconcile EXCEPT !.step = "acknowledge"]}
      BY <2>5 DEF ReconcileFails, ReconcileEnds
    <3>2. ASSUME reconcile' = [reconcile EXCEPT !.step = "acknowledge"]
          PROVE  <1>5!:
      <4>1. reconcile' = [step |-> "acknowledge", account |-> reconcile.account,
                          epoch |-> reconcile.epoch, forced |-> reconcile.forced,
                          todo |-> reconcile.todo]
        BY <3>2 DEF IInv, GateInv
      <4> QED BY <3>1, <4>1 DEF IInv, GateInv
    <3> QED BY <2>1, <3>1, <3>2
  <2>6. ASSUME NEW i \in Imports, ReconcileAcknowledges(i)
        PROVE  <1>5!:
    <3> DEFINE rest == [k \in DOMAIN reconcile.todo \ {i} |-> reconcile.todo[k]]
    <3>1. /\ reconcile.step # "idle"
          /\ reconcile' \in {NoReconcile, [reconcile EXCEPT !.todo = rest]}
      BY <2>6 DEF ReconcileFails, ReconcileEnds
    <3> HIDE DEF rest
    <3>2. ASSUME reconcile' = [reconcile EXCEPT !.todo = rest]
          PROVE  <1>5!:
      <4>1. reconcile' = [step |-> reconcile.step, account |-> reconcile.account,
                          epoch |-> reconcile.epoch, forced |-> reconcile.forced,
                          todo |-> rest]
        BY <3>2 DEF IInv, GateInv
      <4> QED BY <3>1, <4>1 DEF IInv, GateInv
    <3> QED BY <2>1, <3>1, <3>2
  <2>7. CASE ReconcileReturns
    BY <2>1, <2>7 DEF ReconcileFails, ReconcileEnds
  <2> QED BY <2>1, <2>2, <2>4, <2>5, <2>6, <2>7
<1>6. blocked' \subseteq Accounts
  BY <1>3, BlockedAccounts DEF IInv, GateInv, ReconcileFails, Refreshed
<1>7. GateInv' /\ (live # NoImport => owner # None)
  BY <1>1, <1>4, <1>5, <1>6 DEF IInv, GateInv, MemoryInv, Known
<1> QED BY <1>1, <1>2, <1>3, <1>7, StillerSafe

\* The user looks at the barriers, or lifts one.
LEMMA BarrierBeginsSafe ==
    ASSUME IInv, NEW target \in Imports \cup {NoImport}, BarrierBegins(target)
    PROVE  IInv'
<1> USE DEF BarrierBegins, EnterMaintenance, MaintenanceFree, worldVars, sessionVars, barrierElse
<1>1. QuietJournals
  BY JournalsAlone DEF IInv
<1>2. owner \in Accounts /\ epoch \in Nat
  BY TransferAssumption DEF IInv, GateInv
<1>3. GateInv'
  <2>1. barrierOp' \in BarrierState
    BY <1>2 DEF BarrierState
  <2> QED BY <1>2, <2>1 DEF IInv, GateInv
<1>4. target # NoImport => Retired(target)
  BY DEF Clearable, IInv, LifeInv, Placed, Fresh, Retired, MemoryInv, Known, ImportState, ImportPhases
<1>5. /\ inspecting \in [Imports -> {"idle", "probing", "inspected"}]
      /\ live # NoImport => owner # None
      /\ \A n \in released : Retired(n)
  BY DEF IInv, MemoryInv, Known, LifeInv, Placed
<1>6. barrierOp'.step = "clear" => Retired(barrierOp'.target)
  BY <1>4
<1> QED BY <1>1, <1>3, <1>5, <1>6, StillSafe

LEMMA BarrierStepSafe ==
    ASSUME IInv, BarrierStep
    PROVE  IInv'
<1> USE DEF BarrierStep
<1>1. UNCHANGED <<server, wire, owner, epoch, import, live, commit, inspecting, cleanup,
                  cancelling, acking, reconcile, active, completed>>
      /\ barrierOp.step # "idle" /\ commit.step # "finalized"
  BY DEF BarrierClears, BarrierReturns, barrierElse, worldVars, sessionVars, JournalFree
<1>2. /\ inspecting \in [Imports -> {"idle", "probing", "inspected"}]
      /\ live # NoImport => owner # None
      /\ \A n \in released : Retired(n)
      /\ barrierOp.step = "clear" => Retired(barrierOp.target) /\ barrierOp.target \in Imports
      /\ barrierOp.account \in Accounts /\ blocked \subseteq Accounts
      /\ barrierOp \in BarrierState
  BY <1>1 DEF IInv, MemoryInv, Known, LifeInv, Placed, GateInv
<1>3. CASE BarrierClears /\ ~UNCHANGED <<journals, acks, released>>
  <2> DEFINE i == barrierOp.target
  <2>1. /\ barrierOp.step = "clear"
        /\ i \in Stored /\ ClearAllowed(Entry(i)) /\ Update(i, Cleared(Entry(i)))
        /\ released' = released \cup {i}
        /\ acks' \subseteq acks
        /\ barrierOp' \in {[barrierOp EXCEPT !.step = "inspect"], NoBarrierOp}
        /\ maintenance' \in {maintenance, "none"}
        /\ blocked' \in {blocked, blocked \cup {barrierOp.account}}
    BY <1>3 DEF BarrierClears, BarrierFails, BarrierEnds, LeaveMaintenance
  <2> HIDE DEF i
  <2>2. Quiet(Entry(i), Cleared(Entry(i))) /\ Cleared(Entry(i)).phase = "completed"
    BY <2>1, ClearQuiet DEF IInv, JournalInv
  <2>3. QuietJournals
    BY <2>1, <2>2, JournalsUpdated DEF IInv
  <2>4. barrierOp' \in BarrierState /\ barrierOp'.step # "clear"
        /\ (barrierOp'.step # "idle" => barrierOp'.account \in Accounts)
    BY <1>2, <2>1 DEF BarrierState, NoBarrierOp
  <2>5. GateInv'
    BY <1>1, <1>2, <2>1, <2>4 DEF IInv, GateInv, i
  <2>6. \A n \in released' : Retired(n)
    BY <1>2, <2>1 DEF i
  <2> QED BY <1>1, <1>2, <2>1, <2>3, <2>4, <2>5, <2>6, StillSafe
<1>4. CASE BarrierReturns \/ (BarrierClears /\ UNCHANGED <<journals, acks, released>>)
  <2>1. /\ UNCHANGED <<acks, released>>
        /\ barrierOp' \in {NoBarrierOp, [barrierOp EXCEPT !.step = "inspect"]}
        /\ journals' = journals \/ journals' = AfterInspection
        /\ maintenance' \in {maintenance, "none"}
    BY <1>4 DEF BarrierClears, BarrierReturns, BarrierFails, BarrierEnds, LeaveMaintenance
  <2>2. QuietJournals
    BY <2>1, JournalsAlone, JournalsInspected DEF IInv
  <2>3. blocked' \subseteq Accounts
    BY <1>2, <1>4, <2>2, BlockedAccounts
       DEF IInv, BarrierClears, BarrierReturns, BarrierFails, Refreshed
  <2>4. barrierOp' \in BarrierState /\ barrierOp'.step # "clear"
        /\ (barrierOp'.step # "idle" => barrierOp'.account \in Accounts)
    BY <1>2, <2>1 DEF BarrierState, NoBarrierOp
  <2>5. GateInv'
    BY <1>1, <2>1, <2>3, <2>4 DEF IInv, GateInv
  <2> QED BY <1>1, <1>2, <2>1, <2>2, <2>4, <2>5, StillSafe
<1> QED BY <1>3, <1>4

-----------------------------------------------------------------------------
(* The steps that move an import on.                                       *)

\* assertSourceReplaySafe.
LEMMA InspectJournalSafe ==
    ASSUME IInv, NEW i \in Imports, InspectJournal(i)
    PROVE  IInv'
<1> USE DEF InspectJournal, worldVars, sessionVars
<1>1. GateInv'
  BY GatesAlone DEF IInv
<1>2. commit.step # "finalized"
  BY DEF JournalFree
<1>3. ASSUME journals' = AfterInspection, inspecting' = [inspecting EXCEPT ![i] = "inspected"],
             UNCHANGED <<live, import>>
      PROVE  IInv'
  <2>1. QuietJournals
    BY <1>3, JournalsInspected DEF IInv
  <2>2. /\ inspecting' \in [Imports -> {"idle", "probing", "inspected"}]
        /\ \A n \in Imports : inspecting[n] = "idle" => inspecting'[n] = "idle"
        /\ live # NoImport => owner # None
        /\ \A n \in released : Retired(n)
        /\ barrierOp.step = "clear" => Retired(barrierOp.target)
    BY <1>3 DEF IInv, MemoryInv, Known, LifeInv, Placed
  <2> QED BY <1>1, <1>2, <1>3, <2>1, <2>2, StillSafe
<1>4. ASSUME journals' = journals, inspecting' = [inspecting EXCEPT ![i] = "idle"], Dropped(i)
      PROVE  IInv'
  <2>1. QuietJournals
    BY <1>4, JournalsAlone DEF IInv
  <2>2. MemoryInv' /\ Identity
    BY <1>4, MemoryDropped DEF IInv, MemoryInv, Known, Engaged, CleanupGrows
  <2>3. LifeInv'
    BY <1>4, <2>1, LifeDropped DEF IInv
  <2> QED BY <1>1, <1>4, <2>1, <2>2, <2>3, QuietStep DEF IInv, Stored
<1> QED BY <1>3, <1>4

\* An import moves on, in the map.
LEMMA MovedFields ==
    ASSUME MemoryInv, NEW i \in Imports, NEW phase \in ImportPhases,
           import' = [import EXCEPT ![i].phase = phase]
    PROVE  /\ import' \in [Imports -> ImportState]
           /\ import'[i].phase = phase /\ import'[i].begun = import[i].begun
           /\ SameIdentity(i)
           /\ \A n \in Imports \ {i} : import'[n] = import[n]
           /\ Identity
<1>1. /\ import' \in [Imports -> ImportState]
      /\ import'[i].phase = phase /\ import'[i].begun = import[i].begun
      /\ SameIdentity(i)
      /\ \A n \in Imports \ {i} : import'[n] = import[n]
  BY DEF MemoryInv, Known, ImportState, SameIdentity
<1> QED BY <1>1 DEF Identity, SameIdentity

\* The preview is shown, or the import is dropped.
LEMMA InspectReturnsSafe ==
    ASSUME IInv, NEW i \in Imports, InspectReturns(i)
    PROVE  IInv'
<1> USE DEF InspectReturns, worldVars, sessionVars
<1>1. QuietJournals
  BY JournalsAlone DEF IInv
<1>2. import[i].account \in Accounts /\ import[i].phase # "none"
  BY DEF IInv, MemoryInv, Known, Engaged
<1>3. GateInv'
  BY <1>1, <1>2, BlockedAccounts DEF IInv, GateInv, Refreshed
<1>4. ASSUME Dropped(i)
      PROVE  IInv'
  <2>1. MemoryInv' /\ Identity
    BY <1>2, <1>4, MemoryDropped DEF IInv, MemoryInv, Known, CleanupGrows
  <2>2. LifeInv'
    BY <1>1, <1>4, LifeDropped DEF IInv
  <2> QED BY <1>1, <1>3, <2>1, <2>2, QuietStep DEF IInv, Stored
<1>5. ASSUME import' = [import EXCEPT ![i].phase = "previewed"], live' = live,
             live = i, import[i].phase = "inspecting"
      PROVE  IInv'
  <2>1. /\ import' \in [Imports -> ImportState]
        /\ import'[i].phase = "previewed" /\ import'[i].begun = import[i].begun
        /\ SameIdentity(i)
        /\ \A n \in Imports \ {i} : import'[n] = import[n]
        /\ Identity
    BY <1>5, MovedFields DEF IInv, ImportPhases
  <2>2. /\ inspecting' \in [Imports -> {"idle", "probing", "inspected"}]
        /\ \A n \in Imports : inspecting[n] = "idle" => inspecting'[n] = "idle"
    BY DEF IInv, MemoryInv, Known
  <2>3. Fresh(i) /\ commit.id # i /\ i # NoImport
    BY <1>5 DEF IInv, LifeInv, Placed, NoImport, Imports
  <2>4. UNCHANGED <<server, wire, commit, cleanup, cancelling, acking, acks, owner, released,
                    barrierOp>>
    OBVIOUS
  <2> HIDE DEF InspectReturns
  <2>5. MemoryInv'
    <3>1. ASSUME NEW n \in Imports
          PROVE  Known(n)'
      BY <1>2, <2>1, <2>2, <2>4 DEF IInv, MemoryInv, Known, Engaged, SameIdentity
    <3> QED BY <1>5, <2>1, <2>2, <2>4, <3>1 DEF IInv, MemoryInv, Known
  <2>6. LifeInv'
    <3>1. ASSUME NEW n \in Imports
          PROVE  Placed(n)'
      BY <1>1, <1>5, <2>1, <2>3, <2>4, QuietFresh DEF IInv, LifeInv, Placed, SameIdentity
    <3>2. ASSUME NEW n \in Imports, Retired(n)
          PROVE  Retired(n)'
      BY <1>5, <2>1, <2>4, <3>2 DEF Retired
    <3>3. /\ released \subseteq Imports /\ acks \subseteq Imports /\ cancelling \subseteq Imports
          /\ acking \in Imports \cup {NoImport}
          /\ barrierOp.step = "clear" => barrierOp.target \in Imports
      BY DEF IInv, GateInv, MemoryInv, Known
    <3>4. \A n \in cancelling : n # i
      BY <1>5, <2>3 DEF IInv, LifeInv, Placed
    <3> QED BY <1>5, <2>1, <2>3, <2>4, <3>1, <3>2, <3>3, <3>4 DEF IInv, LifeInv, Placed
  <2> QED BY <1>1, <1>3, <2>1, <2>4, <2>5, <2>6, QuietStep DEF InspectReturns, IInv, Stored
<1> QED BY <1>4, <1>5 DEF Active

\* The user starts the commit.
LEMMA StartCommitSafe ==
    ASSUME IInv, NEW i \in Imports, StartCommit(i)
    PROVE  IInv'
<1> USE DEF StartCommit, Active, worldVars, commitElse, gateVars, sessionVars
<1>1. QuietJournals
  BY JournalsAlone DEF IInv
<1>2. GateInv'
  BY GatesAlone DEF IInv
<1>3. ASSUME Dropped(i), commit' = commit
      PROVE  IInv'
  <2>1. MemoryInv' /\ Identity
    BY <1>3, MemoryDropped DEF IInv, MemoryInv, Known, CleanupGrows
  <2>2. LifeInv'
    BY <1>1, <1>3, LifeDropped DEF IInv
  <2> QED BY <1>1, <1>2, <1>3, <2>1, <2>2, QuietStep DEF IInv, Stored
<1>4. ASSUME import' = [import EXCEPT ![i].phase = "committing"], live' = live,
             commit' = [NoCommit EXCEPT !.id = i, !.step = "replay"]
      PROVE  IInv'
  <2>1. /\ import' \in [Imports -> ImportState]
        /\ import'[i].phase = "committing" /\ import'[i].begun = import[i].begun
        /\ SameIdentity(i)
        /\ \A n \in Imports \ {i} : import'[n] = import[n]
    BY <1>4, MovedFields DEF IInv, ImportPhases
  <2>2. /\ live = i /\ import[i].phase = "previewed" /\ i # NoImport
        /\ commit.id = NoImport /\ Fresh(i)
        /\ import[i].account \in Accounts
    BY DEF IInv, LifeInv, Placed, MemoryInv, Known, Engaged, CommitState, NoImport, Imports
  <2>3. /\ commit' \in CommitState /\ commit'.id = i /\ commit'.step = "replay"
    <3>1. commit' = [id |-> i, step |-> "replay", at |-> 1, status |-> "none", reconcile |-> FALSE]
      BY <1>4 DEF NoCommit
    <3> HIDE DEF StartCommit
    <3> QED BY <3>1 DEF CommitState, CommitSteps
  <2>4. UNCHANGED <<journals, server, wire, inspecting, cleanup, cancelling, acking, acks, owner,
                    released, barrierOp, live, completed>>
    BY <1>4
  <2> HIDE DEF StartCommit
  <2>5. MemoryInv'
    <3>1. ASSUME NEW n \in Imports
          PROVE  Known(n)'
      BY <2>1, <2>2, <2>3, <2>4 DEF IInv, MemoryInv, Known, Engaged, SameIdentity
    <3> QED BY <2>1, <2>2, <2>3, <2>4, <3>1 DEF IInv, MemoryInv, Known
  <2>6. LifeInv'
    <3>1. ASSUME NEW n \in Imports
          PROVE  Placed(n)'
      <4>1. n # NoImport
        BY DEF NoImport, Imports
      <4>2. /\ Fresh(n) => Fresh(n)'
            /\ n \in Stored' => /\ journals'[n].account = import[n].account
                                /\ journals'[n].source = import[n].source
        BY <1>1, <2>4, QuietFresh DEF IInv, LifeInv, Placed
      <4>3. CASE n = i
        BY <2>1, <2>2, <2>3, <4>2, <4>3 DEF SameIdentity, Placed
      <4>4. CASE n # i
        BY <2>1, <2>2, <2>3, <2>4, <4>1, <4>2, <4>4 DEF IInv, LifeInv, Placed
      <4> QED BY <4>3, <4>4
    <3>2. ASSUME NEW n \in Imports, Retired(n)
          PROVE  Retired(n)'
      BY <2>1, <2>2, <2>3, <3>2 DEF Retired
    <3>3. /\ released \subseteq Imports /\ acks \subseteq Imports /\ cancelling \subseteq Imports
          /\ acking \in Imports \cup {NoImport}
          /\ barrierOp.step = "clear" => barrierOp.target \in Imports
      BY DEF IInv, GateInv, MemoryInv, Known
    <3>4. \A n \in cancelling : n # i /\ n # NoImport
      BY <2>2, <3>3 DEF IInv, LifeInv, Placed, NoImport, Imports
    <3> QED BY <2>1, <2>2, <2>3, <2>4, <3>1, <3>2, <3>3, <3>4 DEF IInv, LifeInv, Placed
  <2>7. JournalInv' /\ EvidenceInv' /\ AckInv'
    BY <1>1, <2>4, QuietInOrder, QuietEvidence, QuietAcks DEF IInv
  <2>8. CommitInv' /\ ReplayInv'
    BY <2>3 DEF CommitInv, ReplayInv
  <2> QED BY <1>2, <2>5, <2>6, <2>7, <2>8 DEF IInv
<1> QED BY <1>3, <1>4

\* What is known of the retired, for the steps that leave it alone.
LEMMA KeptRetired ==
    ASSUME IInv, UNCHANGED <<released, barrierOp>>
    PROVE  /\ \A n \in released' : Retired(n)
           /\ barrierOp'.step = "clear" => Retired(barrierOp'.target)
           /\ live # NoImport => owner # None
           /\ inspecting \in [Imports -> {"idle", "probing", "inspected"}]
BY DEF IInv, LifeInv, Placed, MemoryInv, Known

\* cancel, and what closes an import for the user.
LEMMA CancelImportSafe ==
    ASSUME IInv, NEW i \in Imports, CancelImport(i)
    PROVE  IInv'
<1> USE DEF CancelImport, worldVars, sessionVars, gateVars
<1>1. QuietJournals /\ GateInv'
  BY JournalsAlone, GatesAlone DEF IInv
<1>2. live = i /\ i # NoImport
  BY DEF NoImport, Imports
<1>3. ASSUME Dropped(i), cancelling' = cancelling
      PROVE  IInv'
  <2>1. MemoryInv' /\ Identity
    BY <1>2, <1>3, MemoryDropped DEF IInv, LifeInv, Placed, MemoryInv, Known, CleanupGrows
  <2>2. LifeInv'
    BY <1>1, <1>3, LifeDropped DEF IInv
  <2> QED BY <1>1, <1>3, <2>1, <2>2, QuietStep DEF IInv, Stored
<1>4. ASSUME \/ import' = [import EXCEPT ![i].abandoned = TRUE]
             \/ import' = [import EXCEPT ![i].cancelled = TRUE],
             live' = live \/ (live' = NoImport /\ commit.id = i),
             cancelling' = cancelling \/ (cancelling' = cancelling \cup {i} /\ commit.id = i)
      PROVE  IInv'
  <2>1. import' \in [Imports -> ImportState] /\ \A n \in Imports : Looks(n)
    <3>1. import \in [Imports -> ImportState]
      BY DEF IInv, MemoryInv, Known
    <3>2. /\ \A n \in Imports \ {i} : import'[n] = import[n]
          /\ \/ import'[i] = [import[i] EXCEPT !.abandoned = TRUE]
             \/ import'[i] = [import[i] EXCEPT !.cancelled = TRUE]
          /\ import' = [n \in Imports |-> import'[n]]
      BY <1>4, <3>1
    <3> HIDE DEF CancelImport
    <3>3. import'[i] \in ImportState /\ Looks(i)
      BY <3>1, <3>2 DEF ImportState, Looks, SameIdentity
    <3>4. \A n \in Imports : import'[n] \in ImportState /\ Looks(n)
      BY <3>1, <3>2, <3>3 DEF Looks, SameIdentity
    <3> QED BY <3>2, <3>4
  <2>2. CleanupGrows
    BY DEF IInv, MemoryInv, Known, CleanupGrows
  <2> QED BY <1>1, <1>2, <1>4, <2>1, <2>2, KeptRetired, LooksSafe
<1> QED BY <1>2, <1>3, <1>4 DEF Destroyed

\* revokeAll.
LEMMA TransitionStartSafe ==
    ASSUME IInv, TransitionStart
    PROVE  IInv'
<1>0. /\ epoch < MaxTransitions /\ epoch' = epoch + 1 /\ owner' = None /\ active' = None
      /\ UNCHANGED <<reconcile, blocked>>
      /\ maintenance' \in {"none", "clearing"}
      /\ import' = [n \in Imports |->
             IF n # live THEN import[n]
             ELSE IF commit.id # n THEN Spent(n)
             ELSE [import[n] EXCEPT !.cancelled = TRUE,
                                 !.abandoned = @ \/ import[n].phase = "finalizing"]]
      /\ cleanup' = cleanup \cup
             {<<epoch + 1, n>> : n \in {n \in {live} \ {NoImport} : import[n].begun}}
  BY DEF TransitionStart
<1>4. UNCHANGED <<journals, server, wire, commit, completed, inspecting, cancelling, acking,
                  released, barrierOp>>
      /\ live' = NoImport /\ acks' \subseteq acks
  BY DEF TransitionStart, worldVars
<1>1. QuietJournals
  BY <1>4, JournalsAlone DEF IInv
<1>2. epoch' \in 0 .. MaxTransitions
  <2>1. epoch \in 0 .. MaxTransitions /\ MaxTransitions \in Nat
    BY TransferAssumption DEF IInv, GateInv
  <2>2. epoch < MaxTransitions /\ epoch' = epoch + 1
    BY <1>0
  <2> QED BY <2>1, <2>2
<1>3. GateInv'
  BY <1>0, <1>2, <1>4 DEF IInv, GateInv
<1>5. CleanupGrows
  <2>1. live # NoImport => live \in Imports
    BY DEF IInv, MemoryInv, Known
  <2>2. cleanup \subseteq (0 .. MaxTransitions) \X Imports
    BY DEF IInv, MemoryInv, Known
  <2>3. ASSUME NEW c \in cleanup', c \notin cleanup
        PROVE  c = <<epoch', live>> /\ live \in Imports /\ import[live].begun
    BY <1>0, <2>1, <2>3
  <2> QED BY <1>2, <2>2, <2>3 DEF CleanupGrows
<1>6. CASE live = NoImport
  <2>1. ASSUME NEW n \in Imports
        PROVE  import'[n] = import[n]
    <3>1. n # NoImport
      BY DEF NoImport, Imports
    <3> QED BY <1>0, <1>6, <3>1
  <2>2. import' \in [Imports -> ImportState] /\ \A n \in Imports : Looks(n)
    BY <1>0, <2>1 DEF IInv, MemoryInv, Known, Looks, SameIdentity
  <2> QED BY <1>1, <1>3, <1>4, <1>5, <1>6, <2>2, KeptRetired, LooksSafe
<1>7. CASE live # NoImport /\ commit.id = live
  <2>1. live \in Imports
    BY <1>7 DEF IInv, MemoryInv, Known
  <2>2. ASSUME NEW n \in Imports
        PROVE  import'[n] \in ImportState /\ Looks(n)
    <3>1. import[n] \in ImportState
      BY DEF IInv, MemoryInv, Known
    <3>2. import'[n] = IF n # live THEN import[n]
                       ELSE [import[n] EXCEPT !.cancelled = TRUE,
                                 !.abandoned = import[n].abandoned \/ import[n].phase = "finalizing"]
      BY <1>0, <1>7
    <3> QED BY <3>1, <3>2 DEF ImportState, Looks, SameIdentity
  <2>3. import' \in [Imports -> ImportState]
    BY <1>0, <2>2
  <2> QED BY <1>1, <1>3, <1>4, <1>5, <1>7, <2>2, <2>3, KeptRetired, LooksSafe
<1>8. CASE live # NoImport /\ commit.id # live
  <2>1. live \in Imports /\ import[live].phase # "none"
    BY <1>8 DEF IInv, MemoryInv, Known, LifeInv, Placed
  <2>2. Dropped(live)
    BY <1>0, <1>4, <1>8, <2>1 DEF Dropped, Destroyed, IInv, MemoryInv, Known
  <2>3. MemoryInv' /\ Identity
    BY <1>4, <1>5, <2>1, <2>2, MemoryDropped DEF IInv
  <2>4. LifeInv'
    BY <1>1, <1>4, <2>1, <2>2, LifeDropped DEF IInv
  <2> QED BY <1>1, <1>3, <1>4, <2>3, <2>4, QuietStep DEF IInv, Stored
<1> QED BY <1>6, <1>7, <1>8

-----------------------------------------------------------------------------
(* The worker stops.                                                       *)

\* A request that may be on its way is on record, so that it may land at any
\* time.
LEMMA LateRequest ==
    ASSUME IInv, commit.step \in {"sending", "waiting"}
    PROVE  /\ commit.id \in Imports /\ Here \in Entries
           /\ Covered(commit.id, Here) /\ commit.id \notin released
           /\ commit.id \in Stored =>
                 /\ Entry(commit.id).outcome[Here] \notin {"rejected", "skipped"}
                 /\ Entry(commit.id).phase # "cancelled"
<1>1. commit.id \in Imports /\ commit.id \notin released
  BY DEF IInv, MemoryInv, Known, LifeInv, Placed, CommitState, Retired
<1>2. Here \in Entries /\ Covered(commit.id, Here)
  BY TransferAssumption DEF IInv, CommitInv, Here
<1>3. ASSUME commit.id \in Stored
      PROVE  /\ Entry(commit.id).outcome[Here] \notin {"rejected", "skipped"}
             /\ Entry(commit.id).phase # "cancelled"
  <2>1. /\ Entry(commit.id).flag["replayBarrier"] /\ Evid(Entry(commit.id), Here)
        /\ Readable(Entry(commit.id))
    BY <1>1, <1>2, <1>3 DEF Covered, IInv, JournalInv, Sound
  <2> QED BY <1>2, <2>1, EntryAssumption DEF Evid, Readable, ReadablePhase, Answered, Unknown
<1> QED BY <1>1, <1>2, <1>3

LEMMA LateEvidence ==
    ASSUME IInv, commit.step = "waiting",
           Sent' = Sent \cup {<<commit.id, Here>>}, server \subseteq server',
           server' \subseteq Imports \X Entries, wire' \subseteq Imports \X Entries,
           UNCHANGED <<journals, released, completed>>
    PROVE  EvidenceInv'
<1>1. ASSUME NEW i \in Imports, NEW e \in Entries, <<i, e>> \in Sent'
      PROVE  Covered(i, e)'
  <2>1. Covered(i, e)
    BY <1>1, LateRequest DEF IInv, EvidenceInv
  <2> QED BY <2>1 DEF Covered, Stored, Entry
<1>2. ASSUME NEW i \in Stored, NEW e \in Entries
      PROVE  /\ Entry(i).outcome[e] = "committed" => <<i, e>> \in server'
             /\ Entry(i).outcome[e] \in {"rejected", "skipped"} => <<i, e>> \notin Sent'
             /\ Entry(i).phase = "cancelled" => <<i, e>> \notin Sent'
  BY LateRequest DEF IInv, EvidenceInv
<1> QED BY <1>1, <1>2 DEF IInv, EvidenceInv, Stored, Entry

LEMMA CrashSafe ==
    ASSUME IInv, Crash
    PROVE  IInv'
<1>1. /\ UNCHANGED <<journals, epoch, released, completed, server>>
      /\ owner' \in Accounts
      /\ import' = [i \in Imports |-> IF import[i].phase = "none" THEN import[i] ELSE Spent(i)]
      /\ wire' = IF commit.step = "waiting" THEN wire \cup {<<commit.id, Here>>} ELSE wire
      /\ live' = NoImport /\ maintenance' = "none" /\ blocked' = {} /\ active' = None
      /\ acks' = {} /\ commit' = NoCommit /\ inspecting' = [i \in Imports |-> "idle"]
      /\ cleanup' = {} /\ cancelling' = {} /\ acking' = NoImport
      /\ reconcile' = NoReconcile /\ barrierOp' = NoBarrierOp
  BY DEF Crash, MemoryReset
<1>2. QuietJournals
  BY <1>1, JournalsAlone DEF IInv
<1>3. /\ commit' \in CommitState /\ commit'.id = NoImport /\ commit'.step = "idle"
      /\ barrierOp' \in BarrierState /\ barrierOp'.step = "idle"
      /\ reconcile'.step = "idle"
      /\ reconcile' = [step |-> reconcile'.step, account |-> reconcile'.account,
                       epoch |-> reconcile'.epoch, forced |-> reconcile'.forced,
                       todo |-> reconcile'.todo]
  BY <1>1 DEF NoCommit, CommitState, CommitSteps, NoBarrierOp, BarrierState, NoReconcile
<1>4. JournalInv'
  BY <1>2, QuietInOrder DEF IInv
<1>5. ASSUME NEW n \in Imports
      PROVE  /\ import'[n] \in ImportState
             /\ import'[n].phase \in {"none", "over"}
             /\ import'[n].phase = "none" <=> import[n].phase = "none"
             /\ import[n].phase = "none" => import'[n] = import[n]
             /\ SameIdentity(n)
             /\ ~import'[n].begun \/ import[n].begun
  <2>1. import'[n] = IF import[n].phase = "none" THEN import[n] ELSE Spent(n)
    BY <1>1
  <2>2. import[n] \in ImportState
    BY DEF IInv, MemoryInv, Known
  <2> QED BY <2>1, <2>2, SpentFields DEF IInv, SameIdentity
<1>6. MemoryInv'
  <2>1. import' \in [Imports -> ImportState]
    BY <1>1, <1>5
  <2>2. ASSUME NEW n \in Imports
        PROVE  Known(n)'
    <3>1. n # NoImport
      BY DEF NoImport, Imports
    <3>2. Engaged(n)' => import[n].begun
      BY <1>1, <1>3, <1>5, <3>1 DEF Engaged
    <3> QED BY <1>5, <3>2 DEF IInv, MemoryInv, Known, Engaged, SameIdentity
  <2> QED BY <1>1, <1>3, <2>1, <2>2 DEF MemoryInv, Known
<1>7. GateInv'
  BY <1>1, <1>3 DEF IInv, GateInv
<1>8. LifeInv'
  <2>1. ASSUME NEW n \in Imports
        PROVE  n # NoImport /\ (import[n].phase = "none" => Fresh(n)')
    <3>1. n # NoImport
      BY DEF NoImport, Imports
    <3>2. ASSUME import[n].phase = "none"
          PROVE  Fresh(n)'
      <4>1. Fresh(n) /\ commit.id # n
        BY <3>2 DEF IInv, LifeInv, Placed
      <4> QED BY <1>1, <4>1 DEF Fresh, Sent, Stored
    <3> QED BY <3>1, <3>2
  <2>2. \A n \in Stored' : n \in Stored /\ n \in Imports
                            /\ journals'[n].account = import'[n].account
                            /\ journals'[n].source = import'[n].source
    BY <1>1, <1>5 DEF IInv, JournalInv, LifeInv, Placed, SameIdentity, Stored
  <2>3. \A n \in released' : Retired(n)'
    BY <1>1, <1>3, <1>5, <2>1 DEF IInv, GateInv, LifeInv, Placed, Retired
  <2> QED BY <1>1, <1>3, <1>5, <2>1, <2>2, <2>3 DEF LifeInv, Placed
<1>9. EvidenceInv'
  <2>1. CASE commit.step = "waiting"
    <3>1. Sent' = Sent \cup {<<commit.id, Here>>}
      BY <1>1, <2>1 DEF Sent
    <3>2. wire' \subseteq Imports \X Entries /\ server' \subseteq Imports \X Entries
      BY <1>1, <2>1, LateRequest DEF IInv, EvidenceInv
    <3> QED BY <1>1, <2>1, <3>1, <3>2, LateEvidence
  <2>2. CASE commit.step # "waiting"
    BY <1>1, <1>2, <2>2, QuietEvidence DEF IInv
  <2> QED BY <2>1, <2>2
<1>10. CommitInv' /\ ReplayInv'
  BY <1>3 DEF CommitInv, ReplayInv
<1>11. AckInv'
  BY <1>1, <1>2, QuietAcks DEF IInv
<1> QED BY <1>4, <1>6, <1>7, <1>8, <1>9, <1>10, <1>11 DEF IInv

-----------------------------------------------------------------------------
(* The commit.                                                             *)

commitAlone == <<import, live, acks, completed, owner, epoch, inspecting, cleanup, cancelling,
                 acking, reconcile, barrierOp, released>>

\* The commit goes on with the same import.
GoesOn ==
    /\ commit' \in CommitState /\ commit'.id = commit.id /\ commit.id # NoImport
    /\ commit'.step # "idle"
    /\ commit'.step \in {"replay", "inspected", "begin"} =>
           commit.step \in {"replay", "inspected", "begin"}

LEMMA CommitMoves ==
    ASSUME IInv, GateInv', JournalInv', EvidenceInv', AckInv', CommitInv', ReplayInv',
           UNCHANGED commitAlone, GoesOn,
           \A n \in Imports : Fresh(n) => \/ Fresh(n)'
                                          \/ /\ n = commit.id
                                             /\ commit'.step \notin {"replay", "inspected", "begin"},
           \A n \in Stored' : /\ journals'[n].account = import[n].account
                              /\ journals'[n].source = import[n].source
    PROVE  IInv'
<1> USE DEF commitAlone, GoesOn
<1>1. MemoryInv'
  BY DEF IInv, MemoryInv, Known, Engaged
<1>2. LifeInv'
  <2>1. \A n \in Imports : Retired(n) => Retired(n)'
    BY DEF Retired
  <2>2. /\ released \subseteq Imports /\ acks \subseteq Imports
        /\ acking \in Imports \cup {NoImport}
        /\ barrierOp.step = "clear" => barrierOp.target \in Imports
    BY DEF IInv, GateInv, MemoryInv, Known
  <2>3. ASSUME NEW n \in Imports
        PROVE  Placed(n)'
    BY DEF IInv, LifeInv, Placed
  <2>4. /\ \A n \in acks \cup released \cup ({acking} \ {NoImport}) : Retired(n)'
        /\ barrierOp.step = "clear" => Retired(barrierOp.target)'
    BY <2>1, <2>2 DEF IInv, LifeInv, Placed
  <2> QED BY <2>3, <2>4 DEF IInv, LifeInv, Placed
<1> QED BY <1>1, <1>2 DEF IInv

\* The commit writes nothing that counts.
LEMMA OnwardSafe ==
    ASSUME IInv, GateInv', QuietJournals, CommitInv', ReplayInv',
           UNCHANGED commitAlone, UNCHANGED <<server, wire>>, GoesOn
    PROVE  IInv'
<1>1. UNCHANGED <<acks, acking, completed, import>>
  BY DEF commitAlone
<1>2. JournalInv' /\ EvidenceInv' /\ AckInv'
  BY <1>1, QuietInOrder, QuietEvidence, QuietAcks DEF IInv
<1>3. /\ \A n \in Imports : Fresh(n) => Fresh(n)'
      /\ \A n \in Stored' : /\ journals'[n].account = import[n].account
                            /\ journals'[n].source = import[n].source
  BY <1>1, QuietFresh DEF IInv, LifeInv, Placed, JournalInv
<1> QED BY <1>2, <1>3, CommitMoves

\* What every step of a commit relies on.
LEMMA CommitFacts ==
    ASSUME IInv, NEW i \in Imports, commit.id = i
    PROVE  /\ i # NoImport /\ import[i].account \in Accounts /\ import[i].phase # "none"
           /\ i \notin released
           /\ commit \in CommitState
BY DEF IInv, MemoryInv, Known, Engaged, LifeInv, Placed, Retired, NoImport, Imports

\* The commit takes another step.
LEMMA ToState ==
    ASSUME IInv, NEW i \in Imports, commit.id = i, NEW step \in CommitSteps, To(step)
    PROVE  /\ commit' \in CommitState /\ commit'.id = i /\ commit'.step = step
           /\ commit'.at = commit.at /\ commit'.status = commit.status
           /\ commit'.reconcile = commit.reconcile
BY CommitFacts DEF To, CommitState

\* The commit fails, having written nothing.
LEMMA FailedSafe ==
    ASSUME IInv, GateInv', NEW i \in Imports, commit.id = i, To("failed"), QuietJournals,
           UNCHANGED commitAlone, UNCHANGED <<server, wire>>
    PROVE  IInv'
<1>1. /\ commit' \in CommitState /\ commit'.id = i /\ commit'.step = "failed" /\ i # NoImport
  BY ToState, CommitFacts DEF CommitSteps
<1>2. CommitInv' /\ ReplayInv' /\ GoesOn
  BY <1>1 DEF CommitInv, ReplayInv, GoesOn
<1> QED BY <1>2, OnwardSafe

LEMMA CommitStopsSafe ==
    ASSUME IInv, NEW i \in Imports, CommitStops(i)
    PROVE  IInv'
<1> USE DEF CommitStops, worldVars, gateVars, commitElse, sessionVars
<1>1. QuietJournals /\ GateInv' /\ UNCHANGED commitAlone
  BY JournalsAlone, GatesAlone DEF IInv, commitAlone
<1> QED BY <1>1, FailedSafe

LEMMA CommitInspectsSafe ==
    ASSUME IInv, NEW i \in Imports, CommitInspects(i)
    PROVE  IInv'
<1> USE DEF CommitInspects, worldVars, commitElse, sessionVars
<1>1. GateInv' /\ UNCHANGED commitAlone
  BY GatesAlone DEF IInv, commitAlone
<1>2. ASSUME journals' = AfterInspection, To("inspected")
      PROVE  IInv'
  <2>1. QuietJournals
    BY <1>2, JournalsInspected DEF IInv
  <2>2. /\ commit' \in CommitState /\ commit'.id = i /\ commit'.step = "inspected" /\ i # NoImport
    BY <1>2, ToState, CommitFacts DEF CommitSteps
  <2>3. CommitInv' /\ ReplayInv' /\ GoesOn
    BY <2>2 DEF CommitInv, ReplayInv, GoesOn
  <2> QED BY <1>1, <2>1, <2>3, OnwardSafe
<1>3. ASSUME journals' = journals, To("failed")
      PROVE  IInv'
  <2>1. QuietJournals
    BY <1>3, JournalsAlone DEF IInv
  <2> QED BY <1>1, <1>3, <2>1, FailedSafe
<1> QED BY <1>2, <1>3

\* The barriers of the journal cover every request that was sent for the file.
LEMMA CommitInspectedSafe ==
    ASSUME IInv, NEW i \in Imports, CommitInspected(i)
    PROVE  IInv'
<1> USE DEF CommitInspected, worldVars, commitElse, sessionVars
<1>1. QuietJournals /\ UNCHANGED commitAlone
  BY JournalsAlone DEF IInv, commitAlone
<1>2. GateInv'
  BY <1>1, BlockedAccounts, CommitFacts DEF IInv, GateInv, Refreshed
<1>3. ASSUME To("begin"), ~ReplayBarred(import[i].account, import[i].source)
      PROVE  IInv'
  <2>1. /\ commit' \in CommitState /\ commit'.id = i /\ commit'.step = "begin" /\ i # NoImport
    BY <1>3, ToState, CommitFacts DEF CommitSteps
  <2>2. CommitInv' /\ GoesOn
    BY <2>1 DEF CommitInv, GoesOn
  <2>3. ASSUME NEW k \in Imports, NEW e \in Entries, <<k, e>> \in Sent,
               import[k].account = import[i].account, import[k].source = import[i].source
        PROVE  k \in released
    <3>1. Covered(k, e)
      BY <2>3 DEF IInv, EvidenceInv
    <3>2. ASSUME k \in Stored, Entry(k).flag["replayBarrier"]
          PROVE  FALSE
      <4>1. journals[k].account = import[i].account /\ journals[k].source = import[i].source
        BY <2>3, <3>2 DEF IInv, LifeInv, Placed
      <4> QED BY <1>3, <3>2, <4>1 DEF ReplayBarred
    <3> QED BY <3>1, <3>2 DEF Covered
  <2>4. ReplayInv'
    BY <2>1, <2>3 DEF ReplayInv, Sent
  <2> QED BY <1>1, <1>2, <2>2, <2>4, OnwardSafe
<1>4. ASSUME To("failed")
      PROVE  IInv'
  BY <1>1, <1>2, <1>4, FailedSafe
<1> QED BY <1>3, <1>4

\* begin makes room, and enters the import.
LEMMA EvictionRoom ==
    ASSUME JournalInv, NEW i \in Imports, NEW gone \in Evictions
    PROVE  /\ gone \subseteq Stored
           /\ \A k \in gone : ~Entry(k).flag["replayBarrier"]
           /\ Cardinality((Stored \ gone) \cup {i}) <= MaxJournals
<1>1. IsFiniteSet(Stored)
  <2>1. IsFiniteSet(Imports)
    BY FS_Interval, TransferAssumption DEF Imports
  <2> QED BY <2>1, FS_Subset DEF JournalInv
<1>2. gone \subseteq Stored /\ \A k \in gone : ~Entry(k).flag["replayBarrier"]
  BY DEF Evictions, IsEvictable
<1>3. PICK others \in 0 .. (MaxJournals - 1) :
           LET needed == Cardinality(Stored) + others + 1
           IN IF needed <= MaxJournals THEN gone = {} ELSE Cardinality(gone) = needed - MaxJournals
  BY DEF Evictions
<1>4. /\ IsFiniteSet(gone) /\ IsFiniteSet(Stored \ gone)
      /\ Cardinality(Stored) \in Nat /\ Cardinality(gone) \in Nat
      /\ Cardinality(Stored \ gone) \in Nat
  BY <1>1, <1>2, FS_Subset, FS_CardinalityType
<1>5. Cardinality(Stored \ gone) = Cardinality(Stored) - Cardinality(gone)
  <2>1. Stored \cap gone = gone
    BY <1>2
  <2> QED BY <1>1, <1>4, <2>1, FS_Difference
<1>6. gone = {} => Cardinality(gone) = 0
  BY FS_EmptySet
<1>7. Cardinality((Stored \ gone) \cup {i}) <= Cardinality(Stored \ gone) + 1
      /\ Cardinality((Stored \ gone) \cup {i}) \in Nat
  <2>1. Cardinality((Stored \ gone) \cup {i}) \in Nat
    BY <1>4, FS_AddElement, FS_CardinalityType
  <2>2. Cardinality((Stored \ gone) \cup {i})
            = IF i \in Stored \ gone THEN Cardinality(Stored \ gone)
              ELSE Cardinality(Stored \ gone) + 1
    BY <1>4, FS_AddElement
  <2> DEFINE kept == Cardinality(Stored \ gone)
             all == Cardinality((Stored \ gone) \cup {i})
  <2>3. kept \in Nat /\ all \in Nat /\ (all = kept \/ all = kept + 1)
    BY <1>4, <2>1, <2>2
  <2> HIDE DEF kept, all
  <2>4. all <= kept + 1 /\ all \in Nat
    BY <2>3
  <2> QED BY <2>4 DEF kept, all
<1>8. MaxJournals \in Nat \ {0}
  BY TransferAssumption
<1>9. Cardinality(Stored \ gone) + 1 <= MaxJournals
  BY <1>3, <1>4, <1>5, <1>6, <1>8
<1> QED BY <1>2, <1>4, <1>7, <1>8, <1>9

LEMMA CommitBeginsSafe ==
    ASSUME IInv, NEW i \in Imports, CommitBegins(i)
    PROVE  IInv'
<1> USE DEF worldVars, gateVars, commitElse, sessionVars
<1>1. /\ UNCHANGED <<server, wire, maintenance, blocked, active>> /\ UNCHANGED commitAlone
      /\ commit.id = i /\ commit.step = "begin"
  BY DEF CommitBegins, commitAlone
<1>2. GateInv'
  BY <1>1, GatesAlone DEF IInv, commitAlone
<1>3. ASSUME To("failed"), journals' = journals
      PROVE  IInv'
  <2>1. QuietJournals
    BY <1>1, <1>3, JournalsAlone DEF IInv, commitAlone
  <2> QED BY <1>1, <1>2, <1>3, <2>1, FailedSafe
<1>4. ASSUME To("begun"), NEW gone \in Evictions,
             journals' = [k \in (Stored \ gone) \cup {i} |->
                 IF k = i THEN [account |-> import[i].account, source |-> import[i].source,
                                entry |-> BlankJournal]
                 ELSE journals[k]]
      PROVE  IInv'
  <2>1. /\ commit' \in CommitState /\ commit'.id = i /\ commit'.step = "begun" /\ i # NoImport
    BY <1>1, <1>4, ToState, CommitFacts DEF CommitSteps
  <2>2. Fresh(i) /\ i \notin released
    BY <1>1, CommitFacts DEF IInv, LifeInv, Placed
  <2>3. /\ Stored' = (Stored \ gone) \cup {i}
        /\ journals'[i] = [account |-> import[i].account, source |-> import[i].source,
                           entry |-> BlankJournal]
        /\ \A k \in Stored' : k # i => k \in Stored /\ k \notin gone /\ journals'[k] = journals[k]
    BY <1>4 DEF Stored
  <2>4. /\ gone \subseteq Stored
        /\ \A k \in gone : ~Entry(k).flag["replayBarrier"]
        /\ Cardinality((Stored \ gone) \cup {i}) <= MaxJournals
    BY EvictionRoom DEF IInv
  <2>5. Sound(BlankJournal) /\ BlankJournal \in JournalEntry
    BY BlankSound DEF Sound
  <2>6. JournalInv'
    <3>1. import[i].account \in Accounts /\ import[i].source \in Sources
      BY <1>1, CommitFacts DEF IInv, MemoryInv, Known
    <3>2. ASSUME NEW k \in Stored'
          PROVE  /\ k \in Imports
                 /\ journals'[k] \in [account : Accounts, source : Sources, entry : JournalEntry]
                 /\ Sound(Entry(k)')
      BY <2>3, <2>5, <3>1 DEF IInv, JournalInv, Entry
    <3> QED BY <2>3, <2>4, <3>2 DEF JournalInv
  <2>7. EvidenceInv'
    <3>1. Sent' = Sent /\ released' = released /\ server' = server /\ completed' = completed
          /\ wire' = wire
      BY <1>1 DEF Sent, commitAlone
    <3>2. ASSUME NEW k \in Imports, NEW e \in Entries, <<k, e>> \in Sent
          PROVE  Covered(k, e)'
      <4>1. Covered(k, e) /\ k # i
        BY <2>2, <3>2 DEF IInv, EvidenceInv, Fresh
      <4>2. k \notin released => k \in Stored' /\ Entry(k)' = Entry(k)
        BY <2>3, <2>4, <4>1 DEF Covered, Entry
      <4> QED BY <3>1, <4>1, <4>2 DEF Covered
    <3>3. ASSUME NEW k \in Stored'
          PROVE  /\ k \in released => Entry(k)'.phase = "completed"
                 /\ \A e \in Entries :
                       /\ Entry(k)'.outcome[e] = "committed" => <<k, e>> \in server
                       /\ Entry(k)'.outcome[e] \in {"rejected", "skipped"} => <<k, e>> \notin Sent
                       /\ Entry(k)'.phase = "cancelled" => <<k, e>> \notin Sent
      <4>1. CASE k = i
        <5>1. Entry(k)' = BlankJournal
          BY <2>3, <4>1 DEF Entry
        <5> QED BY <2>2, <4>1, <5>1 DEF BlankJournal
      <4>2. CASE k # i
        <5>1. k \in Stored /\ Entry(k)' = Entry(k)
          BY <2>3, <4>2 DEF Entry
        <5> QED BY <5>1 DEF IInv, EvidenceInv
      <4> QED BY <4>1, <4>2
    <3> QED BY <3>1, <3>2, <3>3 DEF IInv, EvidenceInv
  <2>8. AckInv'
    <3>1. ASSUME NEW k \in acks \cup {acking}, k \in Stored'
          PROVE  Over(Entry(k)')
      <4>1. k # i
        BY <1>1, <2>1, <3>1 DEF IInv, LifeInv, Placed, Retired
      <4> QED BY <2>3, <3>1, <4>1 DEF IInv, AckInv, Entry
    <3> QED BY <1>1, <3>1 DEF AckInv, commitAlone
  <2>9. CommitInv' /\ GoesOn
    BY <1>1, <2>1 DEF CommitInv, GoesOn
  <2>10. ReplayInv'
    BY <1>1, <2>1 DEF IInv, ReplayInv, commitAlone, Sent
  <2>11. ASSUME NEW n \in Imports, Fresh(n), n # i
         PROVE  Fresh(n)'
    BY <1>1, <2>3, <2>11 DEF Fresh, Sent
  <2>12. \A n \in Stored' : /\ journals'[n].account = import[n].account
                            /\ journals'[n].source = import[n].source
    BY <2>3 DEF IInv, LifeInv, Placed, JournalInv
  <2> QED BY <1>1, <1>2, <2>1, <2>6, <2>7, <2>8, <2>9, <2>10, <2>11, <2>12, CommitMoves
<1> QED BY <1>3, <1>4 DEF CommitBegins

\* The worker knows that the import is in the journal.
LEMMA CommitBegunSafe ==
    ASSUME IInv, NEW i \in Imports, CommitBegun(i)
    PROVE  IInv'
<1>1. /\ UNCHANGED <<journals, server, wire, live, maintenance, blocked, active, acks, completed>>
      /\ UNCHANGED <<owner, epoch, inspecting, cleanup, cancelling, acking, reconcile, barrierOp,
                     released>>
      /\ commit.id = i /\ commit.step = "begun" /\ To("mark")
      /\ import' = [import EXCEPT ![i].begun = TRUE]
  BY DEF CommitBegun, worldVars, gateVars, commitElse, sessionVars
<1>2. QuietJournals /\ GateInv'
  BY <1>1, JournalsAlone, GatesAlone DEF IInv
<1>3. /\ commit' \in CommitState /\ commit'.id = i /\ commit'.step = "mark" /\ i # NoImport
      /\ import[i].account \in Accounts /\ import[i].phase # "none"
  BY <1>1, ToState, CommitFacts DEF CommitSteps
<1>4. /\ import' \in [Imports -> ImportState]
      /\ import'[i].phase = import[i].phase /\ SameIdentity(i)
      /\ \A n \in Imports \ {i} : import'[n] = import[n]
  <2>1. import \in [Imports -> ImportState]
    BY DEF IInv, MemoryInv, Known
  <2>2. import' = [import EXCEPT ![i].begun = TRUE]
    BY <1>1
  <2> QED BY <2>1, <2>2 DEF ImportState, SameIdentity
<1>5. MemoryInv'
  <2>1. ASSUME NEW n \in Imports
        PROVE  Known(n)'
    BY <1>1, <1>3, <1>4 DEF IInv, MemoryInv, Known, Engaged, SameIdentity
  <2> QED BY <1>1, <1>3, <1>4, <2>1 DEF IInv, MemoryInv, Known
<1>6. LifeInv'
  <2>1. ASSUME NEW n \in Imports
        PROVE  /\ Retired(n) => Retired(n)'
               /\ import'[n].phase = import[n].phase /\ SameIdentity(n)
    BY <1>1, <1>3, <1>4 DEF Retired, SameIdentity
  <2>2. /\ released \subseteq Imports /\ acks \subseteq Imports /\ cancelling \subseteq Imports
        /\ acking \in Imports \cup {NoImport} /\ live \in Imports \cup {NoImport}
        /\ barrierOp.step = "clear" => barrierOp.target \in Imports
    BY DEF IInv, GateInv, MemoryInv, Known
  <2>3. \A n \in Imports : Fresh(n) => Fresh(n)'
    BY <1>1, <1>2, QuietFresh
  <2>4. ASSUME NEW n \in Imports
        PROVE  Placed(n)'
    BY <1>1, <1>3, <2>1, <2>3 DEF IInv, LifeInv, Placed, Stored, SameIdentity
  <2> QED BY <1>1, <1>3, <2>1, <2>2, <2>4 DEF IInv, LifeInv, Placed
<1>7. JournalInv' /\ EvidenceInv' /\ AckInv'
  BY <1>1, <1>2, QuietInOrder, QuietEvidence, QuietAcks DEF IInv
<1>8. CommitInv'
  BY <1>3 DEF CommitInv
<1>9. ReplayInv'
  <2>1. \A n \in Imports : SameIdentity(n)
    BY <1>4 DEF SameIdentity
  <2> QED BY <1>1, <1>3, <2>1 DEF IInv, ReplayInv, SameIdentity, Sent
<1> QED BY <1>2, <1>5, <1>6, <1>7, <1>8, <1>9 DEF IInv

-----------------------------------------------------------------------------
(* Folder by folder, item by item.                                         *)

\* The commit writes its entry.
LEMMA WriteSafe ==
    ASSUME IInv, GateInv', NEW i \in Stored, commit.id = i, commit.step \in {"mark", "settle"},
           NEW k, Update(i, k), Advances(Entry(i), k), k.phase # "cancelled",
           UNCHANGED commitAlone, UNCHANGED <<server, wire>>, GoesOn,
           commit'.step \notin {"replay", "inspected", "begin"}, CommitInv',
           \A e \in Entries :
               /\ <<i, e>> \in Sent => k.flag["replayBarrier"] /\ Evid(k, e)
               /\ k.outcome[e] = "committed" => <<i, e>> \in server
               /\ k.outcome[e] \in {"rejected", "skipped"} => <<i, e>> \notin Sent
    PROVE  IInv'
<1>1. i \in Imports /\ i \notin released
  BY CommitFacts DEF IInv, JournalInv
<1>2. /\ Stored' = Stored /\ Entry(i)' = k
      /\ journals'[i] \in [account : Accounts, source : Sources, entry : JournalEntry]
      /\ journals'[i].account = journals[i].account /\ journals'[i].source = journals[i].source
      /\ \A n \in Stored \ {i} : journals'[n] = journals[n]
  <2>1. k \in JournalEntry
    BY DEF Advances, Sound
  <2> QED BY <2>1 DEF Update, Stored, Entry, IInv, JournalInv
<1>3. /\ Sent' = Sent
      /\ UNCHANGED <<server, released, completed, acks, acking, import>>
  BY DEF Sent, commitAlone
<1>4. JournalInv'
  <2>1. ASSUME NEW n \in Stored
        PROVE  /\ journals'[n] \in [account : Accounts, source : Sources, entry : JournalEntry]
               /\ Sound(Entry(n)')
    BY <1>2 DEF IInv, JournalInv, Entry, Advances
  <2> QED BY <1>2, <2>1 DEF IInv, JournalInv
<1>5. EvidenceInv'
  <2>1. ASSUME NEW n \in Imports, NEW e \in Entries, <<n, e>> \in Sent
        PROVE  Covered(n, e)'
    <3>1. CASE n = i
      BY <1>2, <2>1, <3>1 DEF Covered, Evid
    <3>2. CASE n # i
      <4>1. Covered(n, e)
        BY <2>1 DEF IInv, EvidenceInv
      <4>2. n \in Stored => n \in Stored' /\ Entry(n)' = Entry(n)
        BY <1>2, <3>2 DEF Entry
      <4> QED BY <1>3, <4>1, <4>2 DEF Covered
    <3> QED BY <3>1, <3>2
  <2>2. ASSUME NEW n \in Stored
        PROVE  /\ n \in released => Entry(n)'.phase = "completed"
               /\ \A e \in Entries :
                     /\ Entry(n)'.outcome[e] = "committed" => <<n, e>> \in server
                     /\ Entry(n)'.outcome[e] \in {"rejected", "skipped"} => <<n, e>> \notin Sent
                     /\ Entry(n)'.phase = "cancelled" => <<n, e>> \notin Sent
    <3>1. CASE n = i
      BY <1>1, <1>2, <3>1
    <3>2. CASE n # i
      <4>1. Entry(n)' = Entry(n)
        BY <1>2, <3>2 DEF Entry
      <4> QED BY <4>1 DEF IInv, EvidenceInv
    <3> QED BY <3>1, <3>2
  <2> QED BY <1>2, <1>3, <2>1, <2>2 DEF IInv, EvidenceInv
<1>6. AckInv'
  <2>1. ASSUME NEW n \in acks \cup {acking}, n \in Stored
        PROVE  Over(Entry(n)')
    <3>1. n # i
      BY <1>1, <2>1 DEF IInv, LifeInv, Placed, Retired, NoImport, Imports
    <3> QED BY <1>2, <2>1, <3>1 DEF IInv, AckInv, Entry
  <2> QED BY <1>2, <1>3, <2>1 DEF AckInv
<1>7. ReplayInv'
  BY <1>3 DEF IInv, ReplayInv, GoesOn
<1>8. ASSUME NEW n \in Imports, Fresh(n)
      PROVE  Fresh(n)'
  BY <1>2, <1>3, <1>8 DEF Fresh
<1>9. \A n \in Stored' : /\ journals'[n].account = import[n].account
                         /\ journals'[n].source = import[n].source
  BY <1>2 DEF IInv, LifeInv, Placed, JournalInv
<1> QED BY <1>4, <1>5, <1>6, <1>7, <1>8, <1>9, CommitMoves

\* A journal operation of the commit fails, or writes.
LEMMA JournalStepSafe ==
    ASSUME IInv, NEW i \in Imports, commit.id = i,
           NEW allowed, NEW entry, NEW next, JournalStep(i, allowed, entry, next)
    PROVE  /\ GateInv' /\ UNCHANGED commitAlone /\ UNCHANGED <<server, wire>>
           /\ IInv' \/ (i \in Stored /\ allowed /\ Update(i, entry) /\ commit' = next)
<1> USE DEF JournalStep, worldVars, gateVars, commitElse, sessionVars
<1>1. GateInv' /\ UNCHANGED commitAlone /\ UNCHANGED <<server, wire>>
  BY GatesAlone DEF IInv, commitAlone
<1>2. ASSUME journals' = journals, To("failed")
      PROVE  IInv'
  <2>1. QuietJournals
    BY <1>1, <1>2, JournalsAlone DEF IInv, commitAlone
  <2> QED BY <1>1, <1>2, <2>1, FailedSafe
<1> QED BY <1>1, <1>2

\* No request has been sent for an entry that has no outcome, and is not in flight.
LEMMA NotSentYet ==
    ASSUME IInv, NEW i \in Stored, commit.id = i, NEW e \in Entries,
           Entry(i).inFlight = Nothing, ~Answered(Entry(i), e)
    PROVE  <<i, e>> \notin Sent
<1>1. i \in Imports /\ i \notin released
  BY CommitFacts DEF IInv, JournalInv
<1> QED BY <1>1, EntryAssumption DEF IInv, EvidenceInv, Covered, Evid, Answered, Unknown

\* The entry that the commit is at.
LEMMA AtPlan ==
    ASSUME IInv, ~AllDone, commit.id # NoImport
    PROVE  commit.at \in DOMAIN Plan /\ Here \in Entries
<1>1. commit.at \in Nat \ {0}
  BY DEF IInv, MemoryInv, Known, CommitState
<1>2. commit.at \in DOMAIN Plan
  BY <1>1, TransferAssumption DEF AllDone
<1> QED BY <1>2, TransferAssumption DEF Here

LEMMA SkipSafe ==
    ASSUME IInv, NEW i \in Imports, Skip(i)
    PROVE  IInv'
<1> DEFINE j == Entry(i)
           k == Skipped(j, Here)
           next == [commit EXCEPT !.at = @ + 1]
<1>1. /\ commit.id = i /\ commit.step = "mark" /\ ~AllDone
      /\ JournalStep(i, SkipAllowed(j, Here), k, next)
  BY DEF Skip
<1>2. Here \in Entries /\ i # NoImport /\ commit \in CommitState
  BY <1>1, AtPlan, CommitFacts
<1>3. /\ GateInv' /\ UNCHANGED commitAlone /\ UNCHANGED <<server, wire>>
      /\ IInv' \/ (i \in Stored /\ SkipAllowed(j, Here) /\ Update(i, k) /\ commit' = next)
  BY <1>1, JournalStepSafe
<1>4. ASSUME i \in Stored, SkipAllowed(j, Here), Update(i, k), commit' = next
      PROVE  IInv'
  <2>1. Sound(j) /\ j \in JournalEntry
    BY <1>4 DEF IInv, JournalInv, Sound
  <2>2. /\ Advances(j, k)
        /\ k.phase = "committing" /\ k.flag = j.flag
        /\ k.inFlight = j.inFlight /\ k.outcome = [j.outcome EXCEPT ![Here] = "skipped"]
    BY <1>2, <1>4, <2>1, SkipAdvances
  <2>3. <<i, Here>> \notin Sent
    BY <1>1, <1>2, <1>4, NotSentYet DEF SkipAllowed, MarkAllowed
  <2>4. /\ commit' \in CommitState /\ commit'.id = i /\ commit'.step = "mark"
    BY <1>1, <1>2, <1>4 DEF CommitState
  <2>5. CommitInv' /\ GoesOn
    BY <1>1, <1>2, <2>4 DEF CommitInv, GoesOn
  <2>6. i \notin released
    BY <1>1, CommitFacts
  <2>7. ASSUME NEW e \in Entries
        PROVE  /\ <<i, e>> \in Sent => k.flag["replayBarrier"] /\ Evid(k, e)
               /\ k.outcome[e] = "committed" => <<i, e>> \in server
               /\ k.outcome[e] \in {"rejected", "skipped"} => <<i, e>> \notin Sent
    <3>1. CASE e = Here
      BY <2>1, <2>2, <2>3, <3>1 DEF JournalEntry
    <3>2. CASE e # Here
      <4>1. k.outcome[e] = j.outcome[e]
        BY <2>1, <2>2, <3>2 DEF JournalEntry
      <4> HIDE DEF k
      <4> QED BY <1>4, <2>2, <2>6, <4>1 DEF IInv, EvidenceInv, Covered, Evid
    <3> QED BY <3>1, <3>2
  <2> HIDE DEF k, next
  <2>8. k.phase # "cancelled"
    BY <2>2
  <2> QED BY <1>1, <1>3, <1>4, <2>2, <2>4, <2>5, <2>7, <2>8, WriteSafe
<1> QED BY <1>3, <1>4

LEMMA MarkSafe ==
    ASSUME IInv, NEW i \in Imports, Mark(i)
    PROVE  IInv'
<1> DEFINE j == Entry(i)
           k == Marked(j, Here)
           next == [commit EXCEPT !.step = "send"]
<1>1. /\ commit.id = i /\ commit.step = "mark" /\ ~AllDone
      /\ JournalStep(i, MarkAllowed(j, Here), k, next)
  BY DEF Mark
<1>2. Here \in Entries /\ commit.at \in DOMAIN Plan /\ i # NoImport /\ commit \in CommitState
  BY <1>1, AtPlan, CommitFacts
<1>3. /\ GateInv' /\ UNCHANGED commitAlone /\ UNCHANGED <<server, wire>>
      /\ IInv' \/ (i \in Stored /\ MarkAllowed(j, Here) /\ Update(i, k) /\ commit' = next)
  BY <1>1, JournalStepSafe
<1>4. ASSUME i \in Stored, MarkAllowed(j, Here), Update(i, k), commit' = next
      PROVE  IInv'
  <2>1. Sound(j) /\ j \in JournalEntry
    BY <1>4 DEF IInv, JournalInv, Sound
  <2>2. /\ Advances(j, k)
        /\ k.phase = "committing" /\ k.flag["replayBarrier"]
        /\ k.inFlight = Here /\ k.outcome = j.outcome
    BY <1>2, <1>4, <2>1, MarkAdvances
  <2>3. <<i, Here>> \notin Sent /\ i \notin released
    BY <1>1, <1>2, <1>4, NotSentYet, CommitFacts DEF MarkAllowed
  <2>4. /\ commit' \in CommitState /\ commit'.id = i /\ commit'.step = "send"
        /\ commit'.at = commit.at
    BY <1>1, <1>2, <1>4 DEF CommitState, CommitSteps
  <2>5. GoesOn
    BY <1>1, <1>2, <2>4 DEF GoesOn
  <2> HIDE DEF k, next
  <2>6. CommitInv'
    <3>1. Stored' = Stored /\ Entry(i)' = k
      BY <1>4 DEF Update, Stored, Entry, IInv, JournalInv
    <3>2. Here' = Here /\ Sent' = Sent
      BY <1>3, <2>4 DEF Here, Sent
    <3>3. Covered(i, Here)'
      BY <1>4, <2>2, <3>1, <3>2 DEF Covered, Evid
    <3> QED BY <1>2, <2>3, <2>4, <3>2, <3>3 DEF CommitInv, Covered
  <2>7. ASSUME NEW e \in Entries
        PROVE  /\ <<i, e>> \in Sent => k.flag["replayBarrier"] /\ Evid(k, e)
               /\ k.outcome[e] = "committed" => <<i, e>> \in server
               /\ k.outcome[e] \in {"rejected", "skipped"} => <<i, e>> \notin Sent
    <3>1. j.inFlight = Nothing /\ e # Nothing
      BY <1>4, EntryAssumption DEF MarkAllowed
    <3> QED BY <1>4, <2>2, <2>3, <3>1 DEF IInv, EvidenceInv, Covered, Evid
  <2>8. k.phase # "cancelled"
    BY <2>2
  <2> QED BY <1>1, <1>3, <1>4, <2>2, <2>4, <2>5, <2>6, <2>7, <2>8, WriteSafe
<1> QED BY <1>3, <1>4

\* A step of the commit that touches neither the journal nor the server.
LEMMA AdvanceSafe ==
    ASSUME IInv, NEW i \in Imports, commit.id = i, GoesOn, CommitInv', ReplayInv',
           UNCHANGED <<journals, server, wire, maintenance, blocked, active>>,
           UNCHANGED commitAlone
    PROVE  IInv'
<1>1. QuietJournals /\ GateInv'
  BY JournalsAlone, GatesAlone DEF IInv, commitAlone
<1> QED BY <1>1, OnwardSafe

LEMMA DispatchSafe ==
    ASSUME IInv, NEW i \in Imports, Dispatch(i)
    PROVE  IInv'
<1>1. /\ UNCHANGED <<journals, server, wire, maintenance, blocked, active>>
      /\ UNCHANGED commitAlone
      /\ commit.id = i /\ commit.step = "send" /\ To("sending")
  BY DEF Dispatch, worldVars, gateVars, commitElse, sessionVars, commitAlone
<1>2. /\ commit' \in CommitState /\ commit'.id = i /\ commit'.step = "sending" /\ i # NoImport
      /\ commit'.at = commit.at
  BY <1>1, ToState, CommitFacts DEF CommitSteps
<1>3. GoesOn
  BY <1>1, <1>2 DEF GoesOn
<1>4. CommitInv'
  BY <1>1, <1>2 DEF IInv, CommitInv, Covered, Entry, Stored, Sent, Here, commitAlone
<1>5. ReplayInv'
  BY <1>1, <1>2 DEF IInv, ReplayInv, Sent, commitAlone
<1> QED BY <1>1, <1>3, <1>4, <1>5, AdvanceSafe

LEMMA SendSafe ==
    ASSUME IInv, NEW i \in Imports, Send(i)
    PROVE  IInv'
<1>1. /\ UNCHANGED <<journals, server, wire, maintenance, blocked, active>>
      /\ UNCHANGED commitAlone
      /\ commit.id = i /\ commit.step = "sending"
  BY DEF Send, worldVars, gateVars, commitElse, sessionVars, commitAlone
<1>2. commit \in CommitState /\ i # NoImport
  BY <1>1, CommitFacts
<1>3. /\ commit' \in CommitState /\ commit'.id = i /\ commit'.at = commit.at
      /\ \/ commit'.step = "waiting"
         \/ commit'.step = "settle" /\ commit'.status \in {"rejected", "denied"}
  BY <1>1, <1>2 DEF Send, To, CommitState, CommitSteps
<1>4. GoesOn
  BY <1>1, <1>2, <1>3 DEF GoesOn
<1>5. CommitInv'
  BY <1>1, <1>3 DEF IInv, CommitInv, Covered, Entry, Stored, Sent, Here, commitAlone
<1>6. ReplayInv'
  BY <1>1, <1>3 DEF IInv, ReplayInv, Sent, commitAlone
<1> QED BY <1>1, <1>4, <1>5, <1>6, AdvanceSafe

\* The server answers, or the answer is lost.
LEMMA AnswerSafe ==
    ASSUME IInv, NEW i \in Imports, Answer(i)
    PROVE  IInv'
<1>1. /\ UNCHANGED <<journals, maintenance, blocked, active>>
      /\ UNCHANGED commitAlone
      /\ commit.id = i /\ commit.step = "waiting"
  BY DEF Answer, gateVars, commitElse, sessionVars, commitAlone
<1>2. PICK status \in {"committed", "rejected", "unknown"} :
          /\ server' = IF status = "committed" THEN server \cup {<<i, Here>>} ELSE server
          /\ wire' = IF status = "unknown" THEN wire \cup {<<i, Here>>} ELSE wire
          /\ commit' = [commit EXCEPT !.step = "settle", !.status = status]
  BY DEF Answer
<1>3. commit \in CommitState /\ i # NoImport
  BY <1>1, CommitFacts
<1>4. /\ commit' \in CommitState /\ commit'.id = i /\ commit'.at = commit.at
      /\ commit'.step = "settle" /\ commit'.status = status
  BY <1>1, <1>2, <1>3 DEF CommitState, CommitSteps
<1>5. GateInv'
  BY <1>1, GatesAlone DEF IInv, commitAlone
<1>6. QuietJournals
  BY <1>1, JournalsAlone DEF IInv, commitAlone
<1>7. JournalInv' /\ AckInv'
  BY <1>1, <1>6, QuietInOrder, QuietAcks DEF IInv, commitAlone
<1>8. Sent' = IF status = "rejected" THEN Sent ELSE Sent \cup {<<i, Here>>}
  BY <1>2 DEF Sent
<1>9. EvidenceInv'
  <2>1. CASE status = "rejected"
    BY <1>1, <1>2, <1>6, <2>1, QuietEvidence DEF IInv, commitAlone
  <2>2. CASE status # "rejected"
    <3>1. /\ server \subseteq server'
          /\ wire' \subseteq Imports \X Entries /\ server' \subseteq Imports \X Entries
      BY <1>1, <1>2, LateRequest DEF IInv, EvidenceInv
    <3> QED BY <1>1, <1>8, <2>2, <3>1, LateEvidence DEF commitAlone
  <2> QED BY <2>1, <2>2
<1>10. CommitInv'
  <2>1. Here' = Here
    BY <1>4 DEF Here
  <2>2. /\ commit.at \in DOMAIN Plan /\ Covered(i, Here)'
        /\ <<i, Here>> \notin Sent
    BY <1>1, <2>1 DEF IInv, CommitInv, Covered, Entry, Stored, commitAlone
  <2>3. status = "committed" => <<i, Here>> \in server'
    BY <1>2
  <2> QED BY <1>4, <1>8, <2>1, <2>2, <2>3 DEF CommitInv, Covered
<1>11. ReplayInv'
  BY <1>1, <1>4, <1>8 DEF IInv, ReplayInv, commitAlone
<1>12. GoesOn
  BY <1>1, <1>3, <1>4 DEF GoesOn
<1>13. ASSUME NEW n \in Imports, Fresh(n), n # i
       PROVE  Fresh(n)'
  BY <1>1, <1>8, <1>13 DEF Fresh, Stored
<1>14. \A n \in Stored' : /\ journals'[n].account = import[n].account
                          /\ journals'[n].source = import[n].source
  BY <1>1 DEF IInv, LifeInv, Placed, JournalInv, Stored
<1> QED BY <1>1, <1>4, <1>5, <1>7, <1>9, <1>10, <1>11, <1>12, <1>13, <1>14, CommitMoves

LEMMA SettleSafe ==
    ASSUME IInv, NEW i \in Imports, Settle(i)
    PROVE  IInv'
<1> DEFINE j == Entry(i)
           status == IF commit.status = "denied" THEN "rejected" ELSE commit.status
           goesOn == commit.status \in {"committed", "rejected"}
           k == Settled(j, status)
           next == [commit EXCEPT !.step = IF goesOn THEN "mark" ELSE "failed",
                                  !.status = "none",
                                  !.at = IF goesOn THEN @ + 1 ELSE @]
<1>1. /\ commit.id = i /\ commit.step = "settle"
      /\ JournalStep(i, SettleAllowed(j, Here), k, next)
  BY DEF Settle
<1>2. /\ commit.at \in DOMAIN Plan /\ Here \in Entries /\ i # NoImport /\ commit \in CommitState
      /\ i \notin released
      /\ status \in {"committed", "rejected"} \cup Unknown
      /\ status = "committed" => <<i, Here>> \in server
      /\ status = "rejected" => <<i, Here>> \notin Sent
  BY <1>1, CommitFacts, TransferAssumption DEF IInv, CommitInv, CommitState, Unknown, Here
<1>3. /\ GateInv' /\ UNCHANGED commitAlone /\ UNCHANGED <<server, wire>>
      /\ IInv' \/ (i \in Stored /\ SettleAllowed(j, Here) /\ Update(i, k) /\ commit' = next)
  BY <1>1, JournalStepSafe
<1>4. ASSUME i \in Stored, SettleAllowed(j, Here), Update(i, k), commit' = next
      PROVE  IInv'
  <2>1. Sound(j) /\ j \in JournalEntry
    BY <1>4 DEF IInv, JournalInv, Sound
  <2> HIDE DEF status
  <2>2. /\ Advances(j, k)
        /\ k.phase \in {"committing", "reconcile_required"}
        /\ k.flag["replayBarrier"] <=> HasEvidence(k)
        /\ k.inFlight = Nothing /\ k.outcome = [j.outcome EXCEPT ![Here] = status]
    BY <1>2, <1>4, <2>1, SettleAdvances
  <2>3. /\ commit' \in CommitState /\ commit'.id = i /\ commit'.step \in {"mark", "failed"}
    <3>1. commit' = [id |-> i, step |-> IF goesOn THEN "mark" ELSE "failed",
                     at |-> IF goesOn THEN commit.at + 1 ELSE commit.at,
                     status |-> "none", reconcile |-> commit.reconcile]
      BY <1>1, <1>2, <1>4 DEF CommitState
    <3> QED BY <1>2, <3>1 DEF CommitState, CommitSteps
  <2>4. CommitInv' /\ GoesOn
    BY <1>1, <1>2, <2>3 DEF CommitInv, GoesOn
  <2>5. ASSUME NEW e \in Entries
        PROVE  /\ <<i, e>> \in Sent => k.flag["replayBarrier"] /\ Evid(k, e)
               /\ k.outcome[e] = "committed" => <<i, e>> \in server
               /\ k.outcome[e] \in {"rejected", "skipped"} => <<i, e>> \notin Sent
    <3>1. k.outcome[e] = IF e = Here THEN status ELSE j.outcome[e]
      BY <2>1, <2>2 DEF JournalEntry
    <3> HIDE DEF k
    <3>2. k.outcome[e] \in {"committed"} \cup Unknown => HasEvidence(k)
      BY DEF HasEvidence
    <3>3. CASE e = Here
      BY <1>2, <2>2, <3>1, <3>2, <3>3 DEF Evid, Unknown
    <3>4. CASE e # Here
      <4>1. j.inFlight # e
        BY <1>4, <3>4 DEF SettleAllowed
      <4> QED BY <1>2, <1>4, <2>2, <3>1, <3>2, <3>4, <4>1 DEF IInv, EvidenceInv, Covered, Evid
    <3> QED BY <3>3, <3>4
  <2> HIDE DEF k, next
  <2>6. k.phase # "cancelled"
    BY <2>2
  <2> QED BY <1>1, <1>3, <1>4, <2>2, <2>3, <2>4, <2>5, <2>6, WriteSafe
<1> HIDE DEF k, next, status
<1> QED BY <1>3, <1>4

-----------------------------------------------------------------------------
(* The end of the commit.                                                  *)

LEMMA AllSentSafe ==
    ASSUME IInv, NEW i \in Imports, AllSent(i) \/ Synced(i)
    PROVE  IInv'
<1>1. /\ UNCHANGED <<journals, server, wire, maintenance, blocked, active>>
      /\ UNCHANGED commitAlone
      /\ commit.id = i /\ (To("sync") \/ To("audit"))
  BY DEF AllSent, Synced, worldVars, gateVars, commitElse, sessionVars, commitAlone
<1>2. /\ commit' \in CommitState /\ commit'.id = i /\ commit'.step \in {"sync", "audit"}
      /\ i # NoImport
  BY <1>1, ToState, CommitFacts DEF CommitSteps
<1>3. GoesOn /\ CommitInv' /\ ReplayInv'
  BY <1>1, <1>2 DEF GoesOn, CommitInv, ReplayInv
<1> QED BY <1>1, <1>3, AdvanceSafe

LEMMA AuditSafe ==
    ASSUME IInv, NEW i \in Imports, Audit(i)
    PROVE  IInv'
<1>1. /\ UNCHANGED <<journals, server, wire, maintenance, blocked, active>>
      /\ UNCHANGED commitAlone
      /\ commit.id = i
  BY DEF Audit, worldVars, gateVars, commitElse, sessionVars, commitAlone
<1>2. CASE To("failed")
  <2>1. QuietJournals /\ GateInv'
    BY <1>1, JournalsAlone, GatesAlone DEF IInv, commitAlone
  <2> QED BY <1>1, <1>2, <2>1, FailedSafe
<1>3. CASE /\ i \in Stored
           /\ Entry(i).inFlight = Nothing
           /\ ~HasUnknown(Entry(i))
           /\ \A e \in Entries : Answered(Entry(i), e)
           /\ commit' = [commit EXCEPT !.step = "complete", !.reconcile = Owing(Entry(i))]
  <2>1. commit \in CommitState /\ i # NoImport
    BY <1>1, CommitFacts
  <2>2. Owing(Entry(i)) \in BOOLEAN
    BY DEF Owing, Partial
  <2>3. /\ commit' \in CommitState /\ commit'.id = i /\ commit'.step = "complete"
        /\ commit'.reconcile = Owing(Entry(i))
    BY <1>1, <1>3, <2>1, <2>2 DEF CommitState, CommitSteps
  <2>4. GoesOn /\ ReplayInv'
    BY <1>1, <2>1, <2>3 DEF GoesOn, ReplayInv
  <2>5. \A e \in Entries : Entry(i).outcome[e] \in {"committed", "rejected", "skipped"}
    BY <1>3 DEF IInv, JournalInv, Sound, JournalEntry, Statuses, HasUnknown, Answered
  <2>6. Owing(Entry(i)) => HasEvidence(Entry(i))
    BY DEF Owing, HasEvidence
  <2>7. Stored' = Stored /\ Entry(i)' = Entry(i)
    BY <1>1 DEF Stored, Entry
  <2>8. CommitInv'
    BY <1>3, <2>3, <2>5, <2>6, <2>7 DEF CommitInv, Entry
  <2> QED BY <1>1, <2>4, <2>8, AdvanceSafe
<1> QED BY <1>2, <1>3 DEF Audit

\* From the last write on the import is finalizing.
LEMMA CompleteSafe ==
    ASSUME IInv, NEW i \in Imports, Complete(i)
    PROVE  IInv'
<1>1. /\ UNCHANGED <<server, wire, live, acks, completed, maintenance, blocked, active>>
      /\ UNCHANGED <<owner, epoch, inspecting, cleanup, cancelling, acking, reconcile, barrierOp,
                     released>>
      /\ commit.id = i /\ commit.step = "complete"
      /\ live = i /\ import[i].phase = "committing"
      /\ import' = [import EXCEPT ![i].phase = "finalizing"]
  BY DEF Complete, CommitCurrent, Active, worldVars, gateVars, commitElse, sessionVars
<1>2. /\ import' \in [Imports -> ImportState]
      /\ import'[i].phase = "finalizing" /\ import'[i].begun = import[i].begun
      /\ SameIdentity(i)
      /\ \A n \in Imports \ {i} : import'[n] = import[n]
  BY <1>1, MovedFields DEF IInv, ImportPhases
<1>3. /\ i # NoImport /\ import[i].account \in Accounts /\ import[i].phase # "none"
      /\ commit \in CommitState
  BY <1>1, CommitFacts
<1>4. GateInv'
  BY <1>1, GatesAlone DEF IInv
<1>5. ASSUME QuietJournals, commit' \in CommitState, commit'.id = i,
             commit'.step \in {"failed", "finalized"}, CommitInv'
      PROVE  IInv'
  <2>1. MemoryInv'
    <3>1. ASSUME NEW n \in Imports
          PROVE  Known(n)'
      BY <1>1, <1>2, <1>3, <1>5 DEF IInv, MemoryInv, Known, Engaged, SameIdentity
    <3> QED BY <1>1, <1>2, <1>3, <1>5, <3>1 DEF IInv, MemoryInv, Known
  <2>2. LifeInv'
    <3>1. ASSUME NEW n \in Imports
          PROVE  /\ Retired(n) => Retired(n)'
                 /\ n # i => import'[n].phase = import[n].phase
                 /\ SameIdentity(n)
      BY <1>1, <1>2, <1>5 DEF Retired, SameIdentity
    <3>2. /\ released \subseteq Imports /\ acks \subseteq Imports /\ cancelling \subseteq Imports
          /\ acking \in Imports \cup {NoImport} /\ live \in Imports \cup {NoImport}
          /\ barrierOp.step = "clear" => barrierOp.target \in Imports
      BY DEF IInv, GateInv, MemoryInv, Known
    <3>3. ASSUME NEW n \in Imports
          PROVE  /\ Fresh(n) => Fresh(n)'
                 /\ n \in Stored' => /\ journals'[n].account = import[n].account
                                     /\ journals'[n].source = import[n].source
      BY <1>1, <1>5, QuietFresh DEF IInv, LifeInv, Placed
    <3>4. ASSUME NEW n \in Imports
          PROVE  Placed(n)'
      BY <1>1, <1>2, <1>5, <3>1, <3>3 DEF IInv, LifeInv, Placed, SameIdentity
    <3>5. \A n \in cancelling : commit'.id = n \/ import'[n].phase = "over"
      BY <1>1, <1>5, <3>1, <3>2 DEF IInv, LifeInv, Placed
    <3>6. /\ \A n \in acks \cup released \cup ({acking} \ {NoImport}) : Retired(n)'
          /\ barrierOp.step = "clear" => Retired(barrierOp.target)'
      BY <1>1, <3>1, <3>2 DEF IInv, LifeInv, Placed
    <3> QED BY <1>1, <1>2, <1>5, <3>4, <3>5, <3>6 DEF LifeInv, Placed
  <2>3. JournalInv' /\ EvidenceInv' /\ AckInv'
    BY <1>1, <1>5, QuietInOrder, QuietEvidence, QuietAcks DEF IInv
  <2>4. ReplayInv'
    BY <1>5 DEF ReplayInv
  <2> QED BY <1>4, <1>5, <2>1, <2>2, <2>3, <2>4 DEF IInv
<1>6. CASE To("failed") /\ journals' = journals
  <2>1. /\ commit' \in CommitState /\ commit'.id = i /\ commit'.step = "failed"
    BY <1>1, <1>6, ToState DEF CommitSteps
  <2>2. CommitInv'
    BY <2>1 DEF CommitInv
  <2>3. QuietJournals
    BY <1>1, <1>6, JournalsAlone DEF IInv
  <2> QED BY <1>5, <2>1, <2>2, <2>3
<1>7. CASE /\ i \in Stored /\ CompleteAllowed(Entry(i), commit.reconcile)
           /\ Update(i, Completed(Entry(i), commit.reconcile))
           /\ To("finalized")
  <2> DEFINE j == Entry(i)
             k == Completed(j, commit.reconcile)
  <2>1. /\ commit' \in CommitState /\ commit'.id = i /\ commit'.step = "finalized"
    BY <1>1, <1>7, ToState DEF CommitSteps
  <2>2. Sound(j) /\ commit.reconcile \in BOOLEAN
    BY <1>3, <1>7 DEF IInv, JournalInv, CommitState
  <2>3. /\ Quiet(j, k)
        /\ k.flag["replayBarrier"] = j.flag["replayBarrier"]
        /\ k.inFlight = Nothing
        /\ k.outcome = j.outcome
        /\ commit.reconcile /\ HasEvidence(j) => Over(k)
        /\ ~commit.reconcile => Over(k)
    BY <1>7, <2>2, CompleteQuiet
  <2> HIDE DEF k
  <2>4. QuietJournals
    BY <1>1, <1>7, <2>3, JournalsUpdated DEF IInv, k
  <2>5. Stored' = Stored /\ Entry(i)' = k
    BY <1>7 DEF Update, Stored, Entry, IInv, JournalInv, k
  <2>6. Over(k) /\ \A e \in Entries : k.outcome[e] \in {"committed", "rejected", "skipped"}
    BY <1>1, <1>7, <2>2, <2>3 DEF IInv, CommitInv
  <2>7. CommitInv'
    BY <1>7, <2>1, <2>3, <2>5, <2>6 DEF CommitInv, Entry
  <2> QED BY <1>5, <2>1, <2>4, <2>7
<1> QED BY <1>1, <1>6, <1>7 DEF Complete

\* The commit is over, and its import with it.
LEMMA CommitEnds ==
    ASSUME IInv, GateInv', QuietJournals, NEW i \in Imports, commit.id = i, Dropped(i),
           commit' = NoCommit, EvidenceInv', AckInv',
           UNCHANGED <<server, wire, owner, inspecting, cleanup, cancelling, acking, barrierOp,
                       released>>,
           acks' \subseteq acks \cup {i}
    PROVE  IInv'
<1>1. /\ commit' \in CommitState /\ commit'.id = NoImport /\ commit'.step = "idle"
  BY DEF NoCommit, CommitState, CommitSteps
<1>2. \A n \in Imports : n # NoImport
  BY DEF NoImport, Imports
<1>3. /\ import' \in [Imports -> ImportState]
      /\ import'[i].phase = "over" /\ ~import'[i].begun
      /\ SameIdentity(i)
      /\ \A n \in Imports \ {i} : import'[n] = import[n]
  BY SpentFields DEF IInv, MemoryInv, Known, SameIdentity, Dropped
<1>4. /\ live' \in {live, NoImport} /\ live' # i
      /\ \A n \in Imports \ {i} : n = live => n = live'
  BY <1>2 DEF Dropped, Destroyed
<1>5. MemoryInv'
  <2>1. ASSUME NEW n \in Imports
        PROVE  Known(n)'
    <3>1. Engaged(n)' => Engaged(n)
      BY <1>1, <1>2, <1>3 DEF Engaged
    <3>2. import[n].phase # "none" => import[n].source \in Sources
      BY DEF IInv, MemoryInv, Known
    <3>3. Engaged(i)
      BY DEF Engaged
    <3> QED BY <1>3, <3>1, <3>2, <3>3 DEF IInv, MemoryInv, Known, SameIdentity
  <2> QED BY <1>1, <1>3, <1>4, <2>1 DEF IInv, MemoryInv, Known
<1>6. LifeInv'
  <2>1. ASSUME NEW n \in Imports, Retired(n)
        PROVE  Retired(n)'
    BY <1>1, <1>2, <1>3, <2>1 DEF Retired
  <2>2. Retired(i)'
    BY <1>1, <1>2, <1>3 DEF Retired
  <2>3. /\ released \subseteq Imports /\ acks \subseteq Imports /\ cancelling \subseteq Imports
        /\ acking \in Imports \cup {NoImport} /\ live \in Imports \cup {NoImport}
        /\ barrierOp.step = "clear" => barrierOp.target \in Imports
    BY DEF IInv, GateInv, MemoryInv, Known
  <2>4. ASSUME NEW n \in Imports
        PROVE  /\ Fresh(n) => Fresh(n)'
               /\ n \in Stored' => /\ journals'[n].account = import[n].account
                                   /\ journals'[n].source = import[n].source
    BY QuietFresh DEF IInv, LifeInv, Placed
  <2>5. ASSUME NEW n \in Imports
        PROVE  Placed(n)'
    BY <1>1, <1>2, <1>3, <1>4, <2>4 DEF IInv, LifeInv, Placed, SameIdentity
  <2>6. \A n \in cancelling : import'[n].phase = "over"
    BY <1>3, <2>3 DEF IInv, LifeInv, Placed
  <2>7. /\ \A n \in acks' \cup released \cup ({acking} \ {NoImport}) : Retired(n)'
        /\ barrierOp.step = "clear" => Retired(barrierOp.target)'
    BY <2>1, <2>2, <2>3 DEF IInv, LifeInv, Placed
  <2>8. live' # NoImport => import'[live'].phase \notin {"none", "over"}
    BY <1>3, <1>4, <2>3 DEF IInv, LifeInv, Placed
  <2> QED BY <1>1, <2>5, <2>6, <2>7, <2>8 DEF LifeInv, Placed
<1>7. JournalInv' /\ CommitInv' /\ ReplayInv'
  BY <1>1, QuietInOrder DEF IInv, CommitInv, ReplayInv
<1> QED BY <1>5, <1>6, <1>7 DEF IInv

LEMMA FinalizedSafe ==
    ASSUME IInv, NEW i \in Imports, Finalized(i)
    PROVE  IInv'
<1>1. /\ UNCHANGED <<journals, server, wire, owner, epoch, maintenance, active, inspecting,
                     cleanup, cancelling, acking, reconcile, barrierOp, released>>
      /\ commit.id = i /\ commit.step = "finalized" /\ Dropped(i) /\ commit' = NoCommit
      /\ acks' \subseteq acks \cup {i}
      /\ blocked' \subseteq blocked \cup {import[i].account}
      /\ completed' = IF Partial(Entry(i)) THEN completed ELSE completed \cup {i}
  BY DEF Finalized, worldVars, commitElse, sessionVars
<1>2. QuietJournals
  BY <1>1, JournalsAlone DEF IInv
<1>3. GateInv'
  BY <1>1, CommitFacts DEF IInv, GateInv
<1>4. /\ i \in Stored /\ Over(Entry(i))
      /\ \A e \in Entries : Entry(i).outcome[e] \in {"committed", "rejected", "skipped"}
  BY <1>1 DEF IInv, CommitInv
<1>5. EvidenceInv'
  <2>1. ASSUME ~Partial(Entry(i)), NEW e \in Entries
        PROVE  <<i, e>> \in server
    BY <1>4, <2>1 DEF Partial, IInv, EvidenceInv
  <2>2. \A n \in completed' : \A e \in Entries : <<n, e>> \in server
    BY <1>1, <2>1 DEF IInv, EvidenceInv
  <2> QED BY <1>1, <2>2 DEF IInv, EvidenceInv, Covered, Stored, Entry, Sent
<1>6. AckInv'
  BY <1>1, <1>4 DEF IInv, AckInv, Stored, Entry
<1> QED BY <1>1, <1>2, <1>3, <1>5, <1>6, CommitEnds

LEMMA CommitFailsSafe ==
    ASSUME IInv, NEW i \in Imports, CommitFails(i)
    PROVE  IInv'
<1> DEFINE entry == Cancelled(Entry(i))
<1>1. /\ UNCHANGED <<server, wire, owner, epoch, maintenance, active, inspecting, completed,
                     cleanup, cancelling, acking, reconcile, barrierOp, released>>
      /\ commit.id = i /\ Dropped(i) /\ commit' = NoCommit
      /\ blocked' \subseteq blocked \cup {import[i].account}
      /\ \/ /\ i \in Stored /\ Update(i, entry)
            /\ acks' = acks \/ (acks' = acks \cup {i} /\ entry.flag["requiresReconcile"])
         \/ UNCHANGED <<journals, acks>>
  BY DEF CommitFails, worldVars, commitElse, sessionVars
<1>2. GateInv'
  BY <1>1, CommitFacts DEF IInv, GateInv
<1>3. CASE UNCHANGED <<journals, acks>>
  <2>1. QuietJournals
    BY <1>1, <1>3, JournalsAlone DEF IInv
  <2>2. EvidenceInv' /\ AckInv'
    BY <1>1, <1>3, <2>1, QuietEvidence, QuietAcks DEF IInv
  <2> QED BY <1>1, <1>2, <1>3, <2>1, <2>2, CommitEnds
<1>4. CASE /\ i \in Stored /\ Update(i, entry)
           /\ acks' = acks \/ (acks' = acks \cup {i} /\ entry.flag["requiresReconcile"])
  <2>1. /\ Quiet(Entry(i), entry)
        /\ Entry(i).flag["replayBarrier"] => entry.flag["replayBarrier"]
        /\ entry.flag["requiresReconcile"] => HasEvidence(entry)
    BY <1>4, CancelQuiet DEF IInv, JournalInv
  <2> HIDE DEF entry
  <2>2. QuietJournals
    BY <1>1, <1>4, <2>1, JournalsUpdated DEF IInv
  <2>3. EvidenceInv'
    BY <1>1, <2>2, QuietEvidence DEF IInv
  <2>4. Entry(i)' = entry
    <3>1. entry \in JournalEntry
      BY <2>1 DEF Quiet, Advances, Sound
    <3> QED BY <1>4, <3>1 DEF Update, Stored, Entry, IInv, JournalInv
  <2>5. ASSUME NEW n \in acks \cup {acking}, n \in Stored'
        PROVE  Over(Entry(n)')
    <3>1. n \in Stored /\ Over(Entry(n)) /\ Quiet(Entry(n), Entry(n)')
      BY <2>2, <2>5 DEF QuietJournals, IInv, AckInv
    <3> QED BY <3>1 DEF Quiet, Advances
  <2>6. AckInv'
    BY <1>1, <1>4, <2>1, <2>4, <2>5 DEF AckInv, Over
  <2>7. acks' \subseteq acks \cup {i}
    BY <1>4
  <2> QED BY <1>1, <1>2, <2>2, <2>3, <2>6, <2>7, CommitEnds
<1> HIDE DEF entry
<1> QED BY <1>1, <1>3, <1>4

-----------------------------------------------------------------------------
(* The invariant.                                                          *)

LEMMA InitIInv == Init => IInv
<1> SUFFICES ASSUME Init PROVE IInv
  OBVIOUS
<1> USE DEF Init, MemoryInit
<1>1. Stored = {} /\ Sent = {}
  BY DEF Stored, Sent
<1>2. Cardinality({}) = 0 /\ MaxJournals \in Nat
  BY FS_EmptySet, TransferAssumption
<1>3. JournalInv
  BY <1>1, <1>2 DEF JournalInv
<1>4. /\ commit \in CommitState /\ commit.id = NoImport /\ commit.step = "idle"
      /\ barrierOp \in BarrierState /\ barrierOp.step = "idle"
      /\ reconcile.step = "idle"
      /\ reconcile = [step |-> reconcile.step, account |-> reconcile.account,
                      epoch |-> reconcile.epoch, forced |-> reconcile.forced,
                      todo |-> reconcile.todo]
      /\ \A n \in Imports : n # NoImport
  BY DEF NoCommit, CommitState, CommitSteps, NoBarrierOp, BarrierState, NoReconcile, NoImport,
         Imports
<1>5. /\ import \in [Imports -> ImportState]
      /\ \A n \in Imports : import[n].phase = "none" /\ ~import[n].begun
  BY DEF NewImport, ImportState, ImportPhases
<1>6. MemoryInv
  BY <1>4, <1>5 DEF MemoryInv, Known, Engaged
<1>7. GateInv
  BY <1>4, TransferAssumption DEF GateInv
<1>8. LifeInv
  BY <1>1, <1>4, <1>5 DEF LifeInv, Placed, Fresh
<1>9. EvidenceInv
  BY <1>1 DEF EvidenceInv
<1>10. CommitInv /\ AckInv /\ ReplayInv
  BY <1>1, <1>4 DEF CommitInv, AckInv, ReplayInv
<1> QED BY <1>3, <1>6, <1>7, <1>8, <1>9, <1>10 DEF IInv

LEMMA CommitStepSafe ==
    ASSUME IInv, NEW i \in Imports, CommitStep(i)
    PROVE  IInv'
BY CommitStopsSafe, CommitInspectsSafe, CommitInspectedSafe, CommitBeginsSafe, CommitBegunSafe,
   SkipSafe, MarkSafe, DispatchSafe, SendSafe, AnswerSafe, SettleSafe, AllSentSafe, AuditSafe,
   CompleteSafe, FinalizedSafe, CommitFailsSafe
   DEF CommitStep

LEMMA NextIInv == IInv /\ [Next]_vars => IInv'
<1> SUFFICES ASSUME IInv, [Next]_vars PROVE IInv'
  OBVIOUS
<1>1. ASSUME NEW i \in Imports, UserStep(i)
      PROVE  IInv'
  BY <1>1, BeginImportSafe, SealAndInspectSafe, StartCommitSafe, CancelImportSafe, AckResultSafe
     DEF UserStep
<1>2. ASSUME NEW i \in Imports, InspectStep(i)
      PROVE  IInv'
  BY <1>2, InspectFailsSafe, InspectJournalSafe, InspectReturnsSafe DEF InspectStep
<1>3. ASSUME NEW i \in Imports, CommitStep(i) \/ CancelReturns(i)
      PROVE  IInv'
  BY <1>3, CommitStepSafe, CancelReturnsSafe
<1>4. CASE AckReturns \/ TransitionStart \/ CleanupStep \/ (\E a \in Accounts : TransitionSettles(a))
  BY <1>4, AckReturnsSafe, TransitionStartSafe, CleanupReturnsSafe, TransitionSettlesSafe
     DEF CleanupStep
<1>5. CASE ManualSync \/ ReconcileStep \/ StartupStep \/ BarrierStep \/ Crash
  BY <1>5, ManualSyncSafe, ReconcileSafe, StartupSafe, BarrierStepSafe, CrashSafe
<1>6. CASE \E i \in Imports \cup {NoImport} : BarrierBegins(i)
  BY <1>6, BarrierBeginsSafe
<1>7. CASE UNCHANGED vars
  <2>1. QuietJournals /\ GateInv'
    BY <1>7, JournalsAlone, GatesAlone DEF IInv, vars
  <2>2. live # NoImport => owner # None
    BY DEF IInv, MemoryInv, Known
  <2> QED BY <1>7, <2>1, <2>2, StillerSafe DEF vars
<1> QED BY <1>1, <1>2, <1>3, <1>4, <1>5, <1>6, <1>7 DEF Next

\* The state of imports is always in order: the journal readable, every request
\* covered by it, every import where it belongs.
THEOREM TransferInvariant == Spec => []IInv
BY InitIInv, NextIInv, PTL DEF Spec

-----------------------------------------------------------------------------
(* What follows from it.                                                   *)

\* The reader of the journal accepts whatever the operations leave behind, in
\* any order, through failed writes and stops of the worker.
THEOREM JournalStaysReadable == Spec => []JournalReadable
<1>1. IInv => JournalReadable
  BY DEF IInv, JournalInv, MemoryInv, Known, GateInv, LifeInv, Placed, EvidenceInv, JournalReadable, TypeOK,
         CommitState, Sound
<1> QED BY <1>1, TransferInvariant, PTL

\* A write that reached the server, or may still do so, stays on record with
\* its barrier up until its file is released.
THEOREM EvidenceStays == Spec => []EvidenceKept
<1>1. IInv => EvidenceKept
  <2> SUFFICES ASSUME IInv, NEW r \in MaySent, r[1] \notin released
               PROVE  /\ r[1] \in Stored
                      /\ Entry(r[1]).flag["replayBarrier"]
                      /\ \/ Entry(r[1]).inFlight = r[2]
                         \/ Entry(r[1]).outcome[r[2]] \in {"committed"} \cup Unknown
    BY DEF EvidenceKept
  <2>1. Covered(r[1], r[2])
    <3>1. CASE r \in Sent
      <4>1. PICK n \in Imports, e \in Entries : r = <<n, e>>
        BY <3>1 DEF IInv, EvidenceInv, Sent
      <4> QED BY <3>1, <4>1 DEF IInv, EvidenceInv
    <3>2. CASE commit.step \in {"sending", "waiting"} /\ r = <<commit.id, Here>>
      BY <3>2, LateRequest
    <3> QED BY <3>1, <3>2 DEF MaySent, Sent
  <2> QED BY <2>1 DEF Covered, Evid
<1> QED BY <1>1, TransferInvariant, PTL

\* What the journal calls committed is on the server; what it calls refused or
\* skipped is not, and never will be; a user who was told that an import is
\* complete has all of it.
THEOREM OutcomesStayTrue == Spec => []OutcomesAreTrue
<1>1. IInv => OutcomesAreTrue
  <2> SUFFICES ASSUME IInv
               PROVE  OutcomesAreTrue
    OBVIOUS
  <2>1. ASSUME NEW i \in Stored, NEW e \in Entries
        PROVE  /\ Entry(i).outcome[e] = "committed" => <<i, e>> \in server
               /\ Entry(i).outcome[e] \in {"rejected", "skipped"} => <<i, e>> \notin MaySent
               /\ Entry(i).phase = "cancelled" => <<i, e>> \notin MaySent
    <3>1. /\ Entry(i).outcome[e] = "committed" => <<i, e>> \in server
          /\ Entry(i).outcome[e] \in {"rejected", "skipped"} => <<i, e>> \notin Sent
          /\ Entry(i).phase = "cancelled" => <<i, e>> \notin Sent
      BY DEF IInv, EvidenceInv
    <3>2. CASE <<i, e>> \in Sent \/ <<i, e>> \notin MaySent
      BY <3>1, <3>2 DEF MaySent, Sent
    <3>3. CASE commit.step \in {"sending", "waiting"} /\ i = commit.id /\ e = Here
      BY <3>1, <3>3, LateRequest
    <3> QED BY <3>2, <3>3 DEF MaySent, Sent
  <2>2. \A i \in completed : \A e \in Entries : <<i, e>> \in server
    BY DEF IInv, EvidenceInv
  <2> QED BY <2>1, <2>2 DEF OutcomesAreTrue
<1> QED BY <1>1, TransferInvariant, PTL

\* No entry of a file is sent for an account on whose server it may already be,
\* unless the earlier import was released.
THEOREM NothingSentTwice == Spec => NoSilentDuplicate
<1>1. IInv => SendsOnce
  <2> SUFFICES ASSUME IInv, NEW k \in Imports, NEW e \in Entries,
                      commit.step = "sending", k # commit.id, <<k, e>> \in MaySent,
                      import[k].account = import[commit.id].account,
                      import[k].source = import[commit.id].source
               PROVE  k \in released
    BY DEF SendsOnce
  <2>1. <<k, e>> \in Sent
    BY DEF MaySent, Sent
  <2> QED BY <2>1 DEF IInv, ReplayInv
<1>2. IInv /\ [Next]_vars => [SendsOnce]_vars
  BY <1>1
<1> QED BY <1>2, TransferInvariant, PTL DEF Spec, NoSilentDuplicate

\* Whatever closed the controller is still under way.
LEMMA NextHeld == IInv /\ MaintenanceIsHeld /\ [Next]_vars => MaintenanceIsHeld'
<1> SUFFICES ASSUME IInv, MaintenanceIsHeld, [Next]_vars PROVE MaintenanceIsHeld'
  OBVIOUS
<1> USE DEF MaintenanceIsHeld
<1>1. CASE UNCHANGED <<maintenance, epoch, cleanup, reconcile, barrierOp, ready>>
  BY <1>1
<1>2. CASE TransitionStart
  <2>1. CASE live # NoImport /\ import[live].begun
    <3>1. live \in Imports /\ <<epoch', live>> \in cleanup'
      BY <1>2, <2>1 DEF TransitionStart, IInv, MemoryInv, Known
    <3> QED BY <1>2, <3>1 DEF TransitionStart
  <2>2. CASE ~(live # NoImport /\ import[live].begun)
    BY <1>2, <2>2 DEF TransitionStart
  <2> QED BY <2>1, <2>2
<1>3. ASSUME NEW c \in cleanup, CleanupReturns(c[1], c[2])
      PROVE  MaintenanceIsHeld'
  <2>1. /\ UNCHANGED <<epoch, reconcile, barrierOp, ready>>
        /\ cleanup' = cleanup \ {<<c[1], c[2]>>}
    BY <1>3 DEF CleanupReturns, sessionVars
  <2>2. CASE epoch = c[1]
    BY <1>3, <2>1, <2>2 DEF CleanupReturns, LeaveMaintenance
  <2>3. CASE epoch # c[1]
    <3>1. maintenance' = maintenance
      BY <1>3, <2>3 DEF CleanupReturns
    <3>2. ASSUME NEW i \in Imports, <<epoch, i>> \in cleanup
          PROVE  <<epoch', i>> \in cleanup'
      BY <2>1, <2>3, <3>2
    <3> QED BY <2>1, <3>1, <3>2
  <2> QED BY <2>2, <2>3
<1>4. CASE ReconcileStep
  <2>1. UNCHANGED <<epoch, cleanup, barrierOp, ready>>
    BY <1>4 DEF ReconcileStep, ReconcileBegins, ReconcileInspects, ReconcileSyncs,
                ReconcileAcknowledges, ReconcileReturns, reconcileElse, sessionVars
  <2>2. \/ maintenance' = "none"
        \/ maintenance' = maintenance /\ maintenance # "reconcile"
        \/ maintenance' = maintenance /\ reconcile' = reconcile
        \/ maintenance' \in {maintenance, "reconcile"} /\ reconcile'.step # "idle"
    <3>1. CASE ReconcileBegins
      BY <3>1 DEF ReconcileBegins, NoReconcile
    <3>2. CASE ReconcileEnds
      BY <3>2 DEF ReconcileEnds, LeaveMaintenance
    <3>4. CASE ReconcileInspects
      <4>1. [reconcile EXCEPT !.step = "sync", !.forced = FALSE,
                              !.todo = ToReview(journals')].step = "sync"
        BY DEF IInv, GateInv
      <4>2. \/ ReconcileEnds
            \/ /\ maintenance' = maintenance
               /\ reconcile' = [reconcile EXCEPT !.step = "sync", !.forced = FALSE,
                                                 !.todo = ToReview(journals')]
        BY <3>4 DEF ReconcileInspects, ReconcileFails
      <4> QED BY <3>2, <4>1, <4>2
    <3>5. CASE ReconcileSyncs
      BY <3>2, <3>5 DEF ReconcileSyncs, ReconcileFails, IInv, GateInv
    <3>6. ASSUME NEW i \in Imports, ReconcileAcknowledges(i)
          PROVE  <2>2!:
      BY <3>2, <3>6 DEF ReconcileAcknowledges, ReconcileFails, IInv, GateInv
    <3>7. CASE ReconcileReturns
      BY <3>2, <3>7 DEF ReconcileReturns, ReconcileFails
    <3> QED BY <1>4, <3>1, <3>4, <3>5, <3>6, <3>7 DEF ReconcileStep
  <2> QED BY <2>1, <2>2
<1>5. CASE StartupStep
  <2>1. UNCHANGED <<epoch, cleanup, barrierOp, reconcile>>
    BY <1>5 DEF StartupStep, StartupBegins, StartupReturns, StartupDone, startElse, sessionVars
  <2>2. \/ maintenance' = maintenance /\ maintenance # "startup"
        \/ maintenance' = "startup" /\ ready'.step = "inspecting"
        \/ maintenance' = "none"
    BY <1>5 DEF StartupStep, StartupBegins, StartupReturns, StartupDone, EnterMaintenance,
                MaintenanceFree, LeaveMaintenance
  <2> QED BY <2>1, <2>2
<1>6. CASE BarrierStep \/ \E i \in Imports \cup {NoImport} : BarrierBegins(i)
  <2>1. UNCHANGED <<epoch, cleanup, reconcile, ready>>
    BY <1>6 DEF BarrierStep, BarrierBegins, BarrierClears, BarrierReturns, barrierElse, sessionVars
  <2>2. \/ maintenance' = "none"
        \/ maintenance' = maintenance /\ maintenance # "barrier"
        \/ maintenance' \in {maintenance, "barrier"} /\ barrierOp'.step # "idle"
    <3>1. ASSUME NEW i \in Imports \cup {NoImport}, BarrierBegins(i)
          PROVE  <2>2!:
      BY <3>1 DEF BarrierBegins, EnterMaintenance
    <3>2. CASE BarrierEnds
      BY <3>2 DEF BarrierEnds, LeaveMaintenance
    <3>3. CASE BarrierClears
      <4>1. [barrierOp EXCEPT !.step = "inspect"].step = "inspect"
        BY DEF IInv, GateInv, BarrierState
      <4> QED BY <3>2, <3>3, <4>1 DEF BarrierClears, BarrierFails
    <3>4. CASE BarrierReturns
      BY <3>2, <3>4 DEF BarrierReturns, BarrierFails
    <3> QED BY <1>6, <3>1, <3>3, <3>4 DEF BarrierStep
  <2> QED BY <2>1, <2>2
<1>7. CASE Crash
  BY <1>7 DEF Crash, MemoryReset
<1>8. ASSUME NEW i \in Imports, UserStep(i) \/ InspectStep(i) \/ CancelReturns(i)
      PROVE  UNCHANGED <<maintenance, epoch, cleanup, reconcile, barrierOp, ready>>
  BY <1>8 DEF UserStep, InspectStep, BeginImport, SealAndInspect, StartCommit, CancelImport, AckResult,
              InspectFails, InspectJournal, InspectReturns, CancelReturns, sessionVars, gateVars,
              taskVars, commitElse
<1>9. ASSUME NEW i \in Imports, CommitStep(i)
      PROVE  UNCHANGED <<maintenance, epoch, cleanup, reconcile, barrierOp, ready>>
  BY <1>9 DEF CommitStep, CommitStops, CommitInspects, CommitInspected, CommitBegins, CommitBegun,
              Skip, Mark, Dispatch, Send, Answer, Settle, AllSent, Synced, Audit, Complete,
              Finalized, CommitFails, JournalStep, sessionVars, gateVars, commitElse
<1>10. ASSUME AckReturns \/ ManualSync \/ (\E a \in Accounts : TransitionSettles(a))
       PROVE  /\ UNCHANGED <<maintenance, cleanup, reconcile, barrierOp, ready, epoch>>
  BY <1>10 DEF AckReturns, ManualSync, TransitionSettles, sessionVars, gateVars
<1>11. ASSUME CleanupStep
       PROVE  MaintenanceIsHeld'
  BY <1>3, <1>11 DEF CleanupStep
<1>12. CASE UNCHANGED vars
  BY <1>1, <1>12 DEF vars
<1> HIDE DEF MaintenanceIsHeld
<1> QED BY <1>1, <1>2, <1>4, <1>5, <1>6, <1>7, <1>8, <1>9, <1>10, <1>11, <1>12 DEF Next

\* No revocation, reconciliation or failure leaves a maintenance behind that
\* nobody ends.
THEOREM MaintenanceStaysHeld == Spec => []MaintenanceIsHeld
<1>1. Init => MaintenanceIsHeld
  BY DEF Init, MemoryInit, MaintenanceIsHeld
<1> QED BY <1>1, NextHeld, TransferInvariant, PTL DEF Spec
=============================================================================
