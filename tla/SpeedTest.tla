----------------------------- MODULE SpeedTest -----------------------------
(***************************************************************************)
(* Combined speed tests (apps/speed_test): submit_speed_test creates a     *)
(* PageSpeed and a GTmetrix report in one transaction, and combined_status *)
(* rolls the two up whenever somebody reads the test.  The reports move as *)
(* ReportLife allows, which AnalysisTask and GTmetrixTask implement.       *)
(***************************************************************************)
EXTENDS TaskLife

VARIABLES
    half,        \* <<job, "google" or "gtmetrix">> -> the status of that report
    dispatched,  \* halves whose message was published
    removed      \* rows their owner soft-deleted: halves, or <<job, "test">>

speedVars == <<half, dispatched, removed>>

Halves == Jobs \X {"google", "gtmetrix"}

SpeedRows == Halves \cup (Jobs \X {"test"})

Life == INSTANCE ReportLife WITH Reports <- Halves, status <- half, lost <- crashes

InitSpeed == /\ half = [h \in Halves |-> "none"]
             /\ dispatched = {}
             /\ removed = {}

SpeedTypeOK == /\ half \in [Halves -> {"none", "pending", "completed", "failed"}]
               /\ dispatched \in SUBSET Halves
               /\ removed \in SUBSET SpeedRows

\* Both reports and the test, or none of them.
SubmitSpeedTest(j) ==
    /\ CommitSubmission(j)
    /\ half' = [h \in Halves |-> IF h[1] = j THEN "pending" ELSE half[h]]
    /\ UNCHANGED <<dispatched, removed>>

\* The on_commit hooks run in the order they were registered.
DispatchGoogle(j) ==
    /\ submit[j] = "committed"
    /\ <<j, "google">> \notin dispatched
    /\ dispatched' = dispatched \cup {<<j, "google">>}
    /\ UNCHANGED <<taskVars, half, removed>>

DispatchGtmetrix(j) ==
    /\ submit[j] = "committed"
    /\ <<j, "google">> \in dispatched
    /\ submit' = [submit EXCEPT ![j] = "queued"]
    /\ dispatched' = dispatched \cup {<<j, "gtmetrix">>}
    /\ UNCHANGED <<queueVars, at, broken, half, removed>>

\* The web process dies before both are published.
DispatchLost(j) == OnCommitLost(j) /\ UNCHANGED speedVars

HalfEnds(h) ==
    /\ h \in dispatched
    /\ Life!Complete(h) \/ Life!Fail(h)
    /\ UNCHANGED <<taskVars, dispatched, removed>>

\* DELETE of a report, or of the test.
RemoveRow(r) ==
    /\ submit[r[1]] # "start"
    /\ r \notin removed
    /\ removed' = removed \cup {r}
    /\ UNCHANGED <<taskVars, half, dispatched>>

-----------------------------------------------------------------------------
\* Mutant: the foreign keys followed through the manager that hides deleted rows.
StatusOfVisible(h) == IF h \in removed \/ half[h] = "none" THEN "pending" ELSE half[h]

\* getattr(self.google_report, "status", None) or "pending": the key is followed
\* by the plain manager, a soft-deleted report included.
StatusOf(h) == IF half[h] = "none" THEN "pending" ELSE half[h]

combined_status(j) ==
    LET both == {StatusOf(<<j, "google">>), StatusOf(<<j, "gtmetrix">>)} IN
    IF both \in {{"completed"}, {"failed"}, {"pending"}}
    THEN CHOOSE s \in both : TRUE
    ELSE "partial"
=============================================================================
