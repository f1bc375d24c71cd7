------------------------------ MODULE ScanTask ------------------------------
(***************************************************************************)
(* SSL scans (apps/ssl_check): the row of an SSLReport, process_ssl_check  *)
(* and the task that retries it.  What a scan finds is in SslScan.         *)
(***************************************************************************)
EXTENDS TaskLife

VARIABLE
    scan         \* job -> its committed SSLReport row

ScanRow == [status : {"none", "pending", "completed", "failed"}, is_deleted : BOOLEAN]

InitScan == scan = [j \in Jobs |-> [status |-> "none", is_deleted |-> FALSE]]

ScanTypeOK == scan \in [Jobs -> ScanRow]

SubmitSslCheck(j) ==
    /\ CommitSubmission(j)
    /\ scan' = [scan EXCEPT ![j].status = "pending"]

\* objects.get() hides a deleted report: the task returns "missing".
StartScan(w, m) ==
    /\ Take(w, m, IF scan[m[1]].is_deleted THEN "finished" ELSE "scanning")
    /\ UNCHANGED scan

\* Mutant: the status is saved inside the try and something raises after it.
MarkScanFailedLate(w, place) ==
    /\ at[w] \in {"scanning", "finished"}
    /\ held[w] # NoMessage
    /\ scan' = [scan EXCEPT ![JobOf(w)].status = "failed"]
    /\ Continue(w, place)

\* run_ssl_scan raises: the outcome is committed, then re-raised.  The task
\* retries an SSLScanError only; anything else ends it.
MarkScanFailed(w, place) ==
    /\ Working(w, "scanning")
    /\ scan' = [scan EXCEPT ![JobOf(w)].status = "failed"]
    /\ Continue(w, place)

RetryScan(w) ==
    /\ Working(w, "retrying")
    /\ PublishRetry(w)
    /\ UNCHANGED scan

GiveUpScan(w) ==
    /\ Working(w, "retrying")
    /\ RetriesOf(w) >= MAX_RETRIES
    /\ Continue(w, "finished")
    /\ UNCHANGED scan

\* report.save(): the whole instance, is_deleted as it was loaded included.
SaveScan(w) ==
    /\ Working(w, "scanning")
    /\ scan' = [scan EXCEPT ![JobOf(w)] = [status |-> "completed", is_deleted |-> FALSE]]
    /\ Continue(w, "finished")

\* The database refuses the outcome, whichever it is.
ScanRaises(w) ==
    /\ Working(w, "scanning")
    /\ Raise(w)
    /\ UNCHANGED scan

\* DELETE by the owner.
DeleteScan(j) ==
    /\ scan[j].status # "none"
    /\ ~scan[j].is_deleted
    /\ scan' = [scan EXCEPT ![j].is_deleted = TRUE]
    /\ UNCHANGED taskVars

ScanStep(w) == \/ \E place \in {"retrying", "finished"} : MarkScanFailed(w, place)
               \/ RetryScan(w) \/ GiveUpScan(w) \/ SaveScan(w) \/ ScanRaises(w)
=============================================================================
