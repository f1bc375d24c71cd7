--------------------------- MODULE FullReportTask ---------------------------
(***************************************************************************)
(* Combined PDF reports (apps/full_report): the row of a FullReport, the   *)
(* PDF files in the storage, run_full_report_task and the periodic task    *)
(* purge_expired_full_reports.  The tools and the PDF are in ReportScore.  *)
(*                                                                         *)
(* A file of job j is a number: 1 is its plain name, the others are the    *)
(* names the storage invents when that one is taken.  The storage and the  *)
(* database commit separately.                                             *)
(***************************************************************************)
EXTENDS TaskLife, FiniteSetsExt

VARIABLES
    full,        \* job -> its committed FullReport row
    store,       \* job -> the files in its directory of the storage
    pdf,         \* worker -> report.file of the instance in its memory
    expired,     \* jobs older than FULL_REPORT_RETENTION_MINUTES
    purge        \* job -> what the running purge has of it: place and file

fullVars == <<full, store, pdf, expired, purge>>

NoFile == 0

\* One file for each delivery of the message.
Files == 1..(MaxCrashes + 1)

FullRow == [status : {"none", "pending", "processing", "completed", "failed"},
            file : Files \cup {NoFile}]

\* Before it is created and once it is purged.
NoRow == [status |-> "none", file |-> NoFile]

Exists(j) == full[j].status # "none"

NotListed == [place |-> "none", file |-> NoFile]

InitFull == /\ full = [j \in Jobs |-> NoRow]
            /\ store = [j \in Jobs |-> {}]
            /\ pdf = [w \in Workers |-> NoFile]
            /\ expired = {}
            /\ purge = [j \in Jobs |-> NotListed]

FullTypeOK == /\ full \in [Jobs -> FullRow]
              /\ store \in [Jobs -> SUBSET Files]
              /\ pdf \in [Workers -> Files \cup {NoFile}]
              /\ expired \in SUBSET Jobs
              /\ purge \in [Jobs -> [place : {"none", "listed", "unlinked"},
                                     file : Files \cup {NoFile}]]

LetGo(w) == pdf' = [pdf EXCEPT ![w] = NoFile]

\* FullReportCreateView.post: created in autocommit, so on_commit runs at once.
CreateFullReport(j) ==
    /\ CommitSubmission(j)
    /\ full' = [full EXCEPT ![j].status = "pending"]
    /\ UNCHANGED <<store, pdf, expired, purge>>

LoadReport(w, m) ==
    /\ Take(w, m, IF Exists(m[1]) THEN "loaded" ELSE "finished")
    /\ pdf' = [pdf EXCEPT ![w] = full[m[1]].file]
    /\ UNCHANGED <<full, store, expired, purge>>

\* save(update_fields=...) raises when the row is gone, before the try block.
MarkProcessing(w) ==
    /\ Working(w, "loaded")
    /\ IF Exists(JobOf(w))
       THEN /\ full' = [full EXCEPT ![JobOf(w)].status = "processing"]
            /\ Continue(w, "running")
            /\ UNCHANGED pdf
       ELSE /\ Raise(w)
            /\ LetGo(w)
            /\ UNCHANGED full
    /\ UNCHANGED <<store, expired, purge>>

\* The tools ran, the PDF is built; file.save(save=False) stores it under a
\* name that is free and sets it on the instance only.
StoreFile(w) ==
    LET file == Min(Files \ store[JobOf(w)]) IN
    /\ Working(w, "running")
    /\ store' = [store EXCEPT ![JobOf(w)] = @ \cup {file}]
    /\ pdf' = [pdf EXCEPT ![w] = file]
    /\ Continue(w, "stored")
    /\ UNCHANGED <<full, expired, purge>>

\* Mutant: the file that is stored is not the one the row names.
SaveFullStatusOnly(w) ==
    /\ Working(w, "stored")
    /\ full' = [full EXCEPT ![JobOf(w)].status = "completed"]
    /\ LetGo(w)
    /\ Continue(w, "finished")
    /\ UNCHANGED <<store, expired, purge>>

\* report.save(): an UPDATE of every column, or an INSERT when the row is gone.
SaveFull(w) ==
    /\ Working(w, "stored")
    /\ full' = [full EXCEPT ![JobOf(w)] = [status |-> "completed", file |-> pdf[w]]]
    /\ LetGo(w)
    /\ Continue(w, "finished")
    /\ UNCHANGED <<store, expired, purge>>

\* The PDF, the storage or that save raise: status and error by name, the file
\* column stays.  Without the row this save raises out of the except clause.
FullFails(w) ==
    /\ Working(w, "running") \/ Working(w, "stored")
    /\ Exists(JobOf(w))
    /\ full' = [full EXCEPT ![JobOf(w)].status = "failed"]
    /\ LetGo(w)
    /\ Continue(w, "finished")
    /\ UNCHANGED <<store, expired, purge>>

FullRaises(w) ==
    /\ Working(w, "running") \/ Working(w, "stored")
    /\ Raise(w)
    /\ LetGo(w)
    /\ UNCHANGED <<full, store, expired, purge>>

FullStep(w) == MarkProcessing(w) \/ StoreFile(w) \/ SaveFull(w) \/ FullFails(w) \/ FullRaises(w)

-----------------------------------------------------------------------------
\* created_at is behind the cutoff, now and for ever.
Expire(j) ==
    /\ submit[j] # "start"
    /\ j \notin expired
    /\ expired' = expired \cup {j}
    /\ UNCHANGED <<taskVars, full, store, pdf, purge>>

\* Mutant: reports still pending or processing are left to their task.
StartPurgeOfEnded ==
    /\ \A j \in Jobs : purge[j] = NotListed
    /\ \E j \in expired : full[j].status \in {"completed", "failed"}
    /\ purge' = [j \in Jobs |-> IF j \in expired /\ full[j].status \in {"completed", "failed"}
                                THEN [place |-> "listed", file |-> full[j].file]
                                ELSE NotListed]
    /\ UNCHANGED <<taskVars, full, store, pdf, expired>>

\* The rows and their file names are read when the iterator starts.
StartPurge ==
    /\ \A j \in Jobs : purge[j] = NotListed
    /\ \E j \in expired : Exists(j)
    /\ purge' = [j \in Jobs |-> IF j \in expired /\ Exists(j)
                                THEN [place |-> "listed", file |-> full[j].file]
                                ELSE NotListed]
    /\ UNCHANGED <<taskVars, full, store, pdf, expired>>

\* report.file.delete(save=False), one row after the other.
PurgeFile(j) ==
    /\ purge[j].place = "listed"
    /\ \A k \in Jobs : purge[k].place # "unlinked"
    /\ purge' = [purge EXCEPT ![j].place = "unlinked"]
    /\ store' = [store EXCEPT ![j] = @ \ {purge[j].file}]
    /\ UNCHANGED <<taskVars, full, pdf, expired>>

\* report.delete()
PurgeRow(j) ==
    /\ purge[j].place = "unlinked"
    /\ full' = [full EXCEPT ![j] = NoRow]
    /\ purge' = [purge EXCEPT ![j] = NotListed]
    /\ UNCHANGED <<taskVars, store, pdf, expired>>

\* The purging process dies; the next period starts another.
PurgeDies ==
    /\ \E j \in Jobs : purge[j] # NotListed
    /\ PublisherLost
    /\ purge' = [j \in Jobs |-> NotListed]
    /\ UNCHANGED <<submit, at, broken, full, store, pdf, expired>>

PurgeStep == StartPurge \/ \E j \in Jobs : PurgeFile(j) \/ PurgeRow(j)

-----------------------------------------------------------------------------
\* A completed report can be downloaded until it expires: its file is in the
\* storage, and the storage holds no other file of it while no process died and
\* no save was refused.  Whatever is refused, purged or delivered again, a report
\* leaves one file in the storage and at most one more for each process that died
\* (full_report/tasks.py: file.save before report.save, and the purge, which knows
\* the file name it read when it started).
FilesMatchRows ==
    /\ \A j \in Jobs \ expired :
          /\ full[j].file # NoFile => full[j].file \in store[j]
          /\ full[j].status = "completed" => full[j].file # NoFile
          /\ crashes = 0 /\ j \notin broken /\ full[j].status # "failed" =>
                store[j] \subseteq {full[j].file}
                    \cup {pdf[w] : w \in {v \in Workers : Working(v, "stored") /\ JobOf(v) = j}}
    /\ \A j \in Jobs : Cardinality(store[j]) <= 1 + crashes
=============================================================================
