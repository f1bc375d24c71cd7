------------------------------ MODULE SiteJobs ------------------------------
(***************************************************************************)
(* The tasks of the site over the worker pool they share: link crawls,     *)
(* validations, SSL scans and full reports with their purge, and the speed *)
(* tests beside them.  The jobs of one behaviour are all of one kind: the  *)
(* kinds have no row in common.                                            *)
(***************************************************************************)
EXTENDS CrawlTask, ValidationTask, ScanTask, FullReportTask, SpeedTest

VARIABLE kind    \* what the jobs of this behaviour are

vars == <<kind, taskVars, crawlVars, validationVars, scan, fullVars, speedVars>>

Kinds == {"crawl", "validation", "scan", "full", "speed"}

OnlyCrawl == UNCHANGED <<kind, validationVars, scan, fullVars, speedVars>>
OnlyValidation == UNCHANGED <<kind, crawlVars, scan, fullVars, speedVars>>
OnlyScan == UNCHANGED <<kind, crawlVars, validationVars, fullVars, speedVars>>
OnlyFull == UNCHANGED <<kind, crawlVars, validationVars, scan, speedVars>>
OnlySpeed == UNCHANGED <<kind, crawlVars, validationVars, scan, fullVars>>
OnlyTask == UNCHANGED <<kind, crawl, links, validation, items, scan, full, store,
                        expired, purge, speedVars>>

-----------------------------------------------------------------------------
Init == /\ kind \in Kinds
        /\ InitTask
        /\ InitCrawl
        /\ InitValidation
        /\ InitScan
        /\ InitFull
        /\ InitSpeed

Submit(j) ==
    \/ kind = "crawl" /\ SubmitCrawl(j) /\ OnlyCrawl
    \/ kind = "validation" /\ SubmitValidation(j) /\ OnlyValidation
    \/ kind = "scan" /\ SubmitSslCheck(j) /\ OnlyScan
    \/ kind = "full" /\ CreateFullReport(j) /\ OnlyFull
    \/ kind = "speed" /\ SubmitSpeedTest(j) /\ OnlySpeed

Publish(j) ==
    \/ /\ kind # "speed"
       /\ OnCommit(j)
       /\ OnlyTask
       /\ UNCHANGED <<progress, instance, pdf>>
    \/ kind = "speed" /\ (DispatchGoogle(j) \/ DispatchGtmetrix(j)) /\ OnlySpeed

PublishLost(j) == IF kind = "speed"
                  THEN DispatchLost(j) /\ OnlySpeed
                  ELSE OnCommitLost(j) /\ OnlyTask /\ UNCHANGED <<progress, instance, pdf>>

TakeMessage(w, m) ==
    \/ kind = "crawl" /\ StartCrawl(w, m) /\ OnlyCrawl
    \/ kind = "validation" /\ StartValidation(w, m) /\ OnlyValidation
    \/ kind = "scan" /\ StartScan(w, m) /\ OnlyScan
    \/ kind = "full" /\ LoadReport(w, m) /\ OnlyFull

\* The next statement of a worker that has a message.
WorkerStep(w) ==
    \/ CrawlStep(w) /\ OnlyCrawl
    \/ ValidationStep(w) /\ OnlyValidation
    \/ ScanStep(w) /\ OnlyScan
    \/ FullStep(w) /\ OnlyFull
    \/ Finish(w) /\ OnlyTask /\ UNCHANGED <<progress, instance, pdf>>

\* What the process had in memory is gone.
Die(w) == /\ WorkerDies(w)
          /\ Forget(w)
          /\ instance' = [instance EXCEPT ![w] = 0]
          /\ LetGo(w)
          /\ OnlyTask

Owner(j) == kind = "scan" /\ DeleteScan(j) /\ OnlyScan

Purging == PurgeStep /\ OnlyFull

AllStopped == /\ \A j \in Jobs : submit[j] \in {"queued", "unqueued"} /\ NothingLeft(j)
              /\ UNCHANGED vars

WorkerRuns == \E w \in Workers : WorkerStep(w) \/ \E m \in Messages : TakeMessage(w, m)

Next ==
    \/ \E j \in Jobs : Submit(j) \/ Publish(j) \/ PublishLost(j) \/ Owner(j)
    \/ WorkerRuns
    \/ \E w \in Workers : Die(w)
    \/ \E j \in Jobs : kind = "full" /\ Expire(j) /\ OnlyFull
    \/ Purging
    \/ PurgeDies /\ OnlyFull
    \/ \E h \in Halves : HalfEnds(h) /\ OnlySpeed
    \/ \E r \in SpeedRows : kind = "speed" /\ RemoveRow(r) /\ OnlySpeed
    \/ AllStopped

\* Some worker that can go on does, and celery beat starts a purge again and again;
\* requests, owners and the halves of a speed test may stay as they are.
Fairness == WF_vars(WorkerRuns) /\ WF_vars(Purging)

Spec == Init /\ [][Next]_vars /\ Fairness

-----------------------------------------------------------------------------
TypeOK == /\ TaskTypeOK
          /\ at \in [Workers -> {"idle", "finished", "retrying", "loaded", "running",
                                 "stored", "scanning"} \cup CrawlPlaces \cup ValidationPlaces]
          /\ CrawlTypeOK
          /\ ValidationTypeOK
          /\ ScanTypeOK
          /\ FullTypeOK
          /\ SpeedTypeOK

Outcome(j) == CASE kind = "crawl" -> crawl[j].status
                [] kind = "validation" -> validation[j].status
                [] kind = "scan" -> scan[j].status
                [] OTHER -> full[j].status

\* Who submitted job j learns how it ended, unless its task raised where nothing
\* records it, its owner deleted it or the purge is after it.
Settled(j) == \/ Outcome(j) \in {"completed", "failed"}
              \/ j \in broken
              \/ scan[j].is_deleted
              \/ j \in expired

\* Every job that was queued comes to an end: its messages stop, retries and
\* redeliveries included, and what the row shows is an outcome (the except
\* clauses of the four tasks, MAX_RETRIES of ssl_check).
JobsSettle ==
    \A j \in Jobs : kind # "speed" /\ submit[j] = "queued" ~> [](NothingLeft(j) /\ Settled(j))

\* An expired report is gone, and stays gone, whatever the task that still works
\* on it does: a save after the purge inserts the row again, and the next purge
\* finds it (full_report/tasks.py, purge_expired_full_reports).
PurgeCatchesUp == \A j \in Jobs : j \in expired ~> []~Exists(j)

\* The overall status of a speed test tells that an analysis ended and never
\* takes it back; while no process died, completed is the last word.
CombinedTracks ==
    [][\A j \in Jobs :
          /\ combined_status(j) # "pending" => combined_status(j)' # "pending"
          /\ crashes = 0 /\ combined_status(j) = "completed" =>
                combined_status(j)' = "completed"]_vars

ScanLife == INSTANCE ReportLife
    WITH Reports <- Jobs, status <- [j \in Jobs |-> scan[j].status], lost <- crashes

\* An SSL report moves as every report does: no late attempt takes a result back
\* unless a process died (ssl_service.py, the write in the except clause).
ScansImplementLife == ScanLife!LifeSpec
=============================================================================
