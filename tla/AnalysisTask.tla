---------------------------- MODULE AnalysisTask ----------------------------
(***************************************************************************)
(* PageSpeed analyses (apps/analysis): submit_analysis, the Celery task    *)
(* run_pagespeed_analysis and process_analysis over the queue of           *)
(* CeleryQueue, the history row they count in, and its cached list.        *)
(*                                                                         *)
(* The jobs are reports on one URL.  A report is Owned by the one user or  *)
(* anonymous; the user's reports share one row of analysis_history and     *)
(* one cache entry.  The database runs READ COMMITTED: an INSERT of the    *)
(* unique (user, url) and an UPDATE of the row wait for the transaction    *)
(* that wrote it, a SELECT sees what is committed.  history = 0 is no row. *)
(***************************************************************************)
EXTENDS CeleryQueue

CONSTANT
    Owned        \* the reports of the user

ASSUME OwnedAssumption == Owned \subseteq Jobs

VARIABLES
    submit,      \* report -> how far the request that submits it is
    report,      \* report -> its committed row
    at,          \* worker -> where process_analysis or its task is
    history,     \* reports_count of the row of analysis_history
    writer,      \* the worker whose open transaction wrote that row
    value,       \* worker -> the count its open transaction wrote
    cached,      \* the count in the cached list, or NoCache
    reader,      \* the request that lists the history, when it missed the cache
    met,         \* which list, the reader's or the cached one, was in a reader's
                 \* hands while a transaction on the row was open (a ghost)
    broken       \* reports whose task raised outside its except clause (a ghost)

siteVars == <<submit, report>>
historyVars == <<history, writer, value>>
cacheVars == <<cached, reader, met>>
vars == <<queueVars, siteVars, at, historyVars, cacheVars, broken>>

NoCache == -1
NoWriter == "none"

ASSUME WriterAssumption == NoWriter \notin Workers

\* A row: what the properties tell apart.  The instance process_analysis loads is
\* one that is not deleted, and its save sets the other two fields.
Row == [status : {"none", "pending", "completed", "failed"}, measured : BOOLEAN,
        is_deleted : BOOLEAN]

NoRow == [status |-> "none", measured |-> FALSE, is_deleted |-> FALSE]

\* The task retries a PageSpeedAPIError; a PageSpeedConfigError or a time limit
\* ends it.
Errors == {"transient", "fatal"}

Places == {"idle", "fetching", "retrying", "upserting", "written", "finished"}

Goto(w, place) == at' = [at EXCEPT ![w] = place]

-----------------------------------------------------------------------------
Init == /\ InitQueue
        /\ submit = [r \in Jobs |-> "start"]
        /\ report = [r \in Jobs |-> NoRow]
        /\ at = [w \in Workers |-> "idle"]
        /\ history = 0
        /\ writer = NoWriter
        /\ value = [w \in Workers |-> 0]
        /\ cached = NoCache
        /\ reader = [place |-> "idle", seen |-> 0]
        /\ met = {}
        /\ broken = {}

\* submit_analysis: the pending row commits, the message follows on_commit.
SubmitAnalysis(r) ==
    /\ submit[r] = "start"
    /\ submit' = [submit EXCEPT ![r] = "committed"]
    /\ report' = [report EXCEPT ![r].status = "pending"]
    /\ UNCHANGED <<queueVars, at, historyVars, cacheVars, broken>>

OnCommit(r) ==
    /\ submit[r] = "committed"
    /\ submit' = [submit EXCEPT ![r] = "queued"]
    /\ Delay(r)
    /\ UNCHANGED <<report, at, historyVars, cacheVars, broken>>

\* The web process dies, or the broker refuses, after the commit.
OnCommitLost(r) ==
    /\ submit[r] = "committed"
    /\ submit' = [submit EXCEPT ![r] = "unqueued"]
    /\ PublisherLost
    /\ UNCHANGED <<report, at, historyVars, cacheVars, broken>>

\* The task starts: objects.get() hides a deleted report.
TakeMessage(w, m) ==
    /\ Deliver(w, m)
    /\ Goto(w, IF report[m[1]].is_deleted THEN "finished" ELSE "fetching")
    /\ UNCHANGED <<siteVars, historyVars, cacheVars, broken>>

\* Mutant: a status the column does not know.
MarkUnknown(w, kind) ==
    /\ at[w] = "fetching"
    /\ report' = [report EXCEPT ![JobOf(w)].status = "error"]
    /\ Goto(w, IF kind = "transient" THEN "retrying" ELSE "finished")
    /\ UNCHANGED <<queueVars, submit, historyVars, cacheVars, broken>>

\* Mutant: the save and the history inside the try.
MarkFailedLate(w, kind) ==
    /\ at[w] \in {"fetching", "upserting"}
    /\ report' = [report EXCEPT ![JobOf(w)].status = "failed"]
    /\ Goto(w, IF kind = "transient" THEN "retrying" ELSE "finished")
    /\ UNCHANGED <<queueVars, submit, historyVars, cacheVars, broken>>

\* fetch_pagespeed raises, once its own attempts are over.  The except clause:
\* only the status reaches the row, then the re-raise.
MarkFailed(w, kind) ==
    /\ at[w] = "fetching"
    /\ report' = [report EXCEPT ![JobOf(w)].status = "failed"]
    /\ Goto(w, IF kind = "transient" THEN "retrying" ELSE "finished")
    /\ UNCHANGED <<queueVars, submit, historyVars, cacheVars, broken>>

\* autoretry_for: the next attempt, or the end of them.
RetryLater(w) ==
    /\ at[w] = "retrying"
    /\ Retry(w)
    /\ Goto(w, "finished")
    /\ UNCHANGED <<siteVars, historyVars, cacheVars, broken>>

GiveUp(w) ==
    /\ at[w] = "retrying"
    /\ RetriesOf(w) >= MAX_RETRIES
    /\ Goto(w, "finished")
    /\ UNCHANGED <<queueVars, siteVars, historyVars, cacheVars, broken>>

\* parse_pagespeed cannot read the payload, or the database refuses the scores, both
\* outside the try, or it refuses the save of the except clause: the row stays as it
\* is and the task fails with an error autoretry_for does not name.
SaveRefused(w) ==
    /\ at[w] = "fetching"
    /\ broken' = broken \cup {JobOf(w)}
    /\ Goto(w, "finished")
    /\ UNCHANGED <<queueVars, siteVars, historyVars, cacheVars>>

\* The payload is there.  report.save(): every column of the instance, the
\* is_deleted = FALSE it was loaded with included.
SaveReport(w) ==
    /\ at[w] = "fetching"
    /\ report' = [report EXCEPT ![JobOf(w)] =
                     [status |-> "completed", measured |-> TRUE, is_deleted |-> FALSE]]
    /\ Goto(w, IF JobOf(w) \in Owned THEN "upserting" ELSE "finished")
    /\ UNCHANGED <<queueVars, submit, historyVars, cacheVars, broken>>

-----------------------------------------------------------------------------
\* Commit and rollback free the row.
EndTransaction(w) == /\ writer' = IF writer = w THEN NoWriter ELSE writer
                     /\ value' = [value EXCEPT ![w] = 0]

\* The transaction about to be opened finds the list of a reader that has not stored
\* it yet; the cached one it drops.
MetReader == IF reader.place = "listed" THEN {"reader"} ELSE {}

\* Mutant: reports_count read and written back without F().
WriteHistoryUnlocked(w) ==
    /\ at[w] = "upserting"
    /\ writer' = w
    /\ value' = [value EXCEPT ![w] = history + 1]
    /\ cached' = NoCache
    /\ met' = MetReader
    /\ Goto(w, "written")
    /\ UNCHANGED <<queueVars, siteVars, history, reader, broken>>

\* Mutant: without invalidate_history_cache.
WriteHistoryOnly(w) ==
    /\ at[w] = "upserting"
    /\ writer = NoWriter
    /\ writer' = w
    /\ value' = [value EXCEPT ![w] = history + 1]
    /\ met' = met \cup MetReader
    /\ Goto(w, "written")
    /\ UNCHANGED <<queueVars, siteVars, history, cached, reader, broken>>

\* _upsert_history, one transaction: get_or_create inserts the row or the UPDATE
\* sets reports_count = reports_count + 1; either waits for the transaction that
\* wrote the row to end and goes on from what it left.  The cached list is
\* dropped (invalidate_history_cache) before the transaction commits.
WriteHistory(w) ==
    /\ at[w] = "upserting"
    /\ writer = NoWriter
    /\ writer' = w
    /\ value' = [value EXCEPT ![w] = history + 1]
    /\ cached' = NoCache
    /\ met' = MetReader
    /\ Goto(w, "written")
    /\ UNCHANGED <<queueVars, siteVars, history, reader, broken>>

CommitHistory(w) ==
    /\ at[w] = "written"
    /\ history' = value[w]
    /\ EndTransaction(w)
    /\ Goto(w, "finished")
    /\ UNCHANGED <<queueVars, siteVars, cacheVars, broken>>

\* A database or cache error in _upsert_history: rolled back, the task fails.
UpsertFails(w) ==
    /\ at[w] \in {"upserting", "written"}
    /\ EndTransaction(w)
    /\ broken' = broken \cup {JobOf(w)}
    /\ Goto(w, "finished")
    /\ UNCHANGED <<queueVars, siteVars, history, cacheVars>>

-----------------------------------------------------------------------------
Finish(w) ==
    /\ at[w] = "finished"
    /\ Acknowledge(w)
    /\ Goto(w, "idle")
    /\ UNCHANGED <<siteVars, historyVars, cacheVars, broken>>

\* The worker process dies: its transaction is rolled back.
WorkerDies(w) ==
    /\ WorkerLost(w)
    /\ Goto(w, "idle")
    /\ EndTransaction(w)
    /\ UNCHANGED <<siteVars, history, cacheVars, broken>>

\* DELETE by the owner.
DeleteReport(r) ==
    /\ report[r].status # "none"
    /\ r \in Owned
    /\ ~report[r].is_deleted
    /\ report' = [report EXCEPT ![r].is_deleted = TRUE]
    /\ UNCHANGED <<queueVars, submit, at, historyVars, cacheVars, broken>>

\* get_analysis_history: cache.get misses and the query runs; cache.set follows.
ListHistory ==
    /\ reader.place = "idle"
    /\ cached = NoCache
    /\ reader' = [place |-> "listed", seen |-> history]
    /\ met' = IF writer = NoWriter THEN {} ELSE {"reader"}
    /\ UNCHANGED <<queueVars, siteVars, at, historyVars, cached, broken>>

StoreHistory ==
    /\ reader.place = "listed"
    /\ cached' = reader.seen
    /\ reader' = [place |-> "idle", seen |-> 0]
    /\ met' = IF "reader" \in met THEN {"cached"} ELSE {}
    /\ UNCHANGED <<queueVars, siteVars, at, historyVars, broken>>

\* HISTORY_CACHE_TIMEOUT is over.
CacheExpires ==
    /\ cached # NoCache
    /\ cached' = NoCache
    /\ met' = met \ {"cached"}
    /\ UNCHANGED <<queueVars, siteVars, at, historyVars, reader, broken>>

\* The next statement of a live worker with a message.
WorkerStep(w) ==
    \/ (\E kind \in Errors : MarkFailed(w, kind)) \/ RetryLater(w) \/ GiveUp(w)
    \/ SaveRefused(w) \/ SaveReport(w)
    \/ WriteHistory(w) \/ CommitHistory(w) \/ UpsertFails(w) \/ Finish(w)

Next ==
    \/ \E r \in Jobs : SubmitAnalysis(r) \/ OnCommit(r) \/ OnCommitLost(r) \/ DeleteReport(r)
    \/ \E w \in Workers, m \in Messages : TakeMessage(w, m)
    \/ \E w \in Workers : WorkerStep(w) \/ WorkerDies(w)
    \/ ListHistory \/ StoreHistory \/ CacheExpires

\* Workers run and take messages, and a published message arrives.  Nobody is bound
\* to submit or to list the history, and the cache may keep an entry for ever.
Fairness == /\ \A r \in Jobs : WF_vars(OnCommit(r))
            /\ \A w \in Workers : WF_vars(WorkerStep(w))
            /\ WF_vars(\E w \in Workers, m \in Messages : TakeMessage(w, m))

Spec == Init /\ [][Next]_vars /\ Fairness

-----------------------------------------------------------------------------
TypeOK ==
    /\ QueueTypeOK
    /\ submit \in [Jobs -> {"start", "committed", "queued", "unqueued"}]
    /\ report \in [Jobs -> Row]
    /\ at \in [Workers -> Places]
    /\ history \in Nat
    /\ writer \in Workers \cup {NoWriter}
    /\ value \in [Workers -> Nat]
    /\ cached \in Nat \cup {NoCache}
    /\ reader \in [place : {"idle", "listed"}, seen : Nat]
    /\ met \subseteq {"reader", "cached"}
    /\ broken \in SUBSET Jobs

\* The history counts the user's analyses: no two workers that complete
\* reports on one URL at once lose one (get_or_create, F("reports_count") + 1),
\* and it is ahead of them by at most one for each process that died after its
\* commit and was delivered its message again.  Not counted are a report whose
\* task failed behind its save, and one its owner deleted before a redelivery.
HistoryExplained ==
    /\ history <= Cardinality({r \in Owned : report[r].measured}) + crashes
    /\ (\A r \in Jobs : NothingLeft(r)) =>
          Cardinality({r \in Owned \ broken : /\ report[r].status = "completed"
                                              /\ ~report[r].is_deleted}) <= history

Life == INSTANCE ReportLife WITH Reports <- Jobs,
                                 status <- [r \in Jobs |-> report[r].status], lost <- crashes

\* A report moves as every report does: no late attempt takes a result back
\* unless a process died (analysis_service.py, the write in the except clause).
ImplementsLife == Life!LifeSpec

\* The cached list is what is committed, whatever the cache keeps and for how long.
\* It lags behind only when it was in the hands of a reader while a transaction on
\* the row was open, since the cache is dropped before the commit and that reader
\* puts the old list back (invalidate_history_cache in _upsert_history, and
\* get_analysis_history).
StaleOnlyByRace ==
    cached # NoCache => /\ cached <= history
                        /\ cached < history => "cached" \in met

\* The retries always stop, and then the report has an outcome, unless its
\* owner deleted it or the task failed outside its except clause.
AlwaysStops ==
    \A r \in Jobs :
        submit[r] = "queued" ~> [](/\ NothingLeft(r)
                                   /\ \/ report[r].status \in {"completed", "failed"}
                                      \/ report[r].is_deleted
                                      \/ r \in broken)

\* "Idempotent and safe to retry": the history counts a report once.
CountedOnce ==
    history <= Cardinality({r \in Owned : report[r].measured})
=============================================================================
