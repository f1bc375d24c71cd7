---------------------------- MODULE GTmetrixTask ----------------------------
(***************************************************************************)
(* GTmetrix reports: submit_gtmetrix, the Celery task run_gtmetrix_analysis *)
(* and process_gtmetrix (apps/gtmetrix), over the queue of CeleryQueue.    *)
(*                                                                         *)
(* GTmetrix is an external service that starts a test per POST (one paid   *)
(* credit each) and reports on it by its id: tests[r] is the sequence of   *)
(* the tests started for report r, an id is a position in it, 0 is no id.  *)
(* A test completes, with a grade or without one (a result the NOT NULL    *)
(* column gtmetrix_grade refuses); "unfinished" is one that still runs or  *)
(* errored: polling it ends in a retryable error either way.  A worker's   *)
(* copy is the model instance it loaded at the start of the attempt.       *)
(***************************************************************************)
EXTENDS CeleryQueue, Sequences

CONSTANTS
    MaxLost      \* bound: replies of GTmetrix to a POST that get lost

ASSUME MaxLostAssumption == MaxLost \in Nat

VARIABLES
    submit,      \* report -> how far the request that submits it is
    report,      \* report -> its committed row
    tests,       \* report -> the states of the tests GTmetrix ran for it
    at,          \* worker -> where process_gtmetrix or its task is
    copy,        \* worker -> the instance it loaded
    exc,         \* worker -> the kind of the exception being raised
    lost,        \* report -> POSTs that started a test whose id never arrived
    broken       \* reports whose task raised outside its except clause (a ghost)

taskVars == <<at, copy, exc>>
siteVars == <<submit, report>>
ghostVars == <<lost, broken>>
vars == <<queueVars, siteVars, tests, taskVars, ghostVars>>

Reports == Jobs

NoTest == 0

\* A row, or an instance of it: what the properties tell apart.
Row == [status : {"none", "pending", "completed", "failed"}, test_id : Nat,
        metrics : Nat, is_deleted : BOOLEAN]

NoRow == [status |-> "none", test_id |-> NoTest, metrics |-> NoTest, is_deleted |-> FALSE]

\* One of RETRYABLE_ERRORS, or an exception that ends the task: a
\* GTmetrixClientError, which it catches, or one it does not handle (no API
\* key, a time limit, a database error).
Errors == {"transient", "fatal"}

Places == {"idle", "starting", "started", "polling", "saving", "failing", "raised",
           "finished"}

Goto(w, place) == at' = [at EXCEPT ![w] = place]

\* The locals of the task function are gone with the attempt.
Forget(w) == /\ copy' = [copy EXCEPT ![w] = NoRow]
             /\ exc' = [exc EXCEPT ![w] = "none"]

Raise(w, kind) == /\ exc' = [exc EXCEPT ![w] = kind]
                  /\ Goto(w, "failing")

-----------------------------------------------------------------------------
Init == /\ InitQueue
        /\ submit = [r \in Reports |-> "start"]
        /\ report = [r \in Reports |-> NoRow]
        /\ tests = [r \in Reports |-> <<>>]
        /\ at = [w \in Workers |-> "idle"]
        /\ copy = [w \in Workers |-> NoRow]
        /\ exc = [w \in Workers |-> "none"]
        /\ lost = [r \in Reports |-> 0]
        /\ broken = {}

\* submit_gtmetrix: the pending row commits, the message follows on_commit.
SubmitGtmetrix(r) ==
    /\ submit[r] = "start"
    /\ submit' = [submit EXCEPT ![r] = "committed"]
    /\ report' = [report EXCEPT ![r].status = "pending"]
    /\ UNCHANGED <<queueVars, tests, taskVars, ghostVars>>

OnCommit(r) ==
    /\ submit[r] = "committed"
    /\ submit' = [submit EXCEPT ![r] = "queued"]
    /\ Delay(r)
    /\ UNCHANGED <<report, tests, taskVars, ghostVars>>

\* The web process dies, or the broker refuses, after the commit.
OnCommitLost(r) ==
    /\ submit[r] = "committed"
    /\ submit' = [submit EXCEPT ![r] = "unqueued"]
    /\ PublisherLost
    /\ UNCHANGED <<report, tests, taskVars, ghostVars>>

\* Mutant: every attempt starts a test of its own.
TakeMessageAfresh(w, m) ==
    LET row == report[m[1]] IN
    /\ Deliver(w, m)
    /\ copy' = [copy EXCEPT ![w] = row]
    /\ Goto(w, IF row.is_deleted THEN "finished" ELSE "starting")
    /\ UNCHANGED <<siteVars, tests, exc, ghostVars>>

\* The task starts: objects.get() hides a deleted report, and a report with a
\* test id goes straight to polling.
TakeMessage(w, m) ==
    LET row == report[m[1]] IN
    /\ Deliver(w, m)
    /\ copy' = [copy EXCEPT ![w] = row]
    /\ Goto(w, IF row.is_deleted THEN "finished"
               ELSE IF row.test_id = NoTest THEN "starting" ELSE "polling")
    /\ UNCHANGED <<siteVars, tests, exc, ghostVars>>

\* start_test: GTmetrix starts a test and its id comes back.
StartTest(w) ==
    LET r == JobOf(w) IN
    /\ at[w] = "starting"
    /\ tests' = [tests EXCEPT ![r] = Append(@, "unfinished")]
    /\ copy' = [copy EXCEPT ![w].test_id = Len(tests[r]) + 1]
    /\ Goto(w, "started")
    /\ UNCHANGED <<queueVars, siteVars, exc, ghostVars>>

\* start_test raises before GTmetrix has started anything.
StartFails(w, kind) ==
    /\ at[w] = "starting"
    /\ Raise(w, kind)
    /\ UNCHANGED <<queueVars, siteVars, tests, copy, ghostVars>>

\* The test starts but the reply is lost, cut off or without an id.
StartReplyLost(w) ==
    LET r == JobOf(w) IN
    /\ at[w] = "starting"
    /\ lost[r] < MaxLost
    /\ lost' = [lost EXCEPT ![r] = @ + 1]
    /\ tests' = [tests EXCEPT ![r] = Append(@, "unfinished")]
    /\ Raise(w, "transient")
    /\ UNCHANGED <<queueVars, siteVars, copy, broken>>

\* report.save(update_fields=["test_id", ...]).
SaveTestId(w) ==
    /\ at[w] = "started"
    /\ report' = [report EXCEPT ![JobOf(w)].test_id = copy[w].test_id]
    /\ Goto(w, "polling")
    /\ UNCHANGED <<queueVars, submit, tests, copy, exc, ghostVars>>

\* That save raises; its test is started, its id is not in the row.
SaveTestIdFails(w) ==
    /\ at[w] = "started"
    /\ Raise(w, "fatal")
    /\ UNCHANGED <<queueVars, siteVars, tests, copy, ghostVars>>

\* poll_and_fetch sees the test completed and gets its report.
PollCompleted(w) ==
    /\ at[w] = "polling"
    /\ tests[JobOf(w)][copy[w].test_id] \in {"completed", "ungraded"}
    /\ Goto(w, "saving")
    /\ UNCHANGED <<queueVars, siteVars, tests, copy, exc, ghostVars>>

\* poll_and_fetch raises: the test errored, the deadline passed while it ran,
\* or a GET failed in any of the ways a request can.
PollFails(w, kind) ==
    /\ at[w] = "polling"
    /\ Raise(w, kind)
    /\ UNCHANGED <<queueVars, siteVars, tests, copy, ghostVars>>

\* Mutant: a status the column does not know.
MarkUnknown(w) ==
    /\ at[w] = "failing"
    /\ report' = [report EXCEPT ![JobOf(w)].status = "error"]
    /\ Goto(w, "raised")
    /\ UNCHANGED <<queueVars, submit, tests, copy, exc, ghostVars>>

\* The except clause: only the status reaches the row, then the re-raise.
MarkFailed(w) ==
    /\ at[w] = "failing"
    /\ report' = [report EXCEPT ![JobOf(w)].status = "failed"]
    /\ Goto(w, "raised")
    /\ UNCHANGED <<queueVars, submit, tests, copy, exc, ghostVars>>

\* An error nobody catches: the row stays as it is, the task fails and is acknowledged.
TaskRaises(w) ==
    /\ broken' = broken \cup {JobOf(w)}
    /\ Goto(w, "finished")
    /\ UNCHANGED <<queueVars, siteVars, tests, copy, exc, lost>>

\* The database refuses the save of the except clause, or the objects.get() before
\* it: what is raised then is none of RETRYABLE_ERRORS.
MarkFailedRaises(w) == at[w] = "failing" /\ TaskRaises(w)

\* Mutant: self.retry without raise, the attempt starts over as well.
RetryAndGoOn(w) ==
    /\ at[w] = "raised"
    /\ exc[w] = "transient"
    /\ Retry(w)
    /\ Goto(w, "polling")
    /\ copy[w].test_id # NoTest
    /\ UNCHANGED <<siteVars, tests, copy, exc, ghostVars>>

\* The handlers of run_gtmetrix_analysis.
RetryLater(w) ==
    /\ at[w] = "raised"
    /\ exc[w] = "transient"
    /\ Retry(w)
    /\ Goto(w, "finished")
    /\ UNCHANGED <<siteVars, tests, copy, exc, ghostVars>>

GiveUp(w) ==
    /\ at[w] = "raised"
    /\ exc[w] = "transient" => RetriesOf(w) >= MAX_RETRIES
    /\ Goto(w, "finished")
    /\ UNCHANGED <<queueVars, siteVars, tests, copy, exc, ghostVars>>

\* Mutant: a result without a grade is saved as completed.
SaveUngraded(w) ==
    /\ at[w] = "saving"
    /\ report' = [report EXCEPT ![JobOf(w)] =
                     [copy[w] EXCEPT !.status = "completed", !.metrics = copy[w].test_id]]
    /\ Goto(w, "finished")
    /\ UNCHANGED <<queueVars, submit, tests, copy, exc, ghostVars>>

\* Mutant: the save inside the try, and an error after it.
SaveThenFail(w) ==
    /\ at[w] = "saving"
    /\ tests[JobOf(w)][copy[w].test_id] = "completed"
    /\ report' = [report EXCEPT ![JobOf(w)] =
                     [copy[w] EXCEPT !.status = "completed", !.metrics = copy[w].test_id]]
    /\ Raise(w, "transient")
    /\ UNCHANGED <<queueVars, submit, tests, copy, ghostVars>>

\* report.save(): the whole instance, is_deleted as it was loaded included.
SaveReport(w) ==
    /\ at[w] = "saving"
    /\ tests[JobOf(w)][copy[w].test_id] = "completed"
    /\ report' = [report EXCEPT ![JobOf(w)] =
                     [copy[w] EXCEPT !.status = "completed", !.metrics = copy[w].test_id]]
    /\ Goto(w, "finished")
    /\ UNCHANGED <<queueVars, submit, tests, copy, exc, ghostVars>>

\* The save of the result is outside the try and the database may refuse any row: one
\* without a grade always (the column is NOT NULL), another for a value out of range,
\* a lost connection or a time limit.
SaveRefused(w) == at[w] = "saving" /\ TaskRaises(w)

Finish(w) ==
    /\ at[w] = "finished"
    /\ Acknowledge(w)
    /\ Goto(w, "idle")
    /\ Forget(w)
    /\ UNCHANGED <<siteVars, tests, ghostVars>>

WorkerDies(w) ==
    /\ WorkerLost(w)
    /\ Goto(w, "idle")
    /\ Forget(w)
    /\ UNCHANGED <<siteVars, tests, ghostVars>>

\* GTmetrix completes a test.
TestCompletes(r, i, outcome) ==
    /\ tests[r][i] = "unfinished"
    /\ tests' = [tests EXCEPT ![r][i] = outcome]
    /\ UNCHANGED <<queueVars, siteVars, taskVars, ghostVars>>

\* DELETE by the owner.
DeleteReport(r) ==
    /\ report[r].status # "none"
    /\ ~report[r].is_deleted
    /\ report' = [report EXCEPT ![r].is_deleted = TRUE]
    /\ UNCHANGED <<queueVars, submit, tests, taskVars, ghostVars>>

AllStopped == /\ \A r \in Reports : submit[r] \in {"queued", "unqueued"} /\ NothingLeft(r)
              /\ UNCHANGED vars

\* The next statement of a live worker with a message.
WorkerStep(w) ==
    \/ StartTest(w) \/ StartReplyLost(w) \/ SaveTestId(w) \/ SaveTestIdFails(w)
    \/ PollCompleted(w)
    \/ \E kind \in Errors : StartFails(w, kind) \/ PollFails(w, kind)
    \/ MarkFailed(w) \/ MarkFailedRaises(w) \/ RetryLater(w) \/ GiveUp(w)
    \/ SaveReport(w) \/ SaveRefused(w) \/ Finish(w)

Next ==
    \/ \E r \in Reports : \/ SubmitGtmetrix(r) \/ OnCommit(r) \/ OnCommitLost(r)
                          \/ DeleteReport(r)
    \/ \E r \in Reports : \E i \in DOMAIN tests[r] :
          \E outcome \in {"completed", "ungraded"} : TestCompletes(r, i, outcome)
    \/ \E w \in Workers, m \in Messages : TakeMessage(w, m)
    \/ \E w \in Workers : WorkerStep(w) \/ WorkerDies(w)
    \/ AllStopped

\* Workers run and take messages; requests and tests may stay as they are.
Fairness == /\ \A r \in Reports : WF_vars(OnCommit(r))
            /\ \A w \in Workers : WF_vars(WorkerStep(w))
            /\ WF_vars(\E w \in Workers, m \in Messages : TakeMessage(w, m))

Spec == Init /\ [][Next]_vars /\ Fairness

-----------------------------------------------------------------------------
TypeOK ==
    /\ QueueTypeOK
    /\ submit \in [Reports -> {"start", "committed", "queued", "unqueued"}]
    /\ report \in [Reports -> Row]
    /\ tests \in [Reports -> Seq({"unfinished", "completed", "ungraded"})]
    /\ at \in [Workers -> Places]
    /\ copy \in [Workers -> Row]
    /\ exc \in [Workers -> Errors \cup {"none"}]
    /\ lost \in [Reports -> 0..MaxLost]
    /\ broken \in SUBSET Reports

\* The attempts at report r that may still act on it.
Waiting(r) == Cardinality(Copies({r}))

ActingOn(r) == {w \in Workers : /\ held[w] # NoMessage
                                /\ JobOf(w) = r
                                /\ at[w] # "finished"}

Acting(r) == Cardinality(ActingOn(r))

\* Retries never run beside the attempt they follow: one chain of attempts per
\* report, and one more for each process that died at the wrong moment.
OneChainPerReport == \A r \in Reports : Waiting(r) + Acting(r) <= 1 + crashes

\* What a submission costs: one GTmetrix credit, plus at most one for each
\* reply that was lost and each process that died (gtmetrix_service.py, the
\* comment over start_test, with the cases it does not cover).
CreditsExplained == \A r \in Reports : Len(tests[r]) <= 1 + lost[r] + crashes

\* A completed report shows the metrics of a test of its own that completed,
\* and while no process died of the very test whose id it stores.
CompletedHasResult ==
    \A r \in Reports :
        report[r].status = "completed" =>
            /\ report[r].metrics \in DOMAIN tests[r]
            /\ tests[r][report[r].metrics] = "completed"
            /\ crashes = 0 => report[r].test_id = report[r].metrics

Life == INSTANCE ReportLife WITH status <- [r \in Reports |-> report[r].status],
                                 lost <- crashes

\* A report moves as every report does: no late attempt takes a result back
\* unless a process died (gtmetrix_service.py, the write in the except clause).
ImplementsLife == Life!LifeSpec

\* The owner or anyone who polls the report learns how it ended.
Settled(r) == \/ report[r].status \in {"completed", "failed"}
              \/ report[r].is_deleted
              \/ r \in broken

\* The retries always stop, and then the report has an outcome, unless its
\* owner deleted it or its task raised outside the except clause, on a result the
\* database refuses or in that clause's own save.
AlwaysStops ==
    \A r \in Reports : submit[r] = "queued" ~> [](NothingLeft(r) /\ Settled(r))

\* "a submission never spends more than one GTmetrix credit".
AtMostOneCredit == \A r \in Reports : Len(tests[r]) <= 1
=============================================================================
