---------------------------- MODULE GTmetrixProofs ----------------------------
(***************************************************************************)
(* Proofs about module GTmetrixTask, for any number of reports, workers,   *)
(* retries, crashes and lost replies: types, the results of completed      *)
(* reports, the life of a report, how many attempts at it there are and    *)
(* what it costs.  What makes the first three hold is that, while no       *)
(* process died, a report has one attempt at a time (OneAtATime), and none *)
(* once it is completed (Quiet); the last two count what may still act     *)
(* on a report (ChainInv) and may still start a test for it (CostInv).     *)
(***************************************************************************)
EXTENDS GTmetrixTask, CeleryQueueProofs

\* What messages are: a job and a number of retries, and the next one of a chain.
LEMMA MessagesMake ==
    /\ \A r \in Reports : <<r, 0>> \in Messages
    /\ \A m \in Messages : m = <<m[1], m[2]>> /\ m[1] \in Reports /\ m[2] \in 0..MAX_RETRIES
    /\ \A m \in Messages : m[2] < MAX_RETRIES => <<m[1], m[2] + 1>> \in Messages
  BY RetriesAssumption DEF Messages, Reports

\* The places of a worker with a message, and the tests its instance names.
WorkerInv(w) ==
    /\ at[w] = "idle" <=> held[w] = NoMessage
    /\ at[w] \in {"started", "polling", "saving"} =>
          copy[w].test_id \in DOMAIN tests[JobOf(w)]
    /\ at[w] = "saving" => tests[JobOf(w)][copy[w].test_id] \in {"completed", "ungraded"}

\* A message is about a report whose request has queued it.
Sent == /\ \A m \in Messages : queue[m] > 0 => submit[m[1]] = "queued"
        /\ \A w \in Workers : held[w] # NoMessage => submit[JobOf(w)] = "queued"

\* A row names a test of its report, and shows the metrics of one that completed.
ResultInv(r) == /\ report[r].test_id # NoTest => report[r].test_id \in DOMAIN tests[r]
                /\ report[r].status = "completed" =>
                      /\ report[r].metrics \in DOMAIN tests[r]
                      /\ tests[r][report[r].metrics] = "completed"

Base == /\ TypeOK
        /\ Sent
        /\ \A w \in Workers : WorkerInv(w)
        /\ \A r \in Reports : ResultInv(r)

TestStates == {"unfinished", "completed", "ungraded"}

\* A worker that holds something holds a message about a job.
LEMMA HeldIsMessage ==
    ASSUME TypeOK, NEW w \in Workers, held[w] # NoMessage
    PROVE  held[w] \in Messages /\ JobOf(w) \in Reports /\ RetriesOf(w) \in 0..MAX_RETRIES
  BY MessagesMake DEF TypeOK, QueueTypeOK, JobOf, RetriesOf

\* Nothing is queued, held or stored in the beginning.
LEMMA BaseInit == Init => Base
  BY RetriesAssumption, MaxLostAssumption
     DEF Init, InitQueue, Base, TypeOK, QueueTypeOK, Sent, WorkerInv, ResultInv, Row, NoRow,
         NoTest, Places

-----------------------------------------------------------------------------
\* Steps of a worker that only move it on and set what it has in memory.
Inner(w) == \/ PollCompleted(w)
            \/ \E kind \in Errors : StartFails(w, kind) \/ PollFails(w, kind)
            \/ GiveUp(w) \/ SaveTestIdFails(w)
            \/ SaveRefused(w) \/ MarkFailedRaises(w)

\* Every step keeps the types; what a worker is at work on is a message.
LEMMA TypeStep == TypeOK /\ (\A w \in Workers : WorkerInv(w)) /\ [Next]_vars => TypeOK'
  <1> SUFFICES ASSUME TypeOK, \A w \in Workers : WorkerInv(w), [Next]_vars PROVE TypeOK'
    OBVIOUS
  <1> USE RetriesAssumption, MaxLostAssumption
  <1> USE DEF TypeOK, QueueTypeOK, Goto, Raise, Places, Errors, Reports
  <1>1. ASSUME NEW r \in Reports,
               SubmitGtmetrix(r) \/ OnCommit(r) \/ OnCommitLost(r) \/ DeleteReport(r)
        PROVE  TypeOK'
    <2>1. <<r, 0>> \in Messages
      BY MessagesMake
    <2>2. CASE SubmitGtmetrix(r) \/ DeleteReport(r)
      <3>1. [report[r] EXCEPT !.status = "pending"] \in Row
            /\ [report[r] EXCEPT !.is_deleted = TRUE] \in Row
        BY DEF Row
      <3>2. report' \in [Reports -> Row]
        BY <2>2, <3>1 DEF SubmitGtmetrix, DeleteReport
      <3> QED BY <2>2, <3>2 DEF SubmitGtmetrix, DeleteReport, taskVars, ghostVars, queueVars
    <2>3. CASE OnCommit(r)
      BY <2>1, <2>3 DEF OnCommit, Delay, taskVars, ghostVars
    <2>4. CASE OnCommitLost(r)
      BY <2>4 DEF OnCommitLost, PublisherLost, taskVars, ghostVars
    <2> QED BY <1>1, <2>2, <2>3, <2>4
  <1>2. ASSUME NEW r \in Reports, NEW i \in DOMAIN tests[r],
               NEW outcome \in {"completed", "ungraded"}, TestCompletes(r, i, outcome)
        PROVE  TypeOK'
    <2>1. [tests[r] EXCEPT ![i] = outcome] \in Seq(TestStates)
      BY DEF TestStates
    <2>2. tests' = [tests EXCEPT ![r] = [tests[r] EXCEPT ![i] = outcome]]
      BY <1>2 DEF TestCompletes
    <2> QED BY <1>2, <2>1, <2>2 DEF TestCompletes, TestStates, taskVars, siteVars, ghostVars,
       queueVars
  <1>3. ASSUME NEW w \in Workers, NEW m \in Messages, TakeMessage(w, m) PROVE TypeOK'
    <2>1. report[m[1]] \in Row
      BY MessagesMake
    <2> QED BY <1>3, <2>1 DEF TakeMessage, Deliver, siteVars, ghostVars
  <1>4. ASSUME NEW w \in Workers, StartTest(w) \/ StartReplyLost(w) PROVE TypeOK'
    <2>1. JobOf(w) \in Reports
      BY <1>4, HeldIsMessage DEF WorkerInv, StartTest, StartReplyLost
    <2>2. Append(tests[JobOf(w)], "unfinished") \in Seq(TestStates)
          /\ Len(tests[JobOf(w)]) + 1 \in Nat
      BY <2>1 DEF TestStates
    <2>3. tests' \in [Reports -> Seq(TestStates)]
      BY <1>4, <2>1, <2>2 DEF StartTest, StartReplyLost, TestStates
    <2>4. copy' \in [Workers -> Row]
      <3>1. [copy[w] EXCEPT !.test_id = Len(tests[JobOf(w)]) + 1] \in Row
        BY <2>2 DEF Row
      <3> QED BY <1>4, <3>1 DEF StartTest, StartReplyLost
    <2>5. lost' \in [Reports -> 0..MaxLost]
      <3>1. lost[JobOf(w)] < MaxLost => lost[JobOf(w)] + 1 \in 0..MaxLost
        BY <2>1
      <3> QED BY <1>4, <3>1 DEF StartTest, StartReplyLost, ghostVars
    <2> QED BY <1>4, <2>3, <2>4, <2>5 DEF StartTest, StartReplyLost, siteVars, ghostVars,
       queueVars, TestStates
  <1>5. ASSUME NEW w \in Workers, SaveTestId(w) \/ MarkFailed(w) \/ SaveReport(w) PROVE TypeOK'
    <2>1. copy[w] \in Row /\ copy[w].test_id \in Nat
      BY DEF Row
    <2>4. JobOf(w) \in Reports
      BY <1>5, HeldIsMessage DEF WorkerInv, SaveTestId, MarkFailed, SaveReport
    <2> DEFINE row == [copy[w] EXCEPT !.status = "completed", !.metrics = copy[w].test_id]
    <2>2. row \in Row
      BY <2>1 DEF Row
    <2>3. report' \in [Reports -> Row]
      <3>1. SaveReport(w) => report' = [report EXCEPT ![JobOf(w)] = row]
        BY DEF SaveReport
      <3>2. SaveReport(w) => report' \in [Reports -> Row]
        <4> HIDE DEF row
        <4> QED BY <2>2, <3>1
      <3>3. ASSUME NEW r \in Reports
            PROVE  [report[r] EXCEPT !.test_id = copy[w].test_id] \in Row
                   /\ [report[r] EXCEPT !.status = "failed"] \in Row
        BY <2>1 DEF Row
      <3>4. SaveTestId(w) => report' \in [Reports -> Row]
        BY <2>4, <3>3 DEF SaveTestId
      <3>5. MarkFailed(w) => report' \in [Reports -> Row]
        BY <2>4, <3>3 DEF MarkFailed
      <3> QED BY <1>5, <3>2, <3>4, <3>5
    <2> QED BY <1>5, <2>3 DEF SaveTestId, MarkFailed, SaveReport, queueVars, ghostVars
  <1>6. ASSUME NEW w \in Workers, Inner(w) PROVE TypeOK'
    <2>1. JobOf(w) \in Reports
      BY <1>6, HeldIsMessage DEF Inner, WorkerInv, PollCompleted, StartFails, PollFails, GiveUp,
         SaveRefused, SaveTestIdFails, MarkFailedRaises
    <2> QED BY <1>6, <2>1 DEF Inner, PollCompleted, StartFails, PollFails, GiveUp, SaveRefused,
       SaveTestIdFails, MarkFailedRaises, TaskRaises, siteVars, ghostVars, queueVars
  <1>7. ASSUME NEW w \in Workers, RetryLater(w) PROVE TypeOK'
    <2>1. held[w] # NoMessage
      BY <1>7 DEF WorkerInv, RetryLater
    <2>2. <<JobOf(w), RetriesOf(w) + 1>> \in Messages
      BY <1>7, <2>1, HeldIsMessage, MessagesMake DEF RetryLater, Retry, JobOf, RetriesOf
    <2> QED BY <1>7, <2>2 DEF RetryLater, Retry, siteVars, ghostVars
  <1>8. ASSUME NEW w \in Workers, Finish(w) \/ WorkerDies(w) PROVE TypeOK'
    <2>1. NoRow \in Row
      BY DEF NoRow, Row, NoTest
    <2>2. copy' \in [Workers -> Row] /\ exc' \in [Workers -> Errors \cup {"none"}]
      BY <1>8, <2>1 DEF Finish, WorkerDies, Forget
    <2>3. CASE Finish(w)
      BY <2>3, <2>2 DEF Finish, Acknowledge, siteVars, ghostVars
    <2>4. CASE WorkerDies(w)
      <3>1. held[w] \in Messages /\ queue[held[w]] \in Nat
        BY <2>4, HeldIsMessage DEF WorkerDies, WorkerLost
      <3>2. queue' \in [Messages -> Nat] /\ crashes' \in 0..MaxCrashes
        BY <2>4, <3>1 DEF WorkerDies, WorkerLost
      <3>3. held' \in [Workers -> Messages \cup {NoMessage}]
        BY <2>4 DEF WorkerDies, WorkerLost
      <3> QED BY <2>2, <2>4, <3>2, <3>3 DEF WorkerDies, siteVars, ghostVars
    <2> QED BY <1>8, <2>3, <2>4
  <1>9. CASE UNCHANGED vars
    BY <1>9 DEF vars, queueVars, siteVars, ghostVars, taskVars
  <1> QED BY <1>1, <1>2, <1>3, <1>4, <1>5, <1>6, <1>7, <1>8, <1>9
          DEF Next, WorkerStep, Inner, AllStopped

-----------------------------------------------------------------------------
\* What the steps do to the messages and to the places of the workers.

Busy(w) == held[w] # NoMessage /\ at[w] # "finished"

\* A worker goes on with its message.
Work(w) == /\ Busy(w)
           /\ \A v \in Workers : v # w => at'[v] = at[v]
           /\ at'[w] # "idle"
           /\ UNCHANGED <<queueVars, submit>>

\* Nothing moves but a request or a row, or a process dies that has no message.
Elsewhere == /\ UNCHANGED <<queue, held, at>>
             /\ \A r \in Reports : submit[r] = "queued" <=> submit'[r] = "queued"

Moves == \/ Elsewhere
         \/ \E r \in Reports : OnCommit(r)
         \/ \E w \in Workers, m \in Messages : TakeMessage(w, m)
         \/ \E w \in Workers : Work(w) \/ RetryLater(w) \/ Finish(w) \/ WorkerDies(w)

\* Of queue, workers and places a step changes what one of the Moves changes.
LEMMA StepsAreMoves ==
    ASSUME TypeOK, \A w \in Workers : WorkerInv(w), [Next]_vars
    PROVE  Moves
  <1>1. ASSUME NEW r \in Reports, SubmitGtmetrix(r) \/ OnCommitLost(r) \/ DeleteReport(r)
        PROVE  Elsewhere
    BY <1>1 DEF SubmitGtmetrix, OnCommitLost, DeleteReport, PublisherLost, Elsewhere, TypeOK,
       taskVars, ghostVars, queueVars
  <1>2. ASSUME NEW r \in Reports, NEW i \in DOMAIN tests[r],
               NEW outcome \in {"completed", "ungraded"}, TestCompletes(r, i, outcome)
        PROVE  Elsewhere
    BY <1>2 DEF TestCompletes, Elsewhere, taskVars, ghostVars, queueVars, siteVars
  <1>3. ASSUME NEW w \in Workers,
               StartTest(w) \/ StartReplyLost(w) \/ SaveTestId(w) \/ MarkFailed(w)
                  \/ SaveReport(w) \/ Inner(w)
        PROVE  Work(w)
    BY <1>3 DEF StartTest, StartReplyLost, SaveTestId, MarkFailed, SaveReport, Inner,
       PollCompleted, StartFails, PollFails, GiveUp, SaveRefused, SaveTestIdFails,
       MarkFailedRaises, TaskRaises, Goto, Raise, Work, Busy, WorkerInv, TypeOK, siteVars,
       ghostVars, queueVars
  <1>4. ASSUME UNCHANGED vars PROVE Elsewhere
    <2>1. UNCHANGED <<queue, held, at, submit>>
      BY <1>4 DEF vars, queueVars, siteVars, ghostVars, taskVars
    <2> QED BY <2>1 DEF Elsewhere
  <1> QED BY <1>1, <1>2, <1>3, <1>4 DEF Next, WorkerStep, Inner, AllStopped, Moves

\* Only the submission that commits makes the first message about a report.
LEMMA SentStep == Base /\ [Next]_vars => Sent'
  <1> SUFFICES ASSUME Base, [Next]_vars PROVE Sent'
    OBVIOUS
  <1> TypeOK /\ Sent /\ (\A w \in Workers : WorkerInv(w)) /\ Moves
    BY StepsAreMoves DEF Base
  <1> USE DEF Sent, JobOf, TypeOK, QueueTypeOK
  <1>1. CASE Elsewhere
    <2>1. \A m \in Messages : m[1] \in Reports
      BY MessagesMake
    <2>2. \A w \in Workers : held[w] # NoMessage => held[w][1] \in Reports
      BY <2>1
    <2> QED BY <1>1, <2>1, <2>2 DEF Elsewhere
  <1>2. ASSUME NEW r \in Reports, OnCommit(r) PROVE Sent'
    <2>1. <<r, 0>> \in Messages /\ <<r, 0>>[1] = r
      BY MessagesMake
    <2>2. \A m \in Messages : m # <<r, 0>> => queue'[m] = queue[m]
      BY <1>2 DEF OnCommit, Delay
    <2>3. submit' = [submit EXCEPT ![r] = "queued"] /\ held' = held
      BY <1>2 DEF OnCommit, Delay
    <2>4. \A q \in Reports : submit[q] = "queued" => submit'[q] = "queued"
      BY <2>3
    <2>5. submit'[r] = "queued"
      BY <2>3
    <2>6. \A m \in Messages : m[1] \in Reports
      BY MessagesMake
    <2>7. \A w \in Workers : held[w] # NoMessage => held[w][1] \in Reports
      BY <2>6
    <2> QED BY <2>1, <2>2, <2>3, <2>4, <2>5, <2>6, <2>7
  <1>3. ASSUME NEW w \in Workers, NEW m \in Messages, TakeMessage(w, m) PROVE Sent'
    BY <1>3 DEF TakeMessage, Deliver, siteVars, ghostVars
  <1>4. ASSUME NEW w \in Workers, Work(w) PROVE Sent'
    BY <1>4 DEF Work, queueVars, ghostVars
  <1>5. ASSUME NEW w \in Workers, RetryLater(w) PROVE Sent'
    <2>1. submit[JobOf(w)] = "queued"
      BY <1>5 DEF RetryLater, WorkerInv
    <2> DEFINE m == <<JobOf(w), RetriesOf(w) + 1>>
    <2>2. m[1] = JobOf(w) /\ queue' = [queue EXCEPT ![m] = @ + 1] /\ UNCHANGED <<held, submit>>
      BY <1>5 DEF RetryLater, Retry, siteVars, ghostVars
    <2> HIDE DEF m
    <2> QED BY <2>1, <2>2
  <1>6. ASSUME NEW w \in Workers, Finish(w) \/ WorkerDies(w) PROVE Sent'
    BY <1>6 DEF Finish, Acknowledge, WorkerDies, WorkerLost, siteVars, ghostVars
  <1> QED BY <1>1, <1>2, <1>3, <1>4, <1>5, <1>6 DEF Moves

-----------------------------------------------------------------------------
\* Tests are only added, and one that completed does not change any more.
Kept(r) == /\ DOMAIN tests[r] \subseteq DOMAIN tests'[r]
           /\ \A i \in DOMAIN tests[r] :
                 tests[r][i] # "unfinished" => tests'[r][i] = tests[r][i]

\* Tests are only ever added, and one that is over keeps its outcome.
LEMMA TestsKept ==
    ASSUME TypeOK, [Next]_vars, NEW r \in Reports
    PROVE  Kept(r)
  <1>1. ASSUME tests' = tests PROVE Kept(r)
    BY <1>1 DEF Kept
  <1>2. ASSUME NEW q \in Reports, NEW i \in DOMAIN tests[q],
               NEW outcome \in {"completed", "ungraded"}, TestCompletes(q, i, outcome)
        PROVE  Kept(r)
    <2>1. tests[q] \in Seq(TestStates) /\ tests[q][i] = "unfinished"
      BY <1>2 DEF TypeOK, TestStates, TestCompletes
    <2>2. tests' = [tests EXCEPT ![q] = [tests[q] EXCEPT ![i] = outcome]]
      BY <1>2 DEF TestCompletes
    <2>3. CASE q # r
      <3>1. tests'[r] = tests[r]
        BY <2>2, <2>3 DEF TypeOK
      <3> QED BY <3>1 DEF Kept
    <2>4. CASE q = r
      <3>1. tests'[r] = [tests[r] EXCEPT ![i] = outcome]
        BY <2>2, <2>4 DEF TypeOK
      <3> QED BY <2>1, <2>4, <3>1 DEF Kept
    <2> QED BY <2>3, <2>4
  <1>3. ASSUME NEW w \in Workers, StartTest(w) \/ StartReplyLost(w) PROVE Kept(r)
    <2>1. tests' = [tests EXCEPT ![JobOf(w)] = Append(@, "unfinished")]
      BY <1>3 DEF StartTest, StartReplyLost
    <2>2. tests[r] \in Seq(TestStates)
      BY DEF TypeOK, TestStates
    <2>3. tests'[r] = tests[r] \/ tests'[r] = Append(tests[r], "unfinished")
      BY <2>1 DEF TypeOK
    <2> QED BY <2>2, <2>3 DEF Kept
  <1>4. UNCHANGED vars => tests' = tests
    BY DEF vars
  <1> QED BY <1>1, <1>2, <1>3, <1>4 DEF Next, WorkerStep, AllStopped, SubmitGtmetrix, OnCommit,
     OnCommitLost, DeleteReport, TakeMessage, SaveTestId, PollCompleted, StartFails, PollFails,
     MarkFailed, RetryLater, GiveUp, SaveReport, SaveRefused, SaveTestIdFails, MarkFailedRaises,
     TaskRaises, Finish, WorkerDies

\* What a place says of its worker holds after every step, of that worker or of another.
LEMMA WorkersStep ==
    ASSUME Base, [Next]_vars, NEW v \in Workers
    PROVE  WorkerInv(v)'
  <1> TypeOK /\ Sent /\ WorkerInv(v) /\ (\A w \in Workers : WorkerInv(w))
    BY DEF Base
  <1> DEFINE r == JobOf(v)
  <1>1. held[v] # NoMessage => Kept(r)
    BY HeldIsMessage, TestsKept
  <1>2. ASSUME held'[v] = held[v], at'[v] = at[v], copy'[v] = copy[v] PROVE WorkerInv(v)'
    <2>1. JobOf(v)' = r
      BY <1>2 DEF JobOf
    <2>2. CASE at[v] \notin {"started", "polling", "saving"}
      BY <1>2, <2>2 DEF WorkerInv
    <2>3. CASE at[v] \in {"started", "polling", "saving"}
      <3>1. /\ held[v] # NoMessage /\ copy[v].test_id \in DOMAIN tests[r]
            /\ at[v] = "saving" => tests[r][copy[v].test_id] \in {"completed", "ungraded"}
        BY <2>3 DEF WorkerInv
      <3>2. /\ copy[v].test_id \in DOMAIN tests'[r]
            /\ at[v] = "saving" => tests'[r][copy[v].test_id] \in {"completed", "ungraded"}
        BY <1>1, <3>1 DEF Kept
      <3> QED BY <1>2, <2>1, <2>3, <3>1, <3>2 DEF WorkerInv
    <2> QED BY <2>2, <2>3
  <1>3. ASSUME UNCHANGED <<held, at, copy>> PROVE WorkerInv(v)'
    BY <1>2, <1>3
  <1>4. ASSUME NEW w \in Workers, NEW m \in Messages, TakeMessage(w, m) PROVE WorkerInv(v)'
    <2>1. m[1] \in Reports /\ m # NoMessage
      BY MessagesMake, NoMessageAssumption
    <2>2. CASE w # v
      <3>1. held'[v] = held[v] /\ at'[v] = at[v] /\ copy'[v] = copy[v]
        BY <1>4, <2>2 DEF TakeMessage, Deliver, Goto, TypeOK, QueueTypeOK
      <3> QED BY <1>2, <3>1
    <2>3. CASE w = v
      <3>1. held'[v] = m /\ copy'[v] = report[m[1]] /\ tests' = tests
        BY <1>4, <2>3 DEF TakeMessage, Deliver, TypeOK, QueueTypeOK
      <3>2. /\ at'[v] \in {"finished", "starting", "polling"}
            /\ at'[v] = "polling" => report[m[1]].test_id # NoTest
        BY <1>4, <2>3 DEF TakeMessage, Goto, TypeOK
      <3>3. at'[v] = "polling" => copy'[v].test_id \in DOMAIN tests'[m[1]]
        BY <2>1, <3>1, <3>2 DEF Base, ResultInv
      <3> QED BY <2>1, <3>1, <3>2, <3>3 DEF WorkerInv, JobOf
    <2> QED BY <2>2, <2>3
  <1>5. ASSUME NEW w \in Workers, w # v, WorkerStep(w) \/ WorkerDies(w) PROVE WorkerInv(v)'
    <2>1. copy'[v] = copy[v] /\ at'[v] = at[v]
      BY <1>5 DEF WorkerStep, StartTest, StartReplyLost, SaveTestId, PollCompleted, StartFails,
         PollFails, MarkFailed, RetryLater, GiveUp, SaveReport, SaveRefused, SaveTestIdFails,
         MarkFailedRaises, TaskRaises, Finish, WorkerDies, Forget, Goto, Raise, TypeOK
    <2>2. held'[v] = held[v]
      BY <1>5 DEF WorkerStep, StartTest, StartReplyLost, SaveTestId, PollCompleted, StartFails,
         PollFails, MarkFailed, RetryLater, GiveUp, SaveReport, SaveRefused, SaveTestIdFails,
         MarkFailedRaises, TaskRaises, Finish, WorkerDies, WorkerLost, Acknowledge, Retry,
         queueVars, TypeOK, QueueTypeOK
    <2> QED BY <1>2, <2>1, <2>2
  <1>6. CASE StartTest(v)
    <2>1. held[v] # NoMessage /\ JobOf(v) \in Reports
      BY <1>6, HeldIsMessage DEF StartTest, WorkerInv
    <2>2. tests[r] \in Seq(TestStates)
      BY <2>1 DEF TypeOK, TestStates
    <2>3. tests'[r] = Append(tests[r], "unfinished") /\ held' = held
      BY <1>6, <2>1 DEF StartTest, TypeOK, queueVars, ghostVars
    <2>4. copy' = [copy EXCEPT ![v] = [copy[v] EXCEPT !.test_id = Len(tests[r]) + 1]]
      BY <1>6 DEF StartTest
    <2>5. copy'[v].test_id = Len(tests[r]) + 1
      BY <2>4 DEF TypeOK, Row
    <2>6. at'[v] = "started"
      BY <1>6 DEF StartTest, Goto, TypeOK
    <2>7. copy'[v].test_id \in DOMAIN tests'[r]
      BY <2>2, <2>3, <2>5
    <2> QED BY <2>1, <2>3, <2>6, <2>7 DEF WorkerInv, JobOf
  <1>7. CASE SaveTestId(v)
    <2>1. at'[v] = "polling" /\ at[v] = "started"
          /\ UNCHANGED <<held, tests, copy>>
      BY <1>7 DEF SaveTestId, Goto, TypeOK, queueVars, ghostVars
    <2> QED BY <2>1 DEF WorkerInv, JobOf
  <1>8. CASE PollCompleted(v)
    <2>1. /\ at'[v] = "saving" /\ at[v] = "polling"
          /\ tests[r][copy[v].test_id] \in {"completed", "ungraded"}
          /\ UNCHANGED <<held, tests, copy>>
      BY <1>8 DEF PollCompleted, Goto, TypeOK, queueVars, ghostVars
    <2> QED BY <2>1 DEF WorkerInv, JobOf
  <1>9. ASSUME \/ StartReplyLost(v) \/ MarkFailed(v) \/ RetryLater(v) \/ GiveUp(v)
               \/ SaveReport(v) \/ SaveRefused(v) \/ SaveTestIdFails(v) \/ MarkFailedRaises(v)
               \/ \E kind \in Errors : StartFails(v, kind) \/ PollFails(v, kind)
        PROVE  WorkerInv(v)'
    <2>1. /\ held' = held /\ at[v] # "idle"
          /\ at'[v] \in {"failing", "raised", "finished"}
      BY <1>9 DEF StartReplyLost, MarkFailed, RetryLater, GiveUp, SaveReport, SaveRefused,
         SaveTestIdFails, MarkFailedRaises, TaskRaises, StartFails, PollFails, Goto, Raise,
         Retry, TypeOK, queueVars, ghostVars
    <2> QED BY <2>1 DEF WorkerInv
  <1>10. ASSUME Finish(v) \/ WorkerDies(v) PROVE WorkerInv(v)'
    <2>1. held'[v] = NoMessage /\ at'[v] = "idle"
      BY <1>10 DEF Finish, WorkerDies, Acknowledge, WorkerLost, Goto, TypeOK, QueueTypeOK
    <2> QED BY <2>1 DEF WorkerInv
  <1>11. ASSUME WorkerStep(v) \/ WorkerDies(v) PROVE WorkerInv(v)'
    BY <1>6, <1>7, <1>8, <1>9, <1>10, <1>11 DEF WorkerStep
  <1>12. ASSUME NEW q \in Reports, SubmitGtmetrix(q) \/ OnCommit(q) \/ OnCommitLost(q)
                                       \/ DeleteReport(q)
         PROVE  UNCHANGED <<held, at, copy>>
    BY <1>12 DEF SubmitGtmetrix, OnCommit, OnCommitLost, DeleteReport, Delay, PublisherLost,
       taskVars, ghostVars, queueVars
  <1>13. ASSUME NEW q \in Reports, NEW i, NEW outcome, TestCompletes(q, i, outcome)
         PROVE  UNCHANGED <<held, at, copy>>
    BY <1>13 DEF TestCompletes, taskVars, ghostVars, queueVars
  <1>14. UNCHANGED vars => UNCHANGED <<held, at, copy>>
    BY DEF vars, taskVars, ghostVars, queueVars
  <1> QED BY <1>3, <1>4, <1>5, <1>11, <1>12, <1>13, <1>14 DEF Next, AllStopped

-----------------------------------------------------------------------------
\* What a step does to the row of a report.
RowSame(r) == report'[r] = report[r]

RowSaved(w, r) == /\ at[w] = "saving" /\ JobOf(w) = r
                  /\ tests[r][copy[w].test_id] = "completed"
                  /\ report'[r].status = "completed"
                  /\ report'[r].metrics = copy[w].test_id
                  /\ report'[r].test_id = copy[w].test_id
                  /\ at'[w] = "finished"
                  /\ UNCHANGED tests

RowNamed(w, r) == /\ at[w] = "started" /\ JobOf(w) = r
                  /\ report'[r].test_id = copy[w].test_id
                  /\ report'[r].status = report[r].status
                  /\ report'[r].metrics = report[r].metrics

RowFailed(w, r) == /\ at[w] = "failing" /\ JobOf(w) = r
                   /\ report'[r].status = "failed"
                   /\ report'[r].test_id = report[r].test_id

RowPending(r) == /\ SubmitGtmetrix(r)
                 /\ report'[r].status = "pending"
                 /\ report'[r].test_id = report[r].test_id

RowHidden(r) == /\ DeleteReport(r)
                /\ report'[r].status = report[r].status
                /\ report'[r].test_id = report[r].test_id
                /\ report'[r].metrics = report[r].metrics

RowMoves(r) == \/ RowSame(r) \/ RowPending(r) \/ RowHidden(r)
               \/ \E w \in Workers : RowSaved(w, r) \/ RowNamed(w, r) \/ RowFailed(w, r)

\* A report's row changes by what a submission, a delete or one worker writes.
LEMMA RowsMove ==
    ASSUME Base, [Next]_vars, NEW r \in Reports
    PROVE  RowMoves(r)
  <1> TypeOK /\ report[r] \in Row
    BY DEF Base, TypeOK
  <1>1. ASSUME report' = report PROVE RowMoves(r)
    BY <1>1 DEF RowMoves, RowSame
  <1>2. ASSUME NEW q \in Reports, SubmitGtmetrix(q) PROVE RowMoves(r)
    <2>1. report' = [report EXCEPT ![q] = [report[q] EXCEPT !.status = "pending"]]
      BY <1>2 DEF SubmitGtmetrix
    <2>2. q # r => report'[r] = report[r]
      BY <2>1 DEF TypeOK
    <2>3. q = r => /\ report'[r].status = "pending" /\ report'[r].test_id = report[r].test_id
      BY <2>1 DEF TypeOK, Row
    <2> QED BY <1>2, <2>2, <2>3 DEF RowMoves, RowSame, RowPending
  <1>3. ASSUME NEW q \in Reports, DeleteReport(q) PROVE RowMoves(r)
    <2>1. report' = [report EXCEPT ![q] = [report[q] EXCEPT !.is_deleted = TRUE]]
      BY <1>3 DEF DeleteReport
    <2>2. q # r => report'[r] = report[r]
      BY <2>1 DEF TypeOK
    <2>3. q = r => /\ report'[r].status = report[r].status
                   /\ report'[r].test_id = report[r].test_id
                   /\ report'[r].metrics = report[r].metrics
      BY <2>1 DEF TypeOK, Row
    <2> QED BY <1>3, <2>2, <2>3 DEF RowMoves, RowSame, RowHidden
  <1>4. ASSUME NEW w \in Workers, SaveReport(w) PROVE RowMoves(r)
    <2> DEFINE row == [copy[w] EXCEPT !.status = "completed", !.metrics = copy[w].test_id]
    <2>1. report' = [report EXCEPT ![JobOf(w)] = row]
      BY <1>4 DEF SaveReport
    <2>2. /\ row.status = "completed" /\ row.metrics = copy[w].test_id
          /\ row.test_id = copy[w].test_id
      BY DEF TypeOK, Row
    <2> HIDE DEF row
    <2>3. JobOf(w) # r => report'[r] = report[r]
      BY <2>1 DEF TypeOK
    <2>4. JobOf(w) = r => report'[r] = row
      BY <2>1 DEF TypeOK
    <2> QED BY <1>4, <2>2, <2>3, <2>4
            DEF RowMoves, RowSame, RowSaved, SaveReport, Goto, TypeOK
  <1>5. ASSUME NEW w \in Workers, SaveTestId(w) PROVE RowMoves(r)
    <2>1. report' = [report EXCEPT ![JobOf(w)] = [report[JobOf(w)] EXCEPT
                                                    !.test_id = copy[w].test_id]]
      BY <1>5 DEF SaveTestId
    <2>2. JobOf(w) # r => report'[r] = report[r]
      BY <2>1 DEF TypeOK
    <2>3. JobOf(w) = r => report'[r] = [report[r] EXCEPT !.test_id = copy[w].test_id]
      BY <2>1 DEF TypeOK
    <2>4. JobOf(w) = r => /\ report'[r].test_id = copy[w].test_id
                          /\ report'[r].status = report[r].status
                          /\ report'[r].metrics = report[r].metrics
      BY <2>3 DEF TypeOK, Row
    <2> QED BY <1>5, <2>2, <2>4 DEF RowMoves, RowSame, RowNamed, SaveTestId
  <1>6. ASSUME NEW w \in Workers, MarkFailed(w) PROVE RowMoves(r)
    <2>1. report' = [report EXCEPT ![JobOf(w)] = [report[JobOf(w)] EXCEPT !.status = "failed"]]
      BY <1>6 DEF MarkFailed
    <2>2. JobOf(w) # r => report'[r] = report[r]
      BY <2>1 DEF TypeOK
    <2>3. JobOf(w) = r => /\ report'[r].status = "failed"
                          /\ report'[r].test_id = report[r].test_id
      BY <2>1 DEF TypeOK, Row
    <2> QED BY <1>6, <2>2, <2>3 DEF RowMoves, RowSame, RowFailed, MarkFailed
  <1>7. UNCHANGED vars => report' = report
    BY DEF vars, siteVars, ghostVars
  <1> QED BY <1>1, <1>2, <1>3, <1>4, <1>5, <1>6, <1>7 DEF Next, WorkerStep, AllStopped,
     OnCommit, OnCommitLost, TestCompletes, TakeMessage, StartTest, StartReplyLost,
     PollCompleted, StartFails, PollFails, RetryLater, GiveUp, SaveRefused, SaveTestIdFails,
     MarkFailedRaises, TaskRaises, Finish, WorkerDies, siteVars, ghostVars

\* The result a row shows and the test id it stores stay ones of its own tests.
LEMMA ResultsStep ==
    ASSUME Base, [Next]_vars, NEW r \in Reports
    PROVE  ResultInv(r)'
  <1>1. Kept(r) /\ RowMoves(r) /\ ResultInv(r) /\ (\A w \in Workers : WorkerInv(w))
    BY TestsKept, RowsMove DEF Base
  <1>2. CASE RowSame(r) \/ RowHidden(r)
    BY <1>1, <1>2 DEF RowSame, RowHidden, ResultInv, Kept
  <1>3. CASE RowPending(r)
    BY <1>1, <1>3 DEF RowPending, ResultInv, Kept
  <1>4. ASSUME NEW w \in Workers, RowSaved(w, r) PROVE ResultInv(r)'
    BY <1>1, <1>4 DEF RowSaved, ResultInv, WorkerInv
  <1>5. ASSUME NEW w \in Workers, RowNamed(w, r) PROVE ResultInv(r)'
    BY <1>1, <1>5 DEF RowNamed, ResultInv, WorkerInv, Kept
  <1>6. ASSUME NEW w \in Workers, RowFailed(w, r) PROVE ResultInv(r)'
    BY <1>1, <1>6 DEF RowFailed, ResultInv, Kept
  <1> QED BY <1>1, <1>2, <1>3, <1>4, <1>5, <1>6 DEF RowMoves

\* The base invariant is inductive.
LEMMA BaseStep == Base /\ [Next]_vars => Base'
  <1> SUFFICES ASSUME Base, [Next]_vars PROVE Base'
    OBVIOUS
  <1>1. TypeOK'
    BY TypeStep DEF Base
  <1>2. Sent'
    BY SentStep
  <1>3. (\A w \in Workers : WorkerInv(w))'
    BY WorkersStep
  <1>4. (\A r \in Reports : ResultInv(r))'
    BY ResultsStep
  <1> QED BY <1>1, <1>2, <1>3, <1>4 DEF Base

\* Reports, tests and attempts stay well formed (gtmetrix/models, the columns of
\* GTmetrixReport; tasks.py, the two arguments of a message).
THEOREM GTmetrixTypeCorrect == Spec => []TypeOK
  <1>1. Base => TypeOK
    BY DEF Base
  <1> QED BY BaseInit, BaseStep, <1>1, PTL DEF Spec

-----------------------------------------------------------------------------
\* While no process died a report has one message, waiting or worked on; what
\* is held at "finished" only waits for its acknowledgement.
OneAtATime ==
    /\ \A m \in Messages : queue[m] <= 1
    /\ \A m, n \in Messages : queue[m] > 0 /\ queue[n] > 0 /\ m[1] = n[1] => m = n
    /\ \A m \in Messages, w \in Workers : queue[m] > 0 /\ Busy(w) => JobOf(w) # m[1]
    /\ \A w, v \in Workers : Busy(w) /\ Busy(v) /\ JobOf(w) = JobOf(v) => w = v

\* No attempt at report r is to come or under way.
Quiet(r) == /\ \A m \in Messages : queue[m] > 0 => m[1] # r
            /\ \A w \in Workers : Busy(w) => JobOf(w) # r

\* The count of processes that died never goes down.
LEMMA CrashesGrow ==
    ASSUME TypeOK, [Next]_vars
    PROVE  /\ crashes \in Nat
           /\ crashes' = crashes \/ crashes' = crashes + 1
  <1>1. crashes \in Nat
    BY RetriesAssumption DEF TypeOK, QueueTypeOK
  <1>2. UNCHANGED vars => crashes' = crashes
    BY DEF vars, queueVars, ghostVars
  <1>3. \A w \in Workers : WorkerDies(w) => crashes' = crashes + 1
    BY DEF WorkerDies, WorkerLost
  <1>4. \A r \in Reports : OnCommitLost(r) => crashes' = crashes + 1
    BY DEF OnCommitLost, PublisherLost
  <1> QED BY <1>1, <1>2, <1>3, <1>4 DEF Next, WorkerStep, AllStopped, SubmitGtmetrix, OnCommit,
     DeleteReport, TakeMessage, TestCompletes, StartTest, StartReplyLost, SaveTestId,
     PollCompleted, StartFails, PollFails, MarkFailed, RetryLater, GiveUp, SaveReport,
     SaveRefused, SaveTestIdFails, MarkFailedRaises, TaskRaises, Finish, Delay, Deliver, Retry,
     Acknowledge, queueVars, ghostVars

\* Without a crash, a retry is published by the one attempt there is, which then ends.
LEMMA OneAtATimeStep ==
    ASSUME Base, OneAtATime, [Next]_vars, crashes = 0, crashes' = 0
    PROVE  OneAtATime'
  <1> TypeOK /\ Sent /\ (\A w \in Workers : WorkerInv(w)) /\ Moves
    BY StepsAreMoves DEF Base
  <1> QueueTypeOK /\ at \in [Workers -> Places]
    BY DEF TypeOK
  <1> USE DEF QueueTypeOK, OneAtATime, JobOf, Busy
  <1>1. CASE Elsewhere
    BY <1>1 DEF Elsewhere
  <1>2. ASSUME NEW r \in Reports, OnCommit(r) PROVE OneAtATime'
    <2>1. <<r, 0>> \in Messages /\ <<r, 0>>[1] = r
      BY MessagesMake
    <2>2. /\ \A m \in Messages : m[1] = r => ~(queue[m] > 0)
          /\ \A w \in Workers : held[w] # NoMessage => JobOf(w) # r
      BY <1>2 DEF OnCommit, Sent
    <2>3. queue' = [queue EXCEPT ![<<r, 0>>] = @ + 1] /\ held' = held /\ at' = at
      BY <1>2 DEF OnCommit, Delay, taskVars
    <2>4. \A m \in Messages : /\ m # <<r, 0>> => queue'[m] = queue[m]
                              /\ queue'[<<r, 0>>] = 1
      BY <2>1, <2>2, <2>3
    <2> QED BY <2>1, <2>2, <2>3, <2>4
  <1>3. ASSUME NEW w \in Workers, NEW m \in Messages, TakeMessage(w, m) PROVE OneAtATime'
    <2>1. /\ held[w] = NoMessage /\ queue[m] = 1
          /\ \A n \in Messages : /\ n # m => queue'[n] = queue[n]
                                 /\ queue'[m] = 0
          /\ \A v \in Workers : /\ v # w => held'[v] = held[v] /\ at'[v] = at[v]
                                /\ held'[w] = m
      BY <1>3 DEF TakeMessage, Deliver, Goto
    <2>2. \A n \in Messages : queue'[n] <= 1 /\ (queue'[n] > 0 => n # m /\ queue[n] > 0)
      BY <2>1
    <2>3. \A n \in Messages : queue'[n] > 0 => n[1] # m[1]
      BY <2>1, <2>2
    <2> QED BY <2>1, <2>2, <2>3
  <1>4. ASSUME NEW w \in Workers, Work(w) PROVE OneAtATime'
    <2>1. /\ queue' = queue /\ held' = held
          /\ \A v \in Workers : v # w => at'[v] = at[v]
      BY <1>4 DEF Work, queueVars, ghostVars
    <2>2. \A v \in Workers : Busy(v)' => Busy(v)
      BY <1>4, <2>1 DEF Work
    <2> QED BY <2>1, <2>2
  <1>5. ASSUME NEW w \in Workers, RetryLater(w) PROVE OneAtATime'
    <2> DEFINE m == <<JobOf(w), RetriesOf(w) + 1>>
    <2>1. held[w] # NoMessage /\ Busy(w)
      BY <1>5 DEF RetryLater, WorkerInv
    <2>2. m \in Messages /\ m[1] = JobOf(w)
      BY <1>5, <2>1, HeldIsMessage, MessagesMake DEF RetryLater, Retry, RetriesOf
    <2>3. \A n \in Messages : n[1] = JobOf(w) => queue[n] = 0
      BY <2>1
    <2>4. \A n \in Messages : /\ n # m => queue'[n] = queue[n]
                              /\ queue'[m] = 1
      BY <1>5, <2>2, <2>3 DEF RetryLater, Retry
    <2>5. /\ held' = held /\ at'[w] = "finished"
          /\ \A v \in Workers : v # w => at'[v] = at[v]
      BY <1>5 DEF RetryLater, Retry, Goto
    <2> HIDE DEF m
    <2>6. \A v \in Workers : Busy(v)' => Busy(v) /\ v # w
      BY <2>5
    <2>7. \A v \in Workers : Busy(v)' => JobOf(v) # JobOf(w)
      BY <2>1, <2>6
    <2> QED BY <2>2, <2>3, <2>4, <2>5, <2>6, <2>7
  <1>6. ASSUME NEW w \in Workers, Finish(w) PROVE OneAtATime'
    BY <1>6 DEF Finish, Acknowledge, Goto
  <1>7. ASSUME NEW w \in Workers, WorkerDies(w) PROVE FALSE
    BY <1>7 DEF WorkerDies, WorkerLost
  <1> QED BY <1>1, <1>2, <1>3, <1>4, <1>5, <1>6, <1>7 DEF Moves

\* Once no attempt at a report may write, none appears as long as no process dies.
LEMMA QuietStays ==
    ASSUME Base, [Next]_vars, crashes = 0, crashes' = 0, NEW r \in Reports, Quiet(r),
           ~OnCommit(r)
    PROVE  Quiet(r)'
  <1> TypeOK /\ (\A w \in Workers : WorkerInv(w)) /\ Moves
    BY StepsAreMoves DEF Base
  <1> QueueTypeOK /\ at \in [Workers -> Places]
    BY DEF TypeOK
  <1> USE DEF QueueTypeOK, Quiet, JobOf, Busy
  <1>1. CASE Elsewhere
    BY <1>1 DEF Elsewhere
  <1>2. ASSUME NEW q \in Reports, OnCommit(q) PROVE Quiet(r)'
    <2>1. q # r /\ <<q, 0>>[1] = q /\ <<q, 0>> \in Messages
      BY <1>2, MessagesMake
    <2>2. \A m \in Messages : m # <<q, 0>> => queue'[m] = queue[m]
      BY <1>2 DEF OnCommit, Delay
    <2> QED BY <1>2, <2>1, <2>2 DEF OnCommit, Delay, taskVars
  <1>3. ASSUME NEW w \in Workers, NEW m \in Messages, TakeMessage(w, m) PROVE Quiet(r)'
    BY <1>3 DEF TakeMessage, Deliver, Goto
  <1>4. ASSUME NEW w \in Workers, Work(w) PROVE Quiet(r)'
    <2>1. /\ queue' = queue /\ held' = held
          /\ \A v \in Workers : v # w => at'[v] = at[v]
      BY <1>4 DEF Work, queueVars, ghostVars
    <2>2. \A v \in Workers : Busy(v)' => Busy(v)
      BY <1>4, <2>1 DEF Work
    <2> QED BY <2>1, <2>2
  <1>5. ASSUME NEW w \in Workers, RetryLater(w) PROVE Quiet(r)'
    <2> DEFINE m == <<JobOf(w), RetriesOf(w) + 1>>
    <2>1. held[w] # NoMessage /\ JobOf(w) # r
      BY <1>5 DEF RetryLater, WorkerInv
    <2>2. m \in Messages /\ m[1] # r
      BY <1>5, <2>1, HeldIsMessage, MessagesMake DEF RetryLater, Retry, RetriesOf
    <2>3. \A n \in Messages : n # m => queue'[n] = queue[n]
      BY <1>5 DEF RetryLater, Retry
    <2>4. /\ held' = held /\ at'[w] = "finished"
          /\ \A v \in Workers : v # w => at'[v] = at[v]
      BY <1>5 DEF RetryLater, Retry, Goto
    <2> HIDE DEF m
    <2> QED BY <2>2, <2>3, <2>4
  <1>6. ASSUME NEW w \in Workers, Finish(w) PROVE Quiet(r)'
    BY <1>6 DEF Finish, Acknowledge, Goto
  <1>7. ASSUME NEW w \in Workers, WorkerDies(w) PROVE FALSE
    BY <1>7 DEF WorkerDies, WorkerLost
  <1> QED BY <1>1, <1>2, <1>3, <1>4, <1>5, <1>6, <1>7 DEF Moves

-----------------------------------------------------------------------------
\* A row is there once its request has committed it; while no process died, the
\* attempt that completes a report is its last one, so nothing writes after it.
StageInv(r) == /\ submit[r] = "start" <=> report[r].status = "none"
               /\ submit[r] = "committed" => report[r].status = "pending"
               /\ crashes = 0 /\ report[r].status = "completed" =>
                     Quiet(r) /\ report[r].test_id = report[r].metrics

LifeInv == /\ Base
           /\ crashes = 0 => OneAtATime
           /\ \A r \in Reports : StageInv(r)

\* No report has begun its life in the beginning.
LEMMA LifeInit == Init => LifeInv
  <1> SUFFICES ASSUME Init PROVE LifeInv
    OBVIOUS
  <1>1. Base
    BY BaseInit
  <1>2. OneAtATime
    BY DEF Init, InitQueue, OneAtATime, Busy
  <1>3. \A r \in Reports : StageInv(r)
    BY DEF Init, StageInv, NoRow
  <1> QED BY <1>1, <1>2, <1>3 DEF LifeInv

\* Who writes the row of a report that is already queued.
LEMMA WritersAreBusy ==
    ASSUME Base, NEW w \in Workers, at[w] \in {"started", "saving", "failing"}
    PROVE  Busy(w) /\ JobOf(w) \in Reports /\ submit[JobOf(w)] = "queued"
  <1>1. TypeOK /\ WorkerInv(w) /\ Sent
    BY DEF Base
  <1> QED BY <1>1, HeldIsMessage DEF WorkerInv, Busy, Sent

\* How the request of a report moves.
LEMMA RequestMoves ==
    ASSUME TypeOK, [Next]_vars, NEW r \in Reports
    PROVE  \/ submit'[r] = submit[r]
           \/ SubmitGtmetrix(r) /\ submit'[r] = "committed"
           \/ submit[r] = "committed" /\ submit'[r] \in {"queued", "unqueued"}
  <1>1. ASSUME NEW q \in Reports, SubmitGtmetrix(q) \/ OnCommit(q) \/ OnCommitLost(q)
        PROVE  \/ submit'[r] = submit[r]
               \/ SubmitGtmetrix(r) /\ submit'[r] = "committed"
               \/ submit[r] = "committed" /\ submit'[r] \in {"queued", "unqueued"}
    BY <1>1 DEF SubmitGtmetrix, OnCommit, OnCommitLost, TypeOK
  <1>2. UNCHANGED vars => submit' = submit
    BY DEF vars, siteVars, ghostVars
  <1> QED BY <1>1, <1>2 DEF Next, WorkerStep, AllStopped, DeleteReport, TakeMessage,
     TestCompletes, StartTest, StartReplyLost, SaveTestId, PollCompleted, StartFails, PollFails,
     MarkFailed, RetryLater, GiveUp, SaveReport, SaveRefused, SaveTestIdFails, MarkFailedRaises,
     TaskRaises, Finish, WorkerDies, siteVars, ghostVars

\* Each report stays in the stage its status says, or moves to the next one.
LEMMA StagesStep ==
    ASSUME LifeInv, [Next]_vars, NEW r \in Reports
    PROVE  StageInv(r)'
  <1>1. Base /\ TypeOK /\ StageInv(r) /\ RowMoves(r) /\ (crashes = 0 => OneAtATime)
    BY RowsMove DEF LifeInv, Base
  <1>2. crashes' = 0 => crashes = 0
    BY <1>1, CrashesGrow
  <1>3. \/ submit'[r] = submit[r]
        \/ SubmitGtmetrix(r) /\ submit'[r] = "committed"
        \/ submit[r] = "committed" /\ submit'[r] \in {"queued", "unqueued"}
    BY <1>1, RequestMoves
  <1>4. SubmitGtmetrix(r) => submit[r] = "start"
    BY DEF SubmitGtmetrix
  <1>5. SubmitGtmetrix(r) => submit'[r] = "committed" /\ report'[r].status = "pending"
    BY <1>1 DEF SubmitGtmetrix, TypeOK, Row
  <1>6. ASSUME ~SubmitGtmetrix(r), report'[r].status = report[r].status,
               report[r].status = "completed" => /\ report'[r].test_id = report[r].test_id
                                                 /\ report'[r].metrics = report[r].metrics
        PROVE  StageInv(r)'
    <2>1. ASSUME crashes' = 0, report'[r].status = "completed" PROVE Quiet(r)'
      <3>1. ~OnCommit(r)
        BY <1>1, <1>6, <2>1 DEF StageInv, OnCommit
      <3> QED BY <1>1, <1>2, <1>6, <2>1, <3>1, QuietStays DEF StageInv
    <2>2. /\ submit'[r] = "start" <=> submit[r] = "start"
          /\ submit'[r] = "committed" => submit[r] = "committed"
      BY <1>3, <1>4, <1>6
    <2> QED BY <1>1, <1>2, <1>6, <2>1, <2>2 DEF StageInv
  <1>7. CASE SubmitGtmetrix(r)
    BY <1>5, <1>7 DEF StageInv
  <1>8. CASE RowSame(r) \/ RowHidden(r)
    BY <1>6, <1>7, <1>8 DEF RowSame, RowHidden
  <1>9. ASSUME NEW w \in Workers, RowSaved(w, r) PROVE StageInv(r)'
    <2>1. Busy(w) /\ submit[r] = "queued"
      BY <1>1, <1>9, WritersAreBusy DEF RowSaved
    <2>2. submit'[r] = "queued" /\ report'[r].status = "completed"
          /\ report'[r].test_id = report'[r].metrics
      BY <1>3, <1>4, <1>9, <2>1 DEF RowSaved
    <2>3. ASSUME crashes' = 0 PROVE Quiet(r)'
      <3>1. OneAtATime
        BY <1>1, <1>2, <2>3
      <3>2. /\ \A m \in Messages : queue[m] > 0 => m[1] # r
            /\ \A v \in Workers : v # w /\ Busy(v) => JobOf(v) # r
        BY <1>9, <2>1, <3>1 DEF OneAtATime, RowSaved
      <3>3. Work(w) /\ at'[w] = "finished"
        <4>1. Moves
          BY <1>1, StepsAreMoves DEF Base
        <4>2. at[w] = "saving" /\ at'[w] = "finished"
          BY <1>9 DEF RowSaved
        <4>3. ~Elsewhere /\ \A q \in Reports : ~OnCommit(q)
          BY <4>2 DEF Elsewhere, OnCommit, taskVars
        <4>4. ASSUME NEW v \in Workers, NEW m \in Messages PROVE ~TakeMessage(v, m)
          BY <1>1, <2>1, <4>2 DEF TakeMessage, Deliver, Goto, Busy, TypeOK
        <4>5. ASSUME NEW v \in Workers, Work(v) \/ RetryLater(v) \/ Finish(v) \/ WorkerDies(v)
              PROVE  v = w
          BY <1>1, <4>2, <4>5 DEF Work, RetryLater, Finish, WorkerDies, Goto, TypeOK
        <4>6. ~RetryLater(w) /\ ~Finish(w) /\ ~WorkerDies(w)
          BY <1>1, <4>2 DEF RetryLater, Finish, WorkerDies, Goto, TypeOK
        <4> QED BY <4>1, <4>2, <4>3, <4>4, <4>5, <4>6 DEF Moves
      <3>4. /\ queue' = queue /\ held' = held
            /\ \A v \in Workers : v # w => at'[v] = at[v]
        BY <3>3 DEF Work, queueVars, ghostVars
      <3> QED BY <3>2, <3>3, <3>4 DEF Quiet, Busy, JobOf
    <2> QED BY <2>2, <2>3 DEF StageInv
  <1>10. ASSUME NEW w \in Workers, RowNamed(w, r) PROVE StageInv(r)'
    <2>1. Busy(w) /\ submit[r] = "queued" /\ JobOf(w) = r
      BY <1>1, <1>10, WritersAreBusy DEF RowNamed
    <2>2. crashes = 0 => report[r].status # "completed"
      BY <1>1, <2>1 DEF StageInv, Quiet
    <2>3. submit'[r] = "queued" /\ report'[r].status = report[r].status
      BY <1>3, <1>4, <1>10, <2>1 DEF RowNamed
    <2> QED BY <1>1, <1>2, <2>1, <2>2, <2>3 DEF StageInv
  <1>11. ASSUME NEW w \in Workers, RowFailed(w, r) PROVE StageInv(r)'
    <2>1. submit[r] = "queued"
      BY <1>1, <1>11, WritersAreBusy DEF RowFailed
    <2>2. submit'[r] = "queued" /\ report'[r].status = "failed"
      BY <1>3, <1>4, <1>11, <2>1 DEF RowFailed
    <2> QED BY <2>2 DEF StageInv
  <1> QED BY <1>1, <1>7, <1>8, <1>9, <1>10, <1>11 DEF RowMoves, RowPending

\* The invariant of the lives of reports is inductive.
LEMMA LifeStep == LifeInv /\ [Next]_vars => LifeInv'
  <1> SUFFICES ASSUME LifeInv, [Next]_vars PROVE LifeInv'
    OBVIOUS
  <1>1. Base'
    BY BaseStep DEF LifeInv
  <1>2. crashes' = 0 => OneAtATime'
    BY OneAtATimeStep, CrashesGrow DEF LifeInv, Base
  <1>3. (\A r \in Reports : StageInv(r))'
    BY StagesStep
  <1> QED BY <1>1, <1>2, <1>3 DEF LifeInv

\* A completed report shows a test of its own that completed, and while no
\* process died the one whose id it stores, whatever attempts, retries and
\* redeliveries ran (gtmetrix_service.py, process_gtmetrix).
THEOREM CompletedResultCorrect == Spec => []CompletedHasResult
  <1>1. LifeInv => CompletedHasResult
    BY DEF LifeInv, Base, ResultInv, StageInv, CompletedHasResult
  <1> QED BY LifeInit, LifeStep, <1>1, PTL DEF Spec

\* A step of the site is a step of the life of one report, or none.
LEMMA StepsLive == LifeInv /\ [Next]_vars => [Life!LifeNext]_(Life!lifeVars)
  <1> SUFFICES ASSUME LifeInv, [Next]_vars PROVE [Life!LifeNext]_(Life!lifeVars)
    OBVIOUS
  <1> DEFINE before == [r \in Reports |-> report[r].status]
             after == [r \in Reports |-> report'[r].status]
  <1> USE DEF Life!LifeNext, Life!lifeVars, Life!Move, Life!Submit, Life!Complete, Life!Fail,
              Life!ProcessLost
  <1>1. crashes \in Nat /\ (crashes' = crashes \/ crashes' = crashes + 1)
    BY CrashesGrow DEF LifeInv, Base
  <1>2. CASE after = before
    BY <1>1, <1>2
  <1> TypeOK /\ (\A r \in Reports : report[r] \in Row)
    BY DEF LifeInv, Base, TypeOK
  <1>3. ASSUME NEW r \in Reports, SubmitGtmetrix(r) PROVE Life!Submit(r)
    <2>1. report' = [report EXCEPT ![r] = [report[r] EXCEPT !.status = "pending"]]
      BY <1>3 DEF SubmitGtmetrix
    <2>2. after = [before EXCEPT ![r] = "pending"]
      BY <2>1 DEF TypeOK, Row
    <2>3. report[r].status = "none" /\ crashes' = crashes
      BY <1>3 DEF LifeInv, StageInv, SubmitGtmetrix, queueVars, ghostVars
    <2> QED BY <2>2, <2>3
  <1>4. ASSUME NEW w \in Workers, NEW s \in {"failed", "completed"},
               at[w] \in {"saving", "failing"}, after = [before EXCEPT ![JobOf(w)] = s],
               crashes' = crashes
        PROVE  [Life!LifeNext]_(Life!lifeVars)
    <2> DEFINE r == JobOf(w)
    <2>1. Busy(w) /\ r \in Reports /\ submit[r] = "queued"
      BY <1>4, WritersAreBusy DEF LifeInv
    <2>2. before[r] \in {"pending", "completed", "failed"}
      BY <2>1 DEF LifeInv, StageInv, Row
    <2>3. crashes = 0 => before[r] # "completed"
      BY <2>1 DEF LifeInv, StageInv, Quiet
    <2>4. after = [before EXCEPT ![r] = s] /\ crashes' = crashes
      BY <1>4
    <2> HIDE DEF r, before, after
    <2>5. before[r] = s => after = before
      BY <2>1, <2>4 DEF before
    <2>6. CASE before[r] = s
      BY <1>2, <2>5, <2>6
    <2>7. CASE before[r] # s /\ s = "completed"
      <3>1. Life!Complete(r)
        BY <2>2, <2>4, <2>7 DEF before, after
      <3> QED BY <2>1, <3>1
    <2>8. CASE before[r] # s /\ s = "failed"
      <3>1. before[r] \in {"pending"} \cup (IF crashes > 0 THEN {"completed"} ELSE {})
        BY <1>1, <2>2, <2>3, <2>8
      <3>2. Life!Fail(r)
        BY <2>4, <2>8, <3>1 DEF before, after
      <3> QED BY <2>1, <3>2
    <2> QED BY <2>6, <2>7, <2>8
  <1>5. ASSUME NEW w \in Workers, SaveReport(w) PROVE [Life!LifeNext]_(Life!lifeVars)
    <2> DEFINE row == [copy[w] EXCEPT !.status = "completed", !.metrics = copy[w].test_id]
    <2>1. row.status = "completed" /\ report' = [report EXCEPT ![JobOf(w)] = row]
      BY <1>5 DEF SaveReport, TypeOK, Row
    <2> HIDE DEF row
    <2>2. after = [before EXCEPT ![JobOf(w)] = "completed"]
      BY <2>1 DEF TypeOK
    <2> QED BY <1>4, <1>5, <2>2 DEF SaveReport, queueVars, ghostVars
  <1>6. ASSUME NEW w \in Workers, MarkFailed(w) PROVE [Life!LifeNext]_(Life!lifeVars)
    <2>1. report' = [report EXCEPT ![JobOf(w)] = [report[JobOf(w)] EXCEPT !.status = "failed"]]
      BY <1>6 DEF MarkFailed
    <2>2. after = [before EXCEPT ![JobOf(w)] = "failed"]
      BY <2>1 DEF TypeOK, Row
    <2> QED BY <1>4, <1>6, <2>2 DEF MarkFailed, queueVars, ghostVars
  <1>7. ASSUME NEW w \in Workers, SaveTestId(w) PROVE after = before
    <2>1. report' = [report EXCEPT ![JobOf(w)] = [report[JobOf(w)] EXCEPT
                                                    !.test_id = copy[w].test_id]]
      BY <1>7 DEF SaveTestId
    <2> QED BY <2>1 DEF TypeOK, Row
  <1>8. ASSUME NEW r \in Reports, DeleteReport(r) PROVE after = before
    <2>1. report' = [report EXCEPT ![r] = [report[r] EXCEPT !.is_deleted = TRUE]]
      BY <1>8 DEF DeleteReport
    <2> QED BY <2>1 DEF TypeOK, Row
  <1>9. report' = report => after = before
    OBVIOUS
  <1>10. UNCHANGED vars => report' = report
    BY DEF vars, siteVars, ghostVars
  <1>11. (\E r \in Reports : SubmitGtmetrix(r)) => [Life!LifeNext]_(Life!lifeVars)
    BY <1>3
  <1> HIDE DEF before, after, Life!LifeNext, Life!lifeVars
  <1> QED BY <1>2, <1>5, <1>6, <1>7, <1>8, <1>9, <1>10, <1>11 DEF Next, WorkerStep, AllStopped,
     OnCommit, OnCommitLost, TestCompletes, TakeMessage, StartTest, StartReplyLost,
     PollCompleted, StartFails, PollFails, RetryLater, GiveUp, SaveRefused, SaveTestIdFails,
     MarkFailedRaises, TaskRaises, Finish, WorkerDies, siteVars, ghostVars

\* However the attempts at a GTmetrix report interleave, its row moves as the
\* abstract life of a report allows (gtmetrix_service.py: failed is saved in the
\* except clause and re-raised, the retry may complete).
THEOREM GTmetrixImplementsLife == Spec => ImplementsLife
  <1>1. Init => Life!InitLife
    BY DEF Init, InitQueue, NoRow, Life!InitLife
  <1>2. LifeInv /\ [Next]_vars => [Life!LifeNext]_(Life!lifeVars)
    BY StepsLive
  <1> QED BY LifeInit, LifeStep, <1>1, <1>2, PTL DEF Spec, ImplementsLife, Life!LifeSpec

-----------------------------------------------------------------------------
\* Counting.  The attempts that may start a test while its report names none, and
\* the ones about to start one.
NoIdOn(r) == {w \in ActingOn(r) : copy[w].test_id = NoTest}

StartingOn(r) == {w \in ActingOn(r) : at[w] = "starting"}

\* A step of one worker changes these sets by that worker only.
LEMMA OneWorkerMoves ==
    ASSUME NEW r, NEW w \in Workers,
           \A v \in Workers \ {w} : held'[v] = held[v] /\ at'[v] = at[v] /\ copy'[v] = copy[v]
    PROVE  /\ ActingOn(r)' \ {w} = ActingOn(r) \ {w}
           /\ NoIdOn(r)' \ {w} = NoIdOn(r) \ {w}
           /\ StartingOn(r)' \ {w} = StartingOn(r) \ {w}
  BY DEF ActingOn, NoIdOn, StartingOn, JobOf

\* A step that moves no worker leaves the sets of attempts alone.
LEMMA WorkersAlone ==
    ASSUME NEW r, UNCHANGED <<held, at, copy>>
    PROVE  /\ ActingOn(r)' = ActingOn(r) /\ NoIdOn(r)' = NoIdOn(r)
           /\ StartingOn(r)' = StartingOn(r)
  BY DEF ActingOn, NoIdOn, StartingOn, JobOf

\* A step that leaves the queue alone leaves its copies alone.
LEMMA CopiesAlone ==
    ASSUME NEW r, UNCHANGED queue
    PROVE  Copies({r})' = Copies({r})
  BY DEF Copies

\* What is counted is finite, however many workers there are.
Finite(r) == IsFiniteSet(Copies({r})) /\ IsFiniteSet(ActingOn(r))

\* The sets counted for a report are finite, so that their sizes are numbers.
LEMMA FiniteCounts ==
    ASSUME NEW r, Finite(r)
    PROVE  /\ Waiting(r) \in Nat /\ Acting(r) \in Nat
           /\ IsFiniteSet(NoIdOn(r)) /\ IsFiniteSet(StartingOn(r))
           /\ Cardinality(NoIdOn(r)) \in Nat /\ Cardinality(StartingOn(r)) \in Nat
  <1>1. NoIdOn(r) \subseteq ActingOn(r) /\ StartingOn(r) \subseteq ActingOn(r)
    BY DEF NoIdOn, StartingOn
  <1>2. Cardinality(Copies({r})) \in Nat /\ Cardinality(ActingOn(r)) \in Nat
    BY FS_CardinalityType DEF Finite
  <1>3. IsFiniteSet(NoIdOn(r)) /\ Cardinality(NoIdOn(r)) \in Nat
    BY <1>1, SmallerSet DEF Finite
  <1>4. IsFiniteSet(StartingOn(r)) /\ Cardinality(StartingOn(r)) \in Nat
    BY <1>1, SmallerSet DEF Finite
  <1> QED BY <1>2, <1>3, <1>4 DEF Waiting, Acting

\* Before a report is queued nobody works on it.
LEMMA NobodyBefore ==
    ASSUME Sent, TypeOK, NEW r \in Reports, submit[r] # "queued"
    PROVE  /\ Copies({r}) = {} /\ ActingOn(r) = {} /\ NoIdOn(r) = {} /\ StartingOn(r) = {}
           /\ Waiting(r) = 0 /\ Acting(r) = 0
           /\ Cardinality(NoIdOn(r)) = 0 /\ Cardinality(StartingOn(r)) = 0
  <1>1. \A m \in Messages : m[1] \in {r} => queue[m] = 0
    BY DEF Sent, TypeOK, QueueTypeOK
  <1>2. ActingOn(r) = {}
    BY DEF Sent, ActingOn
  <1>3. NoIdOn(r) = {} /\ StartingOn(r) = {}
    BY <1>2 DEF NoIdOn, StartingOn
  <1> QED BY <1>1, <1>2, <1>3, NothingWaits, FS_EmptySet DEF Waiting, Acting

\* Retries do not run beside the attempt they follow.
ChainInv(r) == Finite(r) /\ Waiting(r) + Acting(r) <= 1 + crashes

\* A step adds an attempt to a report only in place of another, or with a crash.
LEMMA ChainStep ==
    ASSUME Base, [Next]_vars, NEW r \in Reports, ChainInv(r)
    PROVE  ChainInv(r)'
  <1> TypeOK /\ Sent /\ (\A w \in Workers : WorkerInv(w)) /\ Moves
    BY StepsAreMoves DEF Base
  <1> queue \in [Messages -> Nat] /\ held \in [Workers -> Messages \cup {NoMessage}]
        /\ at \in [Workers -> Places]
    BY DEF TypeOK, QueueTypeOK
  <1> /\ IsFiniteSet(Copies({r})) /\ IsFiniteSet(ActingOn(r))
      /\ Waiting(r) \in Nat /\ Acting(r) \in Nat /\ Waiting(r) + Acting(r) <= 1 + crashes
    BY FiniteCounts DEF ChainInv, Finite
  <1>c. crashes \in Nat /\ crashes' \in Nat /\ crashes' >= crashes
    BY CrashesGrow
  <1>q. ASSUME UNCHANGED queue
        PROVE  Waiting(r)' = Waiting(r) /\ IsFiniteSet(Copies({r})')
    BY <1>q, CopiesAlone DEF Waiting
  <1>w. ASSUME NEW w \in Workers, \A v \in Workers \ {w} : held'[v] = held[v] /\ at'[v] = at[v]
        PROVE  /\ IsFiniteSet(ActingOn(r)') /\ Acting(r)' \in Nat
               /\ (w \in ActingOn(r) <=> w \in ActingOn(r)') => Acting(r)' = Acting(r)
               /\ w \notin ActingOn(r) /\ w \in ActingOn(r)' => Acting(r)' = Acting(r) + 1
               /\ w \in ActingOn(r) /\ w \notin ActingOn(r)' => Acting(r)' = Acting(r) - 1
    <2>1. ActingOn(r)' \ {w} = ActingOn(r) \ {w}
      BY <1>w DEF ActingOn, JobOf
    <2> QED BY <2>1, OneElement DEF Acting
  <1>1. CASE Elsewhere
    <2>1. ActingOn(r)' = ActingOn(r)
      BY <1>1 DEF Elsewhere, ActingOn, JobOf
    <2>2. Waiting(r)' = Waiting(r) /\ IsFiniteSet(Copies({r})')
      BY <1>1, <1>q DEF Elsewhere
    <2> QED BY <1>c, <2>1, <2>2 DEF ChainInv, Finite, Acting
  <1>2. ASSUME NEW q \in Reports, OnCommit(q) PROVE ChainInv(r)'
    <2>1. /\ <<q, 0>> \in Messages /\ <<q, 0>>[1] = q
          /\ queue' = [queue EXCEPT ![<<q, 0>>] = @ + 1] /\ UNCHANGED <<held, at, copy>>
      BY <1>2, MessagesMake DEF OnCommit, Delay, taskVars
    <2>2. /\ IsFiniteSet(Copies({r})')
          /\ Waiting(r)' = Waiting(r) + (IF q \in {r} THEN 1 ELSE 0)
      BY <2>1, CopyAdded DEF Waiting
    <2>3. ActingOn(r)' = ActingOn(r)
      BY <2>1, WorkersAlone
    <2>4. q = r => Waiting(r) = 0 /\ Acting(r) = 0
      BY <1>2, NobodyBefore DEF OnCommit
    <2> QED BY <1>c, <2>2, <2>3, <2>4 DEF ChainInv, Finite, Acting
  <1>3. ASSUME NEW w \in Workers, NEW m \in Messages, TakeMessage(w, m) PROVE ChainInv(r)'
    <2>1. /\ held[w] = NoMessage /\ queue[m] > 0 /\ queue' = [queue EXCEPT ![m] = @ - 1]
          /\ held' = [held EXCEPT ![w] = m] /\ \A v \in Workers \ {w} : at'[v] = at[v]
      BY <1>3 DEF TakeMessage, Deliver, Goto
    <2>2. /\ IsFiniteSet(Copies({r})')
          /\ Waiting(r)' = Waiting(r) - (IF m[1] \in {r} THEN 1 ELSE 0)
      BY <2>1, CopyTaken DEF Waiting
    <2>3. w \notin ActingOn(r) /\ (w \in ActingOn(r)' => m[1] = r)
      BY <2>1 DEF ActingOn, JobOf
    <2>4. IsFiniteSet(ActingOn(r)') /\ (m[1] # r => Acting(r)' = Acting(r))
            /\ Acting(r)' \in Nat /\ Acting(r)' <= Acting(r) + 1
      BY <2>1, <2>3, <1>w
    <2> QED BY <1>c, <2>2, <2>4 DEF ChainInv, Finite
  <1>4. ASSUME NEW w \in Workers, Work(w) PROVE ChainInv(r)'
    <2>1. /\ Busy(w) /\ UNCHANGED <<queue, held, crashes>>
          /\ \A v \in Workers \ {w} : at'[v] = at[v]
      BY <1>4 DEF Work, queueVars, ghostVars
    <2>2. w \in ActingOn(r)' => w \in ActingOn(r)
      BY <2>1 DEF Busy, ActingOn, JobOf
    <2>3. IsFiniteSet(ActingOn(r)') /\ Acting(r)' \in Nat /\ Acting(r)' <= Acting(r)
      BY <2>1, <2>2, <1>w
    <2> QED BY <1>c, <1>q, <2>1, <2>3 DEF ChainInv, Finite
  <1>5. ASSUME NEW w \in Workers, RetryLater(w) PROVE ChainInv(r)'
    <2> DEFINE q == JobOf(w)
               m == <<q, RetriesOf(w) + 1>>
    <2>1. held[w] # NoMessage
      BY <1>5 DEF RetryLater, WorkerInv
    <2>2. m \in Messages /\ m[1] = q
      BY <1>5, <2>1, HeldIsMessage, MessagesMake DEF RetryLater, Retry, JobOf, RetriesOf
    <2>3. /\ queue' = [queue EXCEPT ![m] = @ + 1] /\ held' = held
          /\ at[w] = "raised" /\ at'[w] = "finished" /\ \A v \in Workers \ {w} : at'[v] = at[v]
      BY <1>5 DEF RetryLater, Retry, Goto
    <2>4. (w \in ActingOn(r) <=> q = r) /\ w \notin ActingOn(r)'
      BY <2>1, <2>3 DEF ActingOn, JobOf
    <2>5. /\ IsFiniteSet(ActingOn(r)') /\ Acting(r)' \in Nat
          /\ Acting(r)' = Acting(r) - (IF q = r THEN 1 ELSE 0)
      BY <2>3, <2>4, <1>w
    <2> HIDE DEF m
    <2>6. IsFiniteSet(Copies({r})') /\ Waiting(r)' = Waiting(r) + (IF m[1] \in {r} THEN 1 ELSE 0)
      BY <2>2, <2>3, CopyAdded DEF Waiting
    <2> HIDE DEF q
    <2> QED BY <1>c, <2>2, <2>5, <2>6 DEF ChainInv, Finite
  <1>6. ASSUME NEW w \in Workers, Finish(w) PROVE ChainInv(r)'
    <2>1. /\ at[w] = "finished" /\ held'[w] = NoMessage /\ UNCHANGED queue
          /\ \A v \in Workers \ {w} : held'[v] = held[v] /\ at'[v] = at[v]
      BY <1>6 DEF Finish, Acknowledge, Goto
    <2>2. w \notin ActingOn(r) /\ w \notin ActingOn(r)'
      BY <2>1 DEF ActingOn
    <2> QED BY <1>c, <1>q, <1>w, <2>1, <2>2 DEF ChainInv, Finite
  <1>7. ASSUME NEW w \in Workers, WorkerDies(w) PROVE ChainInv(r)'
    <2>1. /\ held[w] # NoMessage /\ crashes' = crashes + 1 /\ held'[w] = NoMessage
          /\ queue' = [queue EXCEPT ![held[w]] = @ + 1]
          /\ \A v \in Workers \ {w} : held'[v] = held[v] /\ at'[v] = at[v]
      BY <1>7 DEF WorkerDies, WorkerLost, Goto
    <2>2. held[w] \in Messages
      BY <2>1
    <2>3. /\ IsFiniteSet(Copies({r})')
          /\ Waiting(r)' = Waiting(r) + (IF held[w][1] \in {r} THEN 1 ELSE 0)
      BY <2>1, <2>2, CopyAdded DEF Waiting
    <2>4. w \notin ActingOn(r)'
      BY <2>1 DEF ActingOn
    <2>5. IsFiniteSet(ActingOn(r)') /\ Acting(r)' \in Nat /\ Acting(r)' <= Acting(r)
      BY <2>1, <2>4, <1>w
    <2> QED BY <1>c, <2>1, <2>3, <2>5 DEF ChainInv, Finite
  <1> QED BY <1>1, <1>2, <1>3, <1>4, <1>5, <1>6, <1>7 DEF Moves

-----------------------------------------------------------------------------
\* An attempt whose exception ends the task: nothing follows it.
Doomed(w) == exc[w] = "fatal" /\ at[w] \in {"failing", "raised", "finished"}

\* An instance about to start a test names none, and what an instance names its
\* row names too once it is saved, unless that save ended the task.
IdsKnown(w) ==
    held[w] # NoMessage =>
        /\ at[w] = "starting" => copy[w].test_id = NoTest
        /\ copy[w].test_id # NoTest /\ at[w] # "started" /\ ~Doomed(w)
              => report[JobOf(w)].test_id # NoTest

\* A row that names a test always names one.
LEMMA IdsStay ==
    ASSUME Base, [Next]_vars, NEW r \in Reports, report[r].test_id # NoTest
    PROVE  report'[r].test_id # NoTest
  <1>1. RowMoves(r) /\ (\A w \in Workers : WorkerInv(w)) /\ tests[r] \in Seq(TestStates)
    BY RowsMove DEF Base, TypeOK, TestStates
  <1>2. \A w \in Workers :
           at[w] \in {"started", "saving"} /\ JobOf(w) = r => copy[w].test_id # NoTest
    BY <1>1 DEF WorkerInv, NoTest
  <1> QED BY <1>1, <1>2 DEF RowMoves, RowSame, RowSaved, RowNamed, RowFailed, RowPending,
     RowHidden

\* A worker starts a test only while it knows of none, and what it saved its row names.
LEMMA IdsKnownStep ==
    ASSUME Base, [Next]_vars, NEW v \in Workers, IdsKnown(v)
    PROVE  IdsKnown(v)'
  <1> USE DEF Doomed
  <1> TypeOK /\ WorkerInv(v) /\ (\A w \in Workers : WorkerInv(w))
    BY DEF Base
  <1> copy \in [Workers -> Row] /\ at \in [Workers -> Places]
        /\ held \in [Workers -> Messages \cup {NoMessage}] /\ report \in [Reports -> Row]
        /\ exc \in [Workers -> Errors \cup {"none"}]
    BY DEF TypeOK, QueueTypeOK
  <1>1. ASSUME held'[v] = held[v], copy'[v] = copy[v], at'[v] # "starting" \/ at'[v] = at[v],
               at[v] = "started" => \/ at'[v] = "started" \/ Doomed(v)'
                                    \/ report'[JobOf(v)].test_id # NoTest,
               Doomed(v) => Doomed(v)'
        PROVE  IdsKnown(v)'
    <2>1. JobOf(v)' = JobOf(v)
      BY <1>1 DEF JobOf
    <2>2. held[v] # NoMessage /\ report[JobOf(v)].test_id # NoTest
             => report'[JobOf(v)].test_id # NoTest
      BY HeldIsMessage, IdsStay
    <2> QED BY <1>1, <2>1, <2>2 DEF IdsKnown
  <1>2. ASSUME UNCHANGED <<held, copy, at, exc>> PROVE IdsKnown(v)'
    BY <1>1, <1>2
  <1>3. ASSUME NEW w \in Workers \ {v}, held'[v] = held[v], copy'[v] = copy[v], at'[v] = at[v],
               exc'[v] = exc[v]
        PROVE  IdsKnown(v)'
    BY <1>1, <1>3
  <1>4. ASSUME NEW w \in Workers, NEW m \in Messages, TakeMessage(w, m) PROVE IdsKnown(v)'
    <2>1. CASE w # v
      <3>1. held'[v] = held[v] /\ at'[v] = at[v] /\ copy'[v] = copy[v] /\ exc' = exc
        BY <1>4, <2>1 DEF TakeMessage, Deliver, Goto
      <3> QED BY <1>1, <3>1
    <2>2. CASE w = v
      <3>1. /\ held'[v] = m /\ copy'[v] = report[m[1]] /\ report' = report
            /\ at'[v] = "starting" => report[m[1]].test_id = NoTest
        BY <1>4, <2>2 DEF TakeMessage, Deliver, Goto, siteVars, ghostVars
      <3> QED BY <3>1 DEF IdsKnown, JobOf
    <2> QED BY <2>1, <2>2
  <1>5. ASSUME NEW w \in Workers, StartTest(w) PROVE IdsKnown(v)'
    <2>1. CASE w # v
      BY <1>1, <1>5, <2>1 DEF StartTest, Goto, queueVars, ghostVars
    <2>2. CASE w = v
      <3>1. held'[v] = held[v] /\ at'[v] = "started"
        BY <1>5, <2>2 DEF StartTest, Goto, queueVars, ghostVars
      <3> QED BY <3>1 DEF IdsKnown
    <2> QED BY <2>1, <2>2
  <1>6. ASSUME NEW w \in Workers, SaveTestId(w) PROVE IdsKnown(v)'
    <2>1. /\ held' = held /\ copy' = copy /\ exc' = exc /\ at' = [at EXCEPT ![w] = "polling"]
          /\ report' = [report EXCEPT ![JobOf(w)].test_id = copy[w].test_id] /\ at[w] = "started"
      BY <1>6 DEF SaveTestId, Goto, queueVars, ghostVars
    <2>2. JobOf(w) \in Reports /\ copy[w].test_id \in DOMAIN tests[JobOf(w)]
      BY <2>1, HeldIsMessage DEF WorkerInv
    <2>3. tests[JobOf(w)] \in Seq(TestStates)
      BY <2>2 DEF TypeOK, TestStates
    <2>4. copy[w].test_id # NoTest
      BY <2>2, <2>3 DEF NoTest
    <2>5. report'[JobOf(w)].test_id = copy[w].test_id
      BY <2>1, <2>2 DEF Row
    <2>6. w = v => report'[JobOf(v)].test_id # NoTest
      BY <2>4, <2>5
    <2>7. w # v => at'[v] = at[v]
      BY <2>1
    <2> QED BY <1>1, <2>1, <2>6, <2>7
  <1>7. ASSUME NEW w \in Workers,
               StartReplyLost(w) \/ Inner(w) \/ MarkFailed(w) \/ RetryLater(w) \/ SaveReport(w)
        PROVE  IdsKnown(v)'
    BY <1>1, <1>7 DEF StartReplyLost, Inner, PollCompleted, StartFails, PollFails, GiveUp,
       SaveRefused, SaveTestIdFails, MarkFailedRaises, TaskRaises, MarkFailed, RetryLater,
       Retry, SaveReport, Goto, Raise, queueVars, ghostVars
  <1>8. ASSUME NEW w \in Workers, Finish(w) \/ WorkerDies(w) PROVE IdsKnown(v)'
    <2>1. CASE w # v
      BY <1>1, <1>8, <2>1 DEF Finish, WorkerDies, Acknowledge, WorkerLost, Goto, Forget
    <2>2. CASE w = v
      BY <1>8, <2>2 DEF Finish, WorkerDies, Acknowledge, WorkerLost, IdsKnown
    <2> QED BY <2>1, <2>2
  <1>9. ASSUME NEW r \in Reports,
               SubmitGtmetrix(r) \/ OnCommit(r) \/ OnCommitLost(r) \/ DeleteReport(r)
        PROVE  IdsKnown(v)'
    BY <1>2, <1>9 DEF SubmitGtmetrix, OnCommit, OnCommitLost, DeleteReport, Delay,
       PublisherLost, taskVars, ghostVars, queueVars
  <1>10. ASSUME NEW r \in Reports, NEW i \in DOMAIN tests[r],
                NEW outcome \in {"completed", "ungraded"}, TestCompletes(r, i, outcome)
         PROVE  IdsKnown(v)'
    BY <1>2, <1>10 DEF TestCompletes, taskVars, ghostVars, queueVars
  <1>11. CASE UNCHANGED vars
    BY <1>2, <1>11 DEF vars, taskVars, ghostVars, queueVars
  <1> QED BY <1>4, <1>5, <1>6, <1>7, <1>8, <1>9, <1>10, <1>11
          DEF Next, WorkerStep, Inner, AllStopped

-----------------------------------------------------------------------------
\* The tests that may still be started for a report: an attempt that knows of
\* none starts one and saves its id, the ones about to start do not look again.
Chances(r) == IF report[r].test_id = NoTest THEN Waiting(r) + Cardinality(NoIdOn(r))
              ELSE Cardinality(StartingOn(r))

CostInv(r) == /\ submit[r] # "queued" => Len(tests[r]) = 0
              /\ Len(tests[r]) + Chances(r) <= 1 + lost[r] + crashes

\* Who may start a test knows of none.
LEMMA StartersHaveNoId ==
    ASSUME NEW r, Finite(r), \A w \in Workers : IdsKnown(w)
    PROVE  Cardinality(StartingOn(r)) <= Cardinality(NoIdOn(r))
  <1>1. StartingOn(r) \subseteq NoIdOn(r)
    BY DEF StartingOn, NoIdOn, ActingOn, IdsKnown
  <1> QED BY <1>1, FiniteCounts, SmallerSet

\* The costs of a report after a step, from what the step does to its parts.
CostParts(r) == /\ Len(tests[r]) \in Nat /\ lost[r] \in Nat /\ crashes \in Nat
                /\ Waiting(r) \in Nat
                /\ Cardinality(NoIdOn(r)) \in Nat /\ Cardinality(StartingOn(r)) \in Nat

\* The parts of the bound on tests are numbers.
LEMMA CostPartsAreNumbers ==
    ASSUME TypeOK, NEW r \in Reports, Finite(r)
    PROVE  CostParts(r)
  <1>1. tests[r] \in Seq(TestStates) /\ lost[r] \in Nat /\ crashes \in Nat
    BY MaxLostAssumption, RetriesAssumption DEF TypeOK, QueueTypeOK, TestStates
  <1> QED BY <1>1, FiniteCounts DEF CostParts

\* Nothing that counts moves but one worker, which is not about to start a test.
Onward(r, w) ==
    /\ UNCHANGED <<queue, held, copy>>
    /\ Busy(w) /\ at'[w] # "starting"
    /\ \A v \in Workers \ {w} : at'[v] = at[v]
    /\ Len(tests'[r]) = Len(tests[r]) /\ lost'[r] = lost[r] /\ crashes' = crashes

\* A test that is started uses up a chance, or its reply is lost, or its worker dies.
LEMMA CostStep ==
    ASSUME Base, [Next]_vars, NEW r \in Reports, \A w \in Workers : IdsKnown(w),
           Finite(r), Finite(r)', CostInv(r)
    PROVE  CostInv(r)'
  <1> TypeOK /\ Sent /\ (\A w \in Workers : WorkerInv(w)) /\ TypeOK'
    BY BaseStep DEF Base
  <1> /\ queue \in [Messages -> Nat] /\ held \in [Workers -> Messages \cup {NoMessage}]
      /\ at \in [Workers -> Places] /\ copy \in [Workers -> Row] /\ lost \in [Reports -> 0..MaxLost]
      /\ report \in [Reports -> Row] /\ submit \in [Reports -> {"start", "committed", "queued", "unqueued"}]
    BY DEF TypeOK, QueueTypeOK
  <1> IsFiniteSet(Copies({r})) /\ IsFiniteSet(NoIdOn(r)) /\ IsFiniteSet(StartingOn(r))
    BY FiniteCounts DEF Finite
  <1>p. /\ Len(tests[r]) \in Nat /\ lost[r] \in Nat /\ crashes \in Nat /\ Waiting(r) \in Nat
        /\ Cardinality(NoIdOn(r)) \in Nat /\ Cardinality(StartingOn(r)) \in Nat
    BY CostPartsAreNumbers DEF CostParts
  <1>a. /\ Len(tests'[r]) \in Nat /\ lost'[r] \in Nat /\ crashes' \in Nat /\ Waiting(r)' \in Nat
        /\ Cardinality(NoIdOn(r)') \in Nat /\ Cardinality(StartingOn(r)') \in Nat
    <2>1. NoIdOn(r)' \subseteq ActingOn(r)' /\ StartingOn(r)' \subseteq ActingOn(r)'
      BY DEF NoIdOn, StartingOn
    <2>2. IsFiniteSet(Copies({r})') /\ IsFiniteSet(ActingOn(r)')
      BY DEF Finite
    <2>3. Cardinality(NoIdOn(r)') \in Nat /\ Cardinality(StartingOn(r)') \in Nat
      BY <2>1, <2>2, SmallerSet
    <2>4. Waiting(r)' \in Nat
      BY <2>2, FS_CardinalityType DEF Waiting
    <2>5. tests'[r] \in Seq(TestStates) /\ lost'[r] \in Nat /\ crashes' \in Nat
      BY MaxLostAssumption, RetriesAssumption DEF TypeOK, QueueTypeOK, TestStates
    <2> QED BY <2>3, <2>4, <2>5
  <1>i. report[r].test_id # NoTest => report'[r].test_id # NoTest
    BY IdsStay
  <1>s. Cardinality(StartingOn(r)) <= Cardinality(NoIdOn(r))
    BY StartersHaveNoId
  <1>n. Len(tests[r]) + Chances(r) <= 1 + lost[r] + crashes
    BY DEF CostInv
  <1> DEFINE Unsent == submit'[r] # "queued" => Len(tests'[r]) = 0
  <1>u. (submit'[r] # "queued" => submit[r] # "queued") /\ Len(tests'[r]) = Len(tests[r]) => Unsent
    BY DEF CostInv
  <1>b. \A w \in Workers : held[w] # NoMessage => submit[JobOf(w)] = "queued" /\ JobOf(w) \in Reports
    BY HeldIsMessage DEF Sent
  <1>q. ASSUME UNCHANGED queue PROVE Waiting(r)' = Waiting(r)
    BY <1>q, CopiesAlone DEF Waiting
  <1>w. ASSUME NEW w \in Workers,
               \A v \in Workers \ {w} : held'[v] = held[v] /\ at'[v] = at[v] /\ copy'[v] = copy[v]
        PROVE  /\ (w \in NoIdOn(r) <=> w \in NoIdOn(r)')
                     => Cardinality(NoIdOn(r)') = Cardinality(NoIdOn(r))
               /\ w \notin NoIdOn(r) /\ w \in NoIdOn(r)'
                     => Cardinality(NoIdOn(r)') = Cardinality(NoIdOn(r)) + 1
               /\ w \in NoIdOn(r) /\ w \notin NoIdOn(r)'
                     => Cardinality(NoIdOn(r)') = Cardinality(NoIdOn(r)) - 1
               /\ (w \in StartingOn(r) <=> w \in StartingOn(r)')
                     => Cardinality(StartingOn(r)') = Cardinality(StartingOn(r))
               /\ w \notin StartingOn(r) /\ w \in StartingOn(r)'
                     => Cardinality(StartingOn(r)') = Cardinality(StartingOn(r)) + 1
               /\ w \in StartingOn(r) /\ w \notin StartingOn(r)'
                     => Cardinality(StartingOn(r)') = Cardinality(StartingOn(r)) - 1
               /\ (w \in NoIdOn(r)' => w \in NoIdOn(r))
                     => Cardinality(NoIdOn(r)') <= Cardinality(NoIdOn(r))
               /\ (w \in StartingOn(r)' => w \in StartingOn(r))
                     => Cardinality(StartingOn(r)') <= Cardinality(StartingOn(r))
    <2>1. NoIdOn(r)' \ {w} = NoIdOn(r) \ {w} /\ StartingOn(r)' \ {w} = StartingOn(r) \ {w}
      BY <1>w, OneWorkerMoves
    <2>2. /\ (w \in NoIdOn(r) <=> w \in NoIdOn(r)')
                => Cardinality(NoIdOn(r)') = Cardinality(NoIdOn(r))
          /\ w \notin NoIdOn(r) /\ w \in NoIdOn(r)'
                => Cardinality(NoIdOn(r)') = Cardinality(NoIdOn(r)) + 1
          /\ w \in NoIdOn(r) /\ w \notin NoIdOn(r)'
                => Cardinality(NoIdOn(r)') = Cardinality(NoIdOn(r)) - 1
      BY <2>1, OneElement
    <2>3. /\ (w \in StartingOn(r) <=> w \in StartingOn(r)')
                => Cardinality(StartingOn(r)') = Cardinality(StartingOn(r))
          /\ w \notin StartingOn(r) /\ w \in StartingOn(r)'
                => Cardinality(StartingOn(r)') = Cardinality(StartingOn(r)) + 1
          /\ w \in StartingOn(r) /\ w \notin StartingOn(r)'
                => Cardinality(StartingOn(r)') = Cardinality(StartingOn(r)) - 1
      BY <2>1, OneElement
    <2>4. /\ Cardinality(NoIdOn(r)) \in Nat /\ Cardinality(NoIdOn(r)') \in Nat
          /\ Cardinality(StartingOn(r)) \in Nat /\ Cardinality(StartingOn(r)') \in Nat
      BY <2>1, OneElement
    <2>5. (w \in NoIdOn(r)' => w \in NoIdOn(r))
             => Cardinality(NoIdOn(r)') <= Cardinality(NoIdOn(r))
      BY <2>2, <2>4
    <2>6. (w \in StartingOn(r)' => w \in StartingOn(r))
             => Cardinality(StartingOn(r)') <= Cardinality(StartingOn(r))
      BY <2>3, <2>4
    <2> QED BY <2>2, <2>3, <2>5, <2>6
  \* Steps that leave the broker and the workers as they are.
  <1>1. ASSUME UNCHANGED <<queue, held, at, copy>>, Len(tests'[r]) = Len(tests[r]),
               lost'[r] = lost[r], crashes' >= crashes,
               report'[r].test_id = report[r].test_id,
               submit'[r] # "queued" => submit[r] # "queued"
        PROVE  CostInv(r)'
    <2>1. NoIdOn(r)' = NoIdOn(r) /\ StartingOn(r)' = StartingOn(r) /\ Waiting(r)' = Waiting(r)
      BY <1>1, <1>q, WorkersAlone
    <2>2. Chances(r)' = Chances(r)
      BY <1>1, <2>1 DEF Chances
    <2>3. Chances(r) \in Nat
      BY <1>p DEF Chances
    <2> QED BY <1>1, <1>a, <1>p, <1>n, <1>u, <2>2, <2>3 DEF CostInv
  <1>2. ASSUME NEW w \in Workers, Onward(r, w), submit' = submit PROVE CostInv(r)'
    <2>1. \A v \in Workers \ {w} : held'[v] = held[v] /\ at'[v] = at[v] /\ copy'[v] = copy[v]
      BY <1>2 DEF Onward
    <2>2. (w \in NoIdOn(r)' => w \in NoIdOn(r)) /\ w \notin StartingOn(r)'
      BY <1>2 DEF Onward, NoIdOn, StartingOn, ActingOn, Busy, JobOf
    <2>3. /\ Cardinality(NoIdOn(r)') <= Cardinality(NoIdOn(r))
          /\ Cardinality(StartingOn(r)') <= Cardinality(StartingOn(r))
      BY <1>w, <2>1, <2>2
    <2>4. Waiting(r)' = Waiting(r)
      BY <1>2, <1>q DEF Onward
    <2>5. Chances(r)' <= Chances(r) /\ Chances(r)' \in Nat /\ Chances(r) \in Nat
      BY <1>a, <1>p, <1>i, <1>s, <2>3, <2>4 DEF Chances
    <2> QED BY <1>2, <1>a, <1>p, <1>n, <1>u, <2>5 DEF CostInv, Onward
  <1>3. ASSUME NEW q \in Reports, OnCommit(q) PROVE CostInv(r)'
    <2>1. /\ <<q, 0>> \in Messages /\ <<q, 0>>[1] = q
          /\ queue' = [queue EXCEPT ![<<q, 0>>] = @ + 1]
          /\ UNCHANGED <<report, tests, held, at, copy, lost, crashes>>
          /\ submit[q] = "committed" /\ submit' = [submit EXCEPT ![q] = "queued"]
      BY <1>3, MessagesMake DEF OnCommit, Delay, taskVars, ghostVars
    <2>2. Waiting(r)' = Waiting(r) + (IF q \in {r} THEN 1 ELSE 0)
      BY <2>1, CopyAdded DEF Waiting
    <2>3. NoIdOn(r)' = NoIdOn(r) /\ StartingOn(r)' = StartingOn(r)
      BY <2>1, WorkersAlone
    <2>4. CASE q = r
      <3>1. /\ Waiting(r) = 0 /\ Cardinality(NoIdOn(r)) = 0 /\ Cardinality(StartingOn(r)) = 0
            /\ Len(tests[r]) = 0 /\ submit'[r] = "queued"
        BY <2>1, <2>4, NobodyBefore DEF CostInv
      <3>2. Chances(r)' <= 1 /\ Chances(r)' \in Nat
        BY <2>2, <2>3, <3>1 DEF Chances
      <3> QED BY <1>a, <1>p, <2>1, <3>1, <3>2 DEF CostInv
    <2>5. CASE q # r
      <3>1. Chances(r)' = Chances(r) /\ submit'[r] = submit[r]
        BY <1>a, <1>p, <2>1, <2>2, <2>3, <2>5 DEF Chances
      <3> QED BY <2>1, <3>1 DEF CostInv
    <2> QED BY <2>4, <2>5
  <1>4. ASSUME NEW w \in Workers, NEW m \in Messages, TakeMessage(w, m) PROVE CostInv(r)'
    <2>1. /\ held[w] = NoMessage /\ queue[m] > 0 /\ queue' = [queue EXCEPT ![m] = @ - 1]
          /\ held' = [held EXCEPT ![w] = m] /\ copy' = [copy EXCEPT ![w] = report[m[1]]]
          /\ \A v \in Workers \ {w} : held'[v] = held[v] /\ at'[v] = at[v] /\ copy'[v] = copy[v]
          /\ UNCHANGED <<submit, report, tests, lost, crashes>>
          /\ at'[w] = "starting" => report[m[1]].test_id = NoTest
      BY <1>4 DEF TakeMessage, Deliver, Goto, siteVars, ghostVars
    <2>2. Waiting(r)' = Waiting(r) - (IF m[1] \in {r} THEN 1 ELSE 0)
      BY <2>1, CopyTaken DEF Waiting
    <2>3. /\ w \notin NoIdOn(r) /\ w \notin StartingOn(r)
          /\ w \in NoIdOn(r)' => m[1] = r
          /\ w \in StartingOn(r)' => m[1] = r /\ report[r].test_id = NoTest
      BY <2>1 DEF NoIdOn, StartingOn, ActingOn, JobOf
    <2>4. /\ Cardinality(NoIdOn(r)') <= Cardinality(NoIdOn(r)) + (IF m[1] = r THEN 1 ELSE 0)
          /\ report[r].test_id # NoTest
                => Cardinality(StartingOn(r)') = Cardinality(StartingOn(r))
      BY <1>a, <1>p, <1>w, <2>1, <2>3
    <2>5. Chances(r)' <= Chances(r) /\ Chances(r)' \in Nat /\ Chances(r) \in Nat
      BY <1>a, <1>p, <2>1, <2>2, <2>4 DEF Chances
    <2> QED BY <1>a, <1>p, <1>n, <1>u, <2>1, <2>5 DEF CostInv
  <1>5. ASSUME NEW w \in Workers, StartTest(w) \/ StartReplyLost(w) PROVE CostInv(r)'
    <2> DEFINE q == JobOf(w)
    <2>1. /\ at[w] = "starting" /\ held[w] # NoMessage /\ q \in Reports /\ submit[q] = "queued"
          /\ copy[w].test_id = NoTest
      BY <1>5, <1>b DEF StartTest, StartReplyLost, WorkerInv, IdsKnown
    <2>2. /\ UNCHANGED <<queue, held, submit, report, crashes>>
          /\ \A v \in Workers \ {w} : held'[v] = held[v] /\ at'[v] = at[v] /\ copy'[v] = copy[v]
          /\ at'[w] \in {"started", "failing"}
          /\ tests' = [tests EXCEPT ![q] = Append(@, "unfinished")]
      BY <1>5 DEF StartTest, StartReplyLost, Goto, Raise, queueVars, siteVars, ghostVars
    <2>3. /\ \/ lost' = lost /\ copy' = [copy EXCEPT ![w].test_id = Len(tests[q]) + 1]
             \/ lost' = [lost EXCEPT ![q] = @ + 1] /\ copy' = copy
      BY <1>5 DEF StartTest, StartReplyLost, ghostVars
    <2> w \in NoIdOn(r) <=> q = r
      BY <2>1 DEF NoIdOn, ActingOn
    <2> w \in StartingOn(r) <=> q = r
      BY <2>1 DEF StartingOn, ActingOn
    <2> w \notin StartingOn(r)'
      BY <2>2 DEF StartingOn
    <2>4. Waiting(r)' = Waiting(r)
      BY <2>2, <1>q
    <2> HIDE DEF q
    <2>5. CASE q = r
      <3>1. Len(tests'[r]) = Len(tests[r]) + 1 /\ submit'[r] = "queued"
        <4>1. tests[r] \in Seq(TestStates)
          BY DEF TypeOK, TestStates
        <4> QED BY <2>1, <2>2, <2>5, <4>1 DEF TypeOK
      <3>2. Cardinality(StartingOn(r)') = Cardinality(StartingOn(r)) - 1
        BY <1>w, <2>2, <2>5
      <3>3. CASE lost' = lost /\ copy' = [copy EXCEPT ![w].test_id = Len(tests[q]) + 1]
        <4>1. copy'[w].test_id = Len(tests[q]) + 1
          BY <3>3 DEF Row
        <4>2. copy'[w].test_id # NoTest
          BY <1>a, <1>p, <2>5, <4>1 DEF CostParts, NoTest
        <4>3. w \notin NoIdOn(r)'
          BY <4>2 DEF NoIdOn
        <4>4. Cardinality(NoIdOn(r)') = Cardinality(NoIdOn(r)) - 1
          BY <1>w, <2>2, <2>5, <4>3
        <4>5. Chances(r)' = Chances(r) - 1 /\ Chances(r) \in Nat
          BY <1>a, <1>p, <2>2, <2>4, <3>2, <4>4 DEF Chances
        <4> QED BY <1>a, <1>p, <1>n, <2>2, <3>1, <3>3, <4>5 DEF CostInv
      <3>4. CASE lost' = [lost EXCEPT ![q] = @ + 1] /\ copy' = copy
        <4>1. lost'[r] = lost[r] + 1
          BY <2>5, <3>4
        <4>2. Cardinality(NoIdOn(r)') <= Cardinality(NoIdOn(r))
          BY <1>w, <2>2, <2>5
        <4>3. /\ Chances(r) = IF report[r].test_id = NoTest THEN Waiting(r) + Cardinality(NoIdOn(r))
                              ELSE Cardinality(StartingOn(r))
              /\ Chances(r)' = IF report[r].test_id = NoTest
                               THEN Waiting(r)' + Cardinality(NoIdOn(r)')
                               ELSE Cardinality(StartingOn(r)')
          BY <2>2 DEF Chances
        <4>4. Chances(r)' <= Chances(r) /\ Chances(r) \in Nat /\ Chances(r)' \in Nat
          <5>1. CASE report[r].test_id = NoTest
            BY <1>a, <1>p, <2>4, <4>2, <4>3, <5>1
          <5>2. CASE report[r].test_id # NoTest
            BY <1>a, <1>p, <3>2, <4>3, <5>2
          <5> QED BY <5>1, <5>2
        <4>5. Len(tests'[r]) + Chances(r)' <= 1 + lost'[r] + crashes'
          BY <1>p, <1>n, <2>2, <3>1, <4>1, <4>4
        <4> QED BY <3>1, <4>5 DEF CostInv
      <3> QED BY <2>3, <3>3, <3>4
    <2>6. CASE q # r
      <3>1. tests'[r] = tests[r] /\ lost'[r] = lost[r]
        BY <2>2, <2>3, <2>6 DEF TypeOK
      <3>2. w \notin NoIdOn(r)'
        <4>1. JobOf(w)' # r
          BY <2>2, <2>6 DEF JobOf, q
        <4> QED BY <4>1 DEF NoIdOn, ActingOn
      <3>3. /\ Cardinality(StartingOn(r)') = Cardinality(StartingOn(r))
            /\ Cardinality(NoIdOn(r)') = Cardinality(NoIdOn(r))
        BY <1>w, <2>2, <2>6, <3>2
      <3>4. Chances(r)' = Chances(r) /\ submit'[r] = submit[r]
        BY <2>2, <2>4, <3>3 DEF Chances
      <3> QED BY <2>2, <3>1, <3>4 DEF CostInv
    <2> QED BY <2>5, <2>6
  <1>6. ASSUME NEW w \in Workers, RetryLater(w) PROVE CostInv(r)'
    <2> DEFINE q == JobOf(w)
               m == <<q, RetriesOf(w) + 1>>
    <2>1. held[w] # NoMessage /\ at[w] = "raised" /\ exc[w] = "transient"
      BY <1>6 DEF RetryLater, WorkerInv
    <2>2. m \in Messages /\ m[1] = q
      BY <1>6, <2>1, HeldIsMessage, MessagesMake DEF RetryLater, Retry, JobOf, RetriesOf
    <2>3. /\ queue' = [queue EXCEPT ![m] = @ + 1] /\ at'[w] = "finished"
          /\ \A v \in Workers \ {w} : held'[v] = held[v] /\ at'[v] = at[v] /\ copy'[v] = copy[v]
          /\ UNCHANGED <<held, copy, submit, report, tests, lost, crashes>>
      BY <1>6 DEF RetryLater, Retry, Goto, siteVars, ghostVars
    <2>4. /\ w \notin NoIdOn(r)' /\ w \notin StartingOn(r) /\ w \notin StartingOn(r)'
          /\ w \in NoIdOn(r) => q = r
          /\ q = r /\ report[r].test_id = NoTest => w \in NoIdOn(r)
      BY <2>1, <2>3 DEF NoIdOn, StartingOn, ActingOn, JobOf, IdsKnown, Doomed
    <2> HIDE DEF m
    <2>5. Waiting(r)' = Waiting(r) + (IF m[1] \in {r} THEN 1 ELSE 0)
      BY <2>2, <2>3, CopyAdded DEF Waiting
    <2> HIDE DEF q
    <2>6. /\ Cardinality(StartingOn(r)') = Cardinality(StartingOn(r))
          /\ q # r => Cardinality(NoIdOn(r)') = Cardinality(NoIdOn(r))
          /\ q = r /\ report[r].test_id = NoTest
                => Cardinality(NoIdOn(r)') = Cardinality(NoIdOn(r)) - 1
      BY <1>w, <2>3, <2>4
    <2>7. Chances(r)' = Chances(r)
      BY <1>a, <1>p, <2>2, <2>3, <2>5, <2>6 DEF Chances
    <2> QED BY <2>3, <2>7 DEF CostInv
  <1>7. ASSUME NEW w \in Workers, Finish(w) PROVE CostInv(r)'
    <2>1. /\ at[w] = "finished" /\ held'[w] = NoMessage
          /\ UNCHANGED <<queue, submit, report, tests, lost, crashes>>
          /\ \A v \in Workers \ {w} : held'[v] = held[v] /\ at'[v] = at[v] /\ copy'[v] = copy[v]
      BY <1>7 DEF Finish, Acknowledge, Goto, Forget, siteVars, ghostVars
    <2>2. /\ w \notin NoIdOn(r) /\ w \notin NoIdOn(r)'
          /\ w \notin StartingOn(r) /\ w \notin StartingOn(r)'
      BY <2>1 DEF NoIdOn, StartingOn, ActingOn
    <2>3. Chances(r)' = Chances(r)
      BY <1>q, <1>w, <2>1, <2>2 DEF Chances
    <2> QED BY <2>1, <2>3 DEF CostInv
  <1>8. ASSUME NEW w \in Workers, WorkerDies(w) PROVE CostInv(r)'
    <2>1. /\ held[w] # NoMessage /\ crashes' = crashes + 1 /\ held'[w] = NoMessage
          /\ queue' = [queue EXCEPT ![held[w]] = @ + 1]
          /\ UNCHANGED <<submit, report, tests, lost>>
          /\ \A v \in Workers \ {w} : held'[v] = held[v] /\ at'[v] = at[v] /\ copy'[v] = copy[v]
      BY <1>8 DEF WorkerDies, WorkerLost, Goto, Forget, siteVars, ghostVars
    <2>2. held[w] \in Messages
      BY <2>1
    <2>3. Waiting(r)' = Waiting(r) + (IF held[w][1] \in {r} THEN 1 ELSE 0)
      BY <2>1, <2>2, CopyAdded DEF Waiting
    <2>4. w \notin NoIdOn(r)' /\ w \notin StartingOn(r)'
      BY <2>1 DEF NoIdOn, StartingOn, ActingOn
    <2>5. /\ Cardinality(StartingOn(r)') <= Cardinality(StartingOn(r))
          /\ Cardinality(NoIdOn(r)') <= Cardinality(NoIdOn(r))
      BY <1>w, <2>1, <2>4
    <2>6. Waiting(r)' <= Waiting(r) + 1
      BY <1>a, <1>p, <2>3
    <2>7. /\ Chances(r) = IF report[r].test_id = NoTest THEN Waiting(r) + Cardinality(NoIdOn(r))
                          ELSE Cardinality(StartingOn(r))
          /\ Chances(r)' = IF report[r].test_id = NoTest
                           THEN Waiting(r)' + Cardinality(NoIdOn(r)')
                           ELSE Cardinality(StartingOn(r)')
      BY <2>1 DEF Chances
    <2>8. Chances(r)' <= Chances(r) + 1 /\ Chances(r)' \in Nat /\ Chances(r) \in Nat
      <3>1. CASE report[r].test_id = NoTest
        BY <1>a, <1>p, <2>5, <2>6, <2>7, <3>1
      <3>2. CASE report[r].test_id # NoTest
        BY <1>a, <1>p, <2>5, <2>7, <3>2
      <3> QED BY <3>1, <3>2
    <2>9. Len(tests'[r]) + Chances(r)' <= 1 + lost'[r] + crashes'
      BY <1>p, <1>n, <2>1, <2>8
    <2> QED BY <1>u, <2>1, <2>9 DEF CostInv
  <1>9. ASSUME NEW q \in Reports, SubmitGtmetrix(q) \/ OnCommitLost(q) \/ DeleteReport(q)
        PROVE  CostInv(r)'
    <2>1. report'[r].test_id = report[r].test_id
      BY <1>9 DEF SubmitGtmetrix, OnCommitLost, DeleteReport, Row
    <2>2. submit'[r] # "queued" => submit[r] # "queued"
      BY <1>9 DEF SubmitGtmetrix, OnCommitLost, DeleteReport
    <2>3. crashes' >= crashes
      BY CrashesGrow
    <2>4. UNCHANGED <<queue, held, at, copy, tests, lost>>
      BY <1>9 DEF SubmitGtmetrix, OnCommitLost, DeleteReport, PublisherLost, taskVars,
         ghostVars, queueVars
    <2> QED BY <1>1, <2>1, <2>2, <2>3, <2>4
  <1>10. ASSUME NEW q \in Reports, NEW i \in DOMAIN tests[q],
                NEW outcome \in {"completed", "ungraded"}, TestCompletes(q, i, outcome)
         PROVE  CostInv(r)'
    <2>1. tests[q] \in Seq(TestStates)
      BY DEF TypeOK, TestStates
    <2>2. Len([tests[q] EXCEPT ![i] = outcome]) = Len(tests[q])
      BY <2>1
    <2>3. tests' = [tests EXCEPT ![q] = [tests[q] EXCEPT ![i] = outcome]]
      BY <1>10 DEF TestCompletes
    <2>4. Len(tests'[r]) = Len(tests[r])
      BY <2>2, <2>3 DEF TypeOK
    <2>5. UNCHANGED <<queue, held, at, copy, report, submit, lost, crashes>>
      BY <1>10 DEF TestCompletes, taskVars, ghostVars, queueVars, siteVars
    <2> QED BY <1>1, <1>a, <1>p, <2>4, <2>5
  <1>11. ASSUME NEW w \in Workers,
                SaveTestId(w) \/ Inner(w) \/ MarkFailed(w) \/ SaveReport(w)
         PROVE  CostInv(r)'
    <2>1. UNCHANGED <<queue, held, copy, submit, tests, lost, crashes>>
      BY <1>11 DEF SaveTestId, Inner, PollCompleted, StartFails, PollFails, GiveUp, SaveRefused,
         SaveTestIdFails, MarkFailedRaises, TaskRaises, MarkFailed, SaveReport, queueVars,
         siteVars, ghostVars
    <2>2. at'[w] # "starting" /\ \A v \in Workers \ {w} : at'[v] = at[v]
      BY <1>11 DEF SaveTestId, Inner, PollCompleted, StartFails, PollFails, GiveUp, SaveRefused,
         SaveTestIdFails, MarkFailedRaises, TaskRaises, MarkFailed, SaveReport, Goto, Raise
    <2>3. Busy(w)
      BY <1>11 DEF SaveTestId, Inner, PollCompleted, StartFails, PollFails, GiveUp, SaveRefused,
         SaveTestIdFails, MarkFailedRaises, TaskRaises, MarkFailed, SaveReport, Busy, WorkerInv
    <2> QED BY <1>2, <2>1, <2>2, <2>3 DEF Onward
  <1>12. CASE UNCHANGED vars
    <2>1. UNCHANGED <<queue, held, at, copy, report, submit, tests, lost, crashes>>
      BY <1>12 DEF vars, taskVars, ghostVars, queueVars, siteVars
    <2> QED BY <1>1, <1>a, <1>p, <2>1
  <1> QED BY <1>3, <1>4, <1>5, <1>6, <1>7, <1>8, <1>9, <1>10, <1>11, <1>12
          DEF Next, WorkerStep, Inner, AllStopped

-----------------------------------------------------------------------------
CountInv == /\ Base
            /\ \A w \in Workers : IdsKnown(w)
            /\ \A r \in Reports : ChainInv(r) /\ CostInv(r)

\* No attempt and no test in the beginning.
LEMMA CountInit == Init => CountInv
  <1> SUFFICES ASSUME Init PROVE CountInv
    OBVIOUS
  <1>1. Base
    BY BaseInit
  <1>2. ASSUME NEW r \in Reports PROVE ChainInv(r) /\ CostInv(r)
    <2>1. /\ crashes = 0 /\ lost[r] = 0 /\ tests[r] = <<>> /\ submit[r] = "start"
          /\ report[r].test_id = NoTest
      BY DEF Init, InitQueue, NoRow
    <2>2. /\ Copies({r}) = {} /\ ActingOn(r) = {} /\ Waiting(r) = 0 /\ Acting(r) = 0
          /\ Cardinality(NoIdOn(r)) = 0
      BY <1>1, <2>1, NobodyBefore DEF Base
    <2>3. Finite(r)
      BY <2>2, FS_EmptySet DEF Finite
    <2> QED BY <2>1, <2>2, <2>3 DEF ChainInv, CostInv, Chances
  <1>3. \A w \in Workers : IdsKnown(w)
    BY DEF Init, InitQueue, IdsKnown
  <1> QED BY <1>1, <1>2, <1>3 DEF CountInv

\* The invariant of attempts and tests is inductive.
LEMMA CountStep == CountInv /\ [Next]_vars => CountInv'
  <1> SUFFICES ASSUME CountInv, [Next]_vars PROVE CountInv'
    OBVIOUS
  <1>1. Base'
    BY BaseStep DEF CountInv
  <1>2. (\A w \in Workers : IdsKnown(w))'
    BY IdsKnownStep DEF CountInv
  <1>3. ASSUME NEW r \in Reports PROVE ChainInv(r)' /\ CostInv(r)'
    <2>1. ChainInv(r)'
      BY ChainStep DEF CountInv
    <2> QED BY <2>1, CostStep DEF CountInv, ChainInv
  <1> QED BY <1>1, <1>2, <1>3 DEF CountInv

\* However many workers run, messages are redelivered and attempts retried, a
\* report has one chain of attempts, and one more for each process that died
\* (gtmetrix/tasks.py, raise self.retry; acks_late with reject_on_worker_lost).
THEOREM OneChainCorrect == Spec => []OneChainPerReport
  <1>1. CountInv => OneChainPerReport
    BY DEF CountInv, ChainInv, OneChainPerReport
  <1> QED BY CountInit, CountStep, <1>1, PTL DEF Spec

\* A submission costs one GTmetrix credit and at most one more for each reply that
\* was lost and each process that died (gtmetrix_service.py, start_test and the
\* save of its id before the polling).
THEOREM CreditsCorrect == Spec => []CreditsExplained
  <1>1. ASSUME CountInv, NEW r \in Reports PROVE Len(tests[r]) <= 1 + lost[r] + crashes
    <2>1. /\ Len(tests[r]) + Chances(r) <= 1 + lost[r] + crashes
          /\ TypeOK /\ Finite(r)
      BY <1>1 DEF CountInv, CostInv, ChainInv, Base
    <2>2. CostParts(r)
      BY <2>1, CostPartsAreNumbers
    <2>3. Chances(r) \in Nat
      BY <2>2 DEF Chances, CostParts
    <2> QED BY <2>1, <2>2, <2>3 DEF CostParts
  <1>2. CountInv => CreditsExplained
    BY <1>1 DEF CreditsExplained
  <1> QED BY CountInit, CountStep, <1>2, PTL DEF Spec
=============================================================================
