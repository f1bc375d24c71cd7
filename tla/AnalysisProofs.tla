---------------------------- MODULE AnalysisProofs ----------------------------
(***************************************************************************)
(* Proofs about module AnalysisTask, for any number of reports, workers,   *)
(* retries and crashes: types, the life of a report, and the history.      *)
(*                                                                         *)
(* While no process died a report has one attempt that may still write its *)
(* status (OneAtATime), and none once it is completed.  The history is     *)
(* bounded on both sides by sets that a step changes in one worker and one *)
(* report: what may still be counted beside what is and may be measured    *)
(* (AtMost), and the completed reports whose count is not to come          *)
(* (AtLeast).  A list that met no open transaction on the row is the       *)
(* committed one, and nobody has the row open (ListsAreCurrent).           *)
(***************************************************************************)
EXTENDS AnalysisTask, CeleryQueueProofs

\* What messages are: a job and a number of retries, and the next one of a chain.
LEMMA MessagesMake ==
    /\ \A r \in Jobs : <<r, 0>> \in Messages
    /\ \A m \in Messages : m = <<m[1], m[2]>> /\ m[1] \in Jobs /\ m[2] \in 0..MAX_RETRIES
    /\ \A m \in Messages : m[2] < MAX_RETRIES => <<m[1], m[2] + 1>> \in Messages
  BY RetriesAssumption DEF Messages

\* A worker is idle exactly when it has no message.
WorkerInv(w) == at[w] = "idle" <=> held[w] = NoMessage

\* A message is about a report whose request has queued it.
Sent == /\ \A m \in Messages : queue[m] > 0 => submit[m[1]] = "queued"
        /\ \A w \in Workers : held[w] # NoMessage => submit[JobOf(w)] = "queued"

Base == TypeOK /\ Sent /\ \A w \in Workers : WorkerInv(w)

\* A worker that holds something holds a message about a job.
LEMMA HeldIsMessage ==
    ASSUME TypeOK, NEW w \in Workers, held[w] # NoMessage
    PROVE  held[w] \in Messages /\ JobOf(w) \in Jobs /\ RetriesOf(w) \in 0..MAX_RETRIES
  BY MessagesMake DEF TypeOK, QueueTypeOK, JobOf, RetriesOf

\* Nothing is queued, held or stored in the beginning.
LEMMA BaseInit == Init => Base
  BY RetriesAssumption
     DEF Init, InitQueue, Base, TypeOK, QueueTypeOK, Sent, WorkerInv, Row, NoRow, NoCache,
         Places

-----------------------------------------------------------------------------
\* What the steps do to the messages, and to the rest of the site.

\* The instance SaveReport writes.
Saved == [status |-> "completed", measured |-> TRUE, is_deleted |-> FALSE]

\* Statements of a worker that leave the broker and the requests alone.
Inner(w) == \/ \E kind \in Errors : MarkFailed(w, kind)
            \/ GiveUp(w) \/ SaveRefused(w) \/ SaveReport(w)
            \/ WriteHistory(w) \/ CommitHistory(w) \/ UpsertFails(w)

Listing == ListHistory \/ StoreHistory \/ CacheExpires

\* Every step keeps the types; what a worker is at work on is a message.
LEMMA TypeStep == TypeOK /\ (\A w \in Workers : WorkerInv(w)) /\ [Next]_vars => TypeOK'
  <1> SUFFICES ASSUME TypeOK, \A w \in Workers : WorkerInv(w), [Next]_vars PROVE TypeOK'
    OBVIOUS
  <1> USE RetriesAssumption
  <1> USE DEF TypeOK, QueueTypeOK, Goto, Places, Errors
  <1>1. ASSUME NEW r \in Jobs,
               SubmitAnalysis(r) \/ OnCommit(r) \/ OnCommitLost(r) \/ DeleteReport(r)
        PROVE  TypeOK'
    <2>1. <<r, 0>> \in Messages
      BY MessagesMake
    <2>2. CASE SubmitAnalysis(r) \/ DeleteReport(r)
      <3>1. [report[r] EXCEPT !.status = "pending"] \in Row
            /\ [report[r] EXCEPT !.is_deleted = TRUE] \in Row
        BY DEF Row
      <3>2. report' \in [Jobs -> Row]
        BY <2>2, <3>1 DEF SubmitAnalysis, DeleteReport
      <3> QED BY <2>2, <3>2 DEF SubmitAnalysis, DeleteReport, historyVars, cacheVars, queueVars
    <2>3. CASE OnCommit(r)
      BY <2>1, <2>3 DEF OnCommit, Delay, historyVars, cacheVars
    <2>4. CASE OnCommitLost(r)
      BY <2>4 DEF OnCommitLost, PublisherLost, historyVars, cacheVars
    <2> QED BY <1>1, <2>2, <2>3, <2>4
  <1>2. ASSUME NEW w \in Workers, NEW m \in Messages, TakeMessage(w, m) PROVE TypeOK'
    BY <1>2 DEF TakeMessage, Deliver, siteVars, historyVars, cacheVars
  <1>3. ASSUME NEW w \in Workers, Inner(w) PROVE TypeOK'
    <2>1. JobOf(w) \in Jobs
      BY <1>3, HeldIsMessage DEF Inner, WorkerInv, MarkFailed, GiveUp, SaveRefused, SaveReport,
         WriteHistory, CommitHistory, UpsertFails
    <2>2. CASE \E kind \in Errors : MarkFailed(w, kind)
      <3>1. \A r \in Jobs : [report[r] EXCEPT !.status = "failed"] \in Row
        BY DEF Row
      <3>2. report' \in [Jobs -> Row]
        BY <2>1, <2>2, <3>1 DEF MarkFailed
      <3> QED BY <2>2, <3>2 DEF MarkFailed, historyVars, cacheVars, queueVars
    <2>3. CASE SaveReport(w)
      <3>1. Saved \in Row /\ report' = [report EXCEPT ![JobOf(w)] = Saved]
        BY <2>3 DEF SaveReport, Saved, Row
      <3>2. report' \in [Jobs -> Row]
        BY <3>1
      <3> QED BY <2>3, <3>2 DEF SaveReport, historyVars, cacheVars, queueVars
    <2>4. CASE GiveUp(w) \/ SaveRefused(w)
      BY <2>1, <2>4 DEF GiveUp, SaveRefused, siteVars, historyVars, cacheVars, queueVars
    <2>5. CASE WriteHistory(w)
      BY <2>5 DEF WriteHistory, MetReader, NoCache, siteVars, queueVars
    <2>6. CASE CommitHistory(w)
      BY <2>6 DEF CommitHistory, EndTransaction, siteVars, cacheVars, queueVars
    <2>7. CASE UpsertFails(w)
      BY <2>1, <2>7 DEF UpsertFails, EndTransaction, siteVars, cacheVars, queueVars
    <2> QED BY <1>3, <2>2, <2>3, <2>4, <2>5, <2>6, <2>7 DEF Inner
  <1>4. ASSUME NEW w \in Workers, RetryLater(w) PROVE TypeOK'
    <2>1. held[w] # NoMessage
      BY <1>4 DEF WorkerInv, RetryLater
    <2>2. <<JobOf(w), RetriesOf(w) + 1>> \in Messages
      BY <1>4, <2>1, HeldIsMessage, MessagesMake DEF RetryLater, Retry, JobOf, RetriesOf
    <2> QED BY <1>4, <2>2 DEF RetryLater, Retry, siteVars, historyVars, cacheVars
  <1>5. ASSUME NEW w \in Workers, Finish(w) PROVE TypeOK'
    BY <1>5 DEF Finish, Acknowledge, siteVars, historyVars, cacheVars
  <1>6. ASSUME NEW w \in Workers, WorkerDies(w) PROVE TypeOK'
    <2>1. held[w] \in Messages /\ queue[held[w]] \in Nat
      BY <1>6, HeldIsMessage DEF WorkerDies, WorkerLost
    <2>2. queue' \in [Messages -> Nat] /\ crashes' \in 0..MaxCrashes
      BY <1>6, <2>1 DEF WorkerDies, WorkerLost
    <2>3. held' \in [Workers -> Messages \cup {NoMessage}]
      BY <1>6 DEF WorkerDies, WorkerLost
    <2> QED BY <1>6, <2>2, <2>3 DEF WorkerDies, EndTransaction, siteVars, cacheVars
  <1>7. CASE Listing
    <2>1. met' \subseteq {"reader", "cached"}
      BY <1>7 DEF Listing, ListHistory, StoreHistory, CacheExpires
    <2>2. cached' \in Nat \cup {NoCache}
      BY <1>7 DEF Listing, ListHistory, StoreHistory, CacheExpires
    <2>3. reader' \in [place : {"idle", "listed"}, seen : Nat]
      BY <1>7 DEF Listing, ListHistory, StoreHistory, CacheExpires
    <2> QED BY <1>7, <2>1, <2>2, <2>3
            DEF Listing, ListHistory, StoreHistory, CacheExpires, siteVars, historyVars, queueVars
  <1>8. CASE UNCHANGED vars
    BY <1>8 DEF vars, queueVars, siteVars, historyVars, cacheVars
  <1> QED BY <1>1, <1>2, <1>3, <1>4, <1>5, <1>6, <1>7, <1>8
          DEF Next, WorkerStep, Inner, Listing

-----------------------------------------------------------------------------
\* An attempt that may still write the status of its report, or publish another.
Busy(w) == held[w] # NoMessage /\ at[w] \in {"fetching", "retrying"}

\* A worker goes on with its message.
Work(w) == /\ at[w] \notin {"idle", "finished"}
           /\ \A v \in Workers : v # w => at'[v] = at[v]
           /\ at'[w] # "idle"
           /\ at'[w] \in {"fetching", "retrying"} => at[w] \in {"fetching", "retrying"}
           /\ UNCHANGED <<queueVars, submit>>

\* Nothing moves but a request, a row or the cache, or a process dies that has no
\* message.
Elsewhere == /\ UNCHANGED <<queue, held, at>>
             /\ \A r \in Jobs : submit[r] = "queued" <=> submit'[r] = "queued"

Moves == \/ Elsewhere
         \/ \E r \in Jobs : OnCommit(r)
         \/ \E w \in Workers, m \in Messages : TakeMessage(w, m)
         \/ \E w \in Workers : Work(w) \/ RetryLater(w) \/ Finish(w) \/ WorkerDies(w)

\* Of queue, workers and places a step changes what one of the Moves changes.
LEMMA StepsAreMoves ==
    ASSUME TypeOK, [Next]_vars
    PROVE  Moves
  <1>1. ASSUME NEW r \in Jobs, SubmitAnalysis(r) \/ OnCommitLost(r) \/ DeleteReport(r)
        PROVE  Elsewhere
    BY <1>1 DEF SubmitAnalysis, OnCommitLost, DeleteReport, PublisherLost, Elsewhere, TypeOK,
       queueVars
  <1>2. ASSUME Listing PROVE Elsewhere
    BY <1>2 DEF Listing, ListHistory, StoreHistory, CacheExpires, Elsewhere, queueVars, siteVars
  <1>3. ASSUME NEW w \in Workers, Inner(w) PROVE Work(w)
    BY <1>3 DEF Inner, MarkFailed, GiveUp, SaveRefused, SaveReport, WriteHistory, CommitHistory,
       UpsertFails, Goto, Work, TypeOK, siteVars, queueVars
  <1>4. ASSUME UNCHANGED vars PROVE Elsewhere
    <2>1. UNCHANGED <<queue, held, at, submit>>
      BY <1>4 DEF vars, queueVars, siteVars
    <2> QED BY <2>1 DEF Elsewhere
  <1> QED BY <1>1, <1>2, <1>3, <1>4 DEF Next, WorkerStep, Inner, Listing, Moves

\* Only the submission that commits makes the first message about a report.
LEMMA SentStep == Base /\ [Next]_vars => Sent'
  <1> SUFFICES ASSUME Base, [Next]_vars PROVE Sent'
    OBVIOUS
  <1> TypeOK /\ Sent /\ (\A w \in Workers : WorkerInv(w)) /\ Moves
    BY StepsAreMoves DEF Base
  <1> USE DEF Sent, JobOf, TypeOK, QueueTypeOK
  <1>1. CASE Elsewhere
    <2>1. \A m \in Messages : m[1] \in Jobs
      BY MessagesMake
    <2>2. \A w \in Workers : held[w] # NoMessage => held[w][1] \in Jobs
      BY <2>1
    <2> QED BY <1>1, <2>1, <2>2 DEF Elsewhere
  <1>2. ASSUME NEW r \in Jobs, OnCommit(r) PROVE Sent'
    <2>1. <<r, 0>> \in Messages /\ <<r, 0>>[1] = r
      BY MessagesMake
    <2>2. \A m \in Messages : m # <<r, 0>> => queue'[m] = queue[m]
      BY <1>2 DEF OnCommit, Delay
    <2>3. submit' = [submit EXCEPT ![r] = "queued"] /\ held' = held
      BY <1>2 DEF OnCommit, Delay
    <2>4. \A q \in Jobs : submit[q] = "queued" => submit'[q] = "queued"
      BY <2>3
    <2>5. submit'[r] = "queued"
      BY <2>3
    <2>6. \A m \in Messages : m[1] \in Jobs
      BY MessagesMake
    <2>7. \A w \in Workers : held[w] # NoMessage => held[w][1] \in Jobs
      BY <2>6
    <2> QED BY <2>1, <2>2, <2>3, <2>4, <2>5, <2>6, <2>7
  <1>3. ASSUME NEW w \in Workers, NEW m \in Messages, TakeMessage(w, m) PROVE Sent'
    BY <1>3 DEF TakeMessage, Deliver, siteVars
  <1>4. ASSUME NEW w \in Workers, Work(w) PROVE Sent'
    BY <1>4 DEF Work, queueVars
  <1>5. ASSUME NEW w \in Workers, RetryLater(w) PROVE Sent'
    <2>1. submit[JobOf(w)] = "queued"
      BY <1>5 DEF RetryLater, WorkerInv
    <2> DEFINE m == <<JobOf(w), RetriesOf(w) + 1>>
    <2>2. m[1] = JobOf(w) /\ queue' = [queue EXCEPT ![m] = @ + 1] /\ UNCHANGED <<held, submit>>
      BY <1>5 DEF RetryLater, Retry, siteVars
    <2> HIDE DEF m
    <2> QED BY <2>1, <2>2
  <1>6. ASSUME NEW w \in Workers, Finish(w) \/ WorkerDies(w) PROVE Sent'
    BY <1>6 DEF Finish, Acknowledge, WorkerDies, WorkerLost, siteVars
  <1> QED BY <1>1, <1>2, <1>3, <1>4, <1>5, <1>6 DEF Moves

\* What a place says of its worker holds after every step, of that worker or of another.
LEMMA WorkersStep ==
    ASSUME Base, [Next]_vars, NEW v \in Workers
    PROVE  WorkerInv(v)'
  <1> TypeOK /\ WorkerInv(v) /\ Moves
    BY StepsAreMoves DEF Base
  <1> USE DEF WorkerInv, TypeOK, QueueTypeOK
  <1>1. ASSUME NEW w \in Workers, NEW m \in Messages, TakeMessage(w, m) PROVE WorkerInv(v)'
    BY <1>1, NoMessageAssumption DEF TakeMessage, Deliver, Goto
  <1>2. ASSUME NEW w \in Workers, Work(w) PROVE WorkerInv(v)'
    BY <1>2 DEF Work, queueVars
  <1>3. ASSUME NEW w \in Workers, RetryLater(w) PROVE WorkerInv(v)'
    BY <1>3 DEF RetryLater, Retry, Goto
  <1>4. ASSUME NEW w \in Workers, Finish(w) \/ WorkerDies(w) PROVE WorkerInv(v)'
    BY <1>4 DEF Finish, WorkerDies, Acknowledge, WorkerLost, Goto
  <1>5. ASSUME NEW r \in Jobs, OnCommit(r) PROVE WorkerInv(v)'
    BY <1>5 DEF OnCommit, Delay
  <1>6. CASE Elsewhere
    BY <1>6 DEF Elsewhere
  <1> QED BY <1>1, <1>2, <1>3, <1>4, <1>5, <1>6 DEF Moves

\* The base invariant is inductive.
LEMMA BaseStep == Base /\ [Next]_vars => Base'
  <1> SUFFICES ASSUME Base, [Next]_vars PROVE Base'
    OBVIOUS
  <1>1. TypeOK'
    BY TypeStep DEF Base
  <1>2. Sent'
    BY SentStep
  <1>3. (\A w \in Workers : WorkerInv(w))'
    BY WorkersStep
  <1> QED BY <1>1, <1>2, <1>3 DEF Base

\* Reports, attempts, the history row and its cached list stay well formed
\* (analysis/models, the columns of AnalysisReport and AnalysisHistory; tasks.py).
THEOREM AnalysisTypeCorrect == Spec => []TypeOK
  <1>1. Base => TypeOK
    BY DEF Base
  <1> QED BY BaseInit, BaseStep, <1>1, PTL DEF Spec

-----------------------------------------------------------------------------
\* While no process died a report has one message, waiting or busy.
OneAtATime ==
    /\ \A m \in Messages : queue[m] <= 1
    /\ \A m, n \in Messages : queue[m] > 0 /\ queue[n] > 0 /\ m[1] = n[1] => m = n
    /\ \A m \in Messages, w \in Workers : queue[m] > 0 /\ Busy(w) => JobOf(w) # m[1]
    /\ \A w, v \in Workers : Busy(w) /\ Busy(v) /\ JobOf(w) = JobOf(v) => w = v

\* No attempt at report r is to come, or may still write its status.
Quiet(r) == /\ \A m \in Messages : queue[m] > 0 => m[1] # r
            /\ \A w \in Workers : Busy(w) => JobOf(w) # r

\* The count of processes that died never goes down.
LEMMA CrashesGrow ==
    ASSUME TypeOK, [Next]_vars
    PROVE  /\ crashes \in Nat
           /\ crashes' = crashes \/ crashes' = crashes + 1
  <1>1. crashes \in Nat
    BY RetriesAssumption DEF TypeOK, QueueTypeOK
  <1>2. UNCHANGED vars => crashes' = crashes
    BY DEF vars, queueVars
  <1>3. \A w \in Workers : WorkerDies(w) => crashes' = crashes + 1
    BY DEF WorkerDies, WorkerLost
  <1>4. \A r \in Jobs : OnCommitLost(r) => crashes' = crashes + 1
    BY DEF OnCommitLost, PublisherLost
  <1> QED BY <1>1, <1>2, <1>3, <1>4
          DEF Next, WorkerStep, SubmitAnalysis, OnCommit, DeleteReport, TakeMessage, MarkFailed,
              RetryLater, GiveUp, SaveRefused, SaveReport, WriteHistory, CommitHistory, UpsertFails,
              Finish, ListHistory, StoreHistory, CacheExpires, Delay, Deliver, Retry, Acknowledge,
              queueVars

\* Without a crash, a retry is published by the one attempt there is, which then ends.
LEMMA OneAtATimeStep ==
    ASSUME Base, OneAtATime, [Next]_vars, crashes = 0, crashes' = 0
    PROVE  OneAtATime'
  <1> TypeOK /\ Sent /\ (\A w \in Workers : WorkerInv(w)) /\ Moves
    BY StepsAreMoves DEF Base
  <1> QueueTypeOK /\ at \in [Workers -> Places]
    BY DEF TypeOK
  <1> USE DEF QueueTypeOK, OneAtATime, JobOf, Busy
  <1>1. CASE Elsewhere
    BY <1>1 DEF Elsewhere
  <1>2. ASSUME NEW r \in Jobs, OnCommit(r) PROVE OneAtATime'
    <2>1. <<r, 0>> \in Messages /\ <<r, 0>>[1] = r
      BY MessagesMake
    <2>2. /\ \A m \in Messages : m[1] = r => ~(queue[m] > 0)
          /\ \A w \in Workers : held[w] # NoMessage => JobOf(w) # r
      BY <1>2 DEF OnCommit, Sent
    <2>3. queue' = [queue EXCEPT ![<<r, 0>>] = @ + 1] /\ held' = held /\ at' = at
      BY <1>2 DEF OnCommit, Delay
    <2>4. \A m \in Messages : /\ m # <<r, 0>> => queue'[m] = queue[m]
                              /\ queue'[<<r, 0>>] = 1
      BY <2>1, <2>2, <2>3
    <2> QED BY <2>1, <2>2, <2>3, <2>4
  <1>3. ASSUME NEW w \in Workers, NEW m \in Messages, TakeMessage(w, m) PROVE OneAtATime'
    <2>1. /\ held[w] = NoMessage /\ queue[m] = 1
          /\ \A n \in Messages : /\ n # m => queue'[n] = queue[n]
                                 /\ queue'[m] = 0
          /\ \A v \in Workers : /\ v # w => held'[v] = held[v] /\ at'[v] = at[v]
                                /\ held'[w] = m
      BY <1>3 DEF TakeMessage, Deliver, Goto
    <2>2. \A n \in Messages : queue'[n] <= 1 /\ (queue'[n] > 0 => n # m /\ queue[n] > 0)
      BY <2>1
    <2>3. \A n \in Messages : queue'[n] > 0 => n[1] # m[1]
      BY <2>1, <2>2
    <2> QED BY <2>1, <2>2, <2>3
  <1>4. ASSUME NEW w \in Workers, Work(w) PROVE OneAtATime'
    <2>1. /\ queue' = queue /\ held' = held
          /\ \A v \in Workers : v # w => at'[v] = at[v]
      BY <1>4 DEF Work, queueVars
    <2>2. \A v \in Workers : Busy(v)' => Busy(v)
      BY <1>4, <2>1 DEF Work
    <2> QED BY <2>1, <2>2
  <1>5. ASSUME NEW w \in Workers, RetryLater(w) PROVE OneAtATime'
    <2> DEFINE m == <<JobOf(w), RetriesOf(w) + 1>>
    <2>1. held[w] # NoMessage /\ Busy(w)
      BY <1>5 DEF RetryLater, WorkerInv
    <2>2. m \in Messages /\ m[1] = JobOf(w)
      BY <1>5, <2>1, HeldIsMessage, MessagesMake DEF RetryLater, Retry, RetriesOf
    <2>3. \A n \in Messages : n[1] = JobOf(w) => queue[n] = 0
      BY <2>1
    <2>4. \A n \in Messages : /\ n # m => queue'[n] = queue[n]
                              /\ queue'[m] = 1
      BY <1>5, <2>2, <2>3 DEF RetryLater, Retry
    <2>5. /\ held' = held /\ at'[w] = "finished"
          /\ \A v \in Workers : v # w => at'[v] = at[v]
      BY <1>5 DEF RetryLater, Retry, Goto
    <2> HIDE DEF m
    <2>6. \A v \in Workers : Busy(v)' => Busy(v) /\ v # w
      BY <2>5
    <2>7. \A v \in Workers : Busy(v)' => JobOf(v) # JobOf(w)
      BY <2>1, <2>6
    <2> QED BY <2>2, <2>3, <2>4, <2>5, <2>6, <2>7
  <1>6. ASSUME NEW w \in Workers, Finish(w) PROVE OneAtATime'
    BY <1>6 DEF Finish, Acknowledge, Goto
  <1>7. ASSUME NEW w \in Workers, WorkerDies(w) PROVE FALSE
    BY <1>7 DEF WorkerDies, WorkerLost
  <1> QED BY <1>1, <1>2, <1>3, <1>4, <1>5, <1>6, <1>7 DEF Moves

\* Once no attempt at a report may write, none appears as long as no process dies.
LEMMA QuietStays ==
    ASSUME Base, [Next]_vars, crashes = 0, crashes' = 0, NEW r \in Jobs, Quiet(r),
           ~OnCommit(r)
    PROVE  Quiet(r)'
  <1> TypeOK /\ (\A w \in Workers : WorkerInv(w)) /\ Moves
    BY StepsAreMoves DEF Base
  <1> QueueTypeOK /\ at \in [Workers -> Places]
    BY DEF TypeOK
  <1> USE DEF QueueTypeOK, Quiet, JobOf, Busy
  <1>1. CASE Elsewhere
    BY <1>1 DEF Elsewhere
  <1>2. ASSUME NEW q \in Jobs, OnCommit(q) PROVE Quiet(r)'
    <2>1. q # r /\ <<q, 0>>[1] = q /\ <<q, 0>> \in Messages
      BY <1>2, MessagesMake
    <2>2. \A m \in Messages : m # <<q, 0>> => queue'[m] = queue[m]
      BY <1>2 DEF OnCommit, Delay
    <2> QED BY <1>2, <2>1, <2>2 DEF OnCommit, Delay
  <1>3. ASSUME NEW w \in Workers, NEW m \in Messages, TakeMessage(w, m) PROVE Quiet(r)'
    BY <1>3 DEF TakeMessage, Deliver, Goto
  <1>4. ASSUME NEW w \in Workers, Work(w) PROVE Quiet(r)'
    <2>1. /\ queue' = queue /\ held' = held
          /\ \A v \in Workers : v # w => at'[v] = at[v]
      BY <1>4 DEF Work, queueVars
    <2>2. \A v \in Workers : Busy(v)' => Busy(v)
      BY <1>4, <2>1 DEF Work
    <2> QED BY <2>1, <2>2
  <1>5. ASSUME NEW w \in Workers, RetryLater(w) PROVE Quiet(r)'
    <2> DEFINE m == <<JobOf(w), RetriesOf(w) + 1>>
    <2>1. held[w] # NoMessage /\ JobOf(w) # r
      BY <1>5 DEF RetryLater, WorkerInv
    <2>2. m \in Messages /\ m[1] # r
      BY <1>5, <2>1, HeldIsMessage, MessagesMake DEF RetryLater, Retry, RetriesOf
    <2>3. \A n \in Messages : n # m => queue'[n] = queue[n]
      BY <1>5 DEF RetryLater, Retry
    <2>4. /\ held' = held /\ at'[w] = "finished"
          /\ \A v \in Workers : v # w => at'[v] = at[v]
      BY <1>5 DEF RetryLater, Retry, Goto
    <2> HIDE DEF m
    <2> QED BY <2>2, <2>3, <2>4
  <1>6. ASSUME NEW w \in Workers, Finish(w) PROVE Quiet(r)'
    BY <1>6 DEF Finish, Acknowledge, Goto
  <1>7. ASSUME NEW w \in Workers, WorkerDies(w) PROVE FALSE
    BY <1>7 DEF WorkerDies, WorkerLost
  <1> QED BY <1>1, <1>2, <1>3, <1>4, <1>5, <1>6, <1>7 DEF Moves

-----------------------------------------------------------------------------
\* A row is there once its request has committed it; while no process died, the
\* attempt that completes a report is the last one to write its status.
StageInv(r) == /\ submit[r] = "start" <=> report[r].status = "none"
               /\ submit[r] = "committed" => report[r].status = "pending"
               /\ crashes = 0 /\ report[r].status = "completed" => Quiet(r)

LifeInv == /\ Base
           /\ crashes = 0 => OneAtATime
           /\ \A r \in Jobs : StageInv(r)

\* No report has begun its life in the beginning.
LEMMA LifeInit == Init => LifeInv
  <1> SUFFICES ASSUME Init PROVE LifeInv
    OBVIOUS
  <1>1. Base
    BY BaseInit
  <1>2. OneAtATime
    BY DEF Init, InitQueue, OneAtATime, Busy
  <1>3. \A r \in Jobs : StageInv(r)
    BY DEF Init, StageInv, NoRow
  <1> QED BY <1>1, <1>2, <1>3 DEF LifeInv

StatusOf == [r \in Jobs |-> report[r].status]

\* Worker w writes an outcome over the status of its report.
Writes(w, s) == /\ at[w] = "fetching"
                /\ StatusOf' = [StatusOf EXCEPT ![JobOf(w)] = s]
                /\ s = "completed" => at'[w] \notin {"fetching", "retrying"}
                /\ Work(w)

\* The statuses change by a submission or by what one worker writes, one report at a time.
LEMMA StatusMoves ==
    ASSUME Base, [Next]_vars
    PROVE  \/ StatusOf' = StatusOf
           \/ \E r \in Jobs : /\ SubmitAnalysis(r)
                              /\ StatusOf' = [StatusOf EXCEPT ![r] = "pending"]
           \/ \E w \in Workers, s \in {"failed", "completed"} : Writes(w, s)
  <1> TypeOK /\ (\A w \in Workers : WorkerInv(w)) /\ (\A r \in Jobs : report[r] \in Row)
    BY DEF Base, TypeOK
  <1>1. ASSUME NEW r \in Jobs, SubmitAnalysis(r)
        PROVE  StatusOf' = [StatusOf EXCEPT ![r] = "pending"]
    <2>1. report' = [report EXCEPT ![r] = [report[r] EXCEPT !.status = "pending"]]
      BY <1>1 DEF SubmitAnalysis
    <2> QED BY <2>1 DEF TypeOK, Row, StatusOf
  <1>2. ASSUME NEW r \in Jobs, DeleteReport(r) PROVE StatusOf' = StatusOf
    <2>1. report' = [report EXCEPT ![r] = [report[r] EXCEPT !.is_deleted = TRUE]]
      BY <1>2 DEF DeleteReport
    <2> QED BY <2>1 DEF TypeOK, Row, StatusOf
  <1>3. ASSUME NEW w \in Workers, NEW kind \in Errors, MarkFailed(w, kind)
        PROVE  Writes(w, "failed")
    <2>1. report' = [report EXCEPT ![JobOf(w)] = [report[JobOf(w)] EXCEPT !.status = "failed"]]
      BY <1>3 DEF MarkFailed
    <2>2. StatusOf' = [StatusOf EXCEPT ![JobOf(w)] = "failed"]
      BY <2>1 DEF TypeOK, Row, StatusOf
    <2>3. Work(w)
      BY <1>3 DEF MarkFailed, Work, Goto, TypeOK, queueVars
    <2> QED BY <1>3, <2>2, <2>3 DEF Writes, MarkFailed
  <1>4. ASSUME NEW w \in Workers, SaveReport(w) PROVE Writes(w, "completed")
    <2>1. report' = [report EXCEPT ![JobOf(w)] = Saved] /\ Saved.status = "completed"
      BY <1>4 DEF SaveReport, Saved
    <2>2. StatusOf' = [StatusOf EXCEPT ![JobOf(w)] = "completed"]
      BY <2>1 DEF TypeOK, StatusOf
    <2>3. Work(w) /\ at'[w] \notin {"fetching", "retrying"}
      BY <1>4 DEF SaveReport, Work, Goto, TypeOK, queueVars
    <2> QED BY <1>4, <2>2, <2>3 DEF Writes, SaveReport
  <1>5. report' = report => StatusOf' = StatusOf
    BY DEF StatusOf
  <1>6. UNCHANGED vars => report' = report
    BY DEF vars, siteVars
  <1> QED BY <1>1, <1>2, <1>3, <1>4, <1>5, <1>6
          DEF Next, WorkerStep, OnCommit, OnCommitLost, TakeMessage, RetryLater, GiveUp,
              SaveRefused, WriteHistory, CommitHistory, UpsertFails, Finish, WorkerDies,
              ListHistory, StoreHistory, CacheExpires, siteVars

\* A worker that writes an outcome works on a report that was queued.
LEMMA WritersAreBusy ==
    ASSUME Base, NEW w \in Workers, NEW s, Writes(w, s)
    PROVE  Busy(w) /\ JobOf(w) \in Jobs /\ submit[JobOf(w)] = "queued"
  <1>1. TypeOK /\ WorkerInv(w) /\ Sent
    BY DEF Base
  <1> QED BY <1>1, HeldIsMessage DEF Writes, WorkerInv, Busy, Sent

\* How the request of a report moves.
LEMMA RequestMoves ==
    ASSUME TypeOK, [Next]_vars, NEW r \in Jobs
    PROVE  \/ submit'[r] = submit[r]
           \/ SubmitAnalysis(r) /\ submit'[r] = "committed"
           \/ submit[r] = "committed" /\ submit'[r] \in {"queued", "unqueued"}
  <1>1. ASSUME NEW q \in Jobs, SubmitAnalysis(q) \/ OnCommit(q) \/ OnCommitLost(q)
        PROVE  \/ submit'[r] = submit[r]
               \/ SubmitAnalysis(r) /\ submit'[r] = "committed"
               \/ submit[r] = "committed" /\ submit'[r] \in {"queued", "unqueued"}
    BY <1>1 DEF SubmitAnalysis, OnCommit, OnCommitLost, TypeOK
  <1>2. UNCHANGED vars => submit' = submit
    BY DEF vars, siteVars
  <1> QED BY <1>1, <1>2
          DEF Next, WorkerStep, DeleteReport, TakeMessage, MarkFailed, RetryLater, GiveUp,
              SaveRefused, SaveReport, WriteHistory, CommitHistory, UpsertFails, Finish,
              WorkerDies, ListHistory, StoreHistory, CacheExpires, siteVars

\* Each report stays in the stage its status says, or moves to the next one.
LEMMA StagesStep ==
    ASSUME LifeInv, [Next]_vars, NEW r \in Jobs
    PROVE  StageInv(r)'
  <1>1. Base /\ TypeOK /\ StageInv(r) /\ (crashes = 0 => OneAtATime)
    BY DEF LifeInv, Base
  <1>2. crashes' = 0 => crashes = 0
    BY <1>1, CrashesGrow
  <1>3. \/ submit'[r] = submit[r]
        \/ SubmitAnalysis(r) /\ submit'[r] = "committed"
        \/ submit[r] = "committed" /\ submit'[r] \in {"queued", "unqueued"}
    BY <1>1, RequestMoves
  <1>4. SubmitAnalysis(r) => submit[r] = "start" /\ report[r].status = "none"
    BY <1>1 DEF SubmitAnalysis, StageInv
  <1>5. StatusOf[r] = report[r].status /\ StatusOf'[r] = report'[r].status
    BY DEF StatusOf
  <1>6. ASSUME StatusOf'[r] = StatusOf[r] PROVE StageInv(r)'
    <2>1. ASSUME crashes' = 0, report'[r].status = "completed" PROVE Quiet(r)'
      <3>1. ~OnCommit(r)
        BY <1>1, <1>5, <1>6, <2>1 DEF StageInv, OnCommit
      <3> QED BY <1>1, <1>2, <1>5, <1>6, <2>1, <3>1, QuietStays DEF StageInv
    <2>2. ~SubmitAnalysis(r)
      <3>1. SubmitAnalysis(r) => report'[r].status = "pending"
        BY <1>1 DEF SubmitAnalysis, TypeOK, Row
      <3> QED BY <1>4, <1>5, <1>6, <3>1
    <2>3. /\ submit'[r] = "start" <=> submit[r] = "start"
          /\ submit'[r] = "committed" => submit[r] = "committed"
      BY <1>3, <2>2
    <2> QED BY <1>1, <1>2, <1>5, <1>6, <2>1, <2>3 DEF StageInv
  <1>7. CASE StatusOf' = StatusOf
    BY <1>6, <1>7
  <1>8. ASSUME NEW q \in Jobs, SubmitAnalysis(q), StatusOf' = [StatusOf EXCEPT ![q] = "pending"]
        PROVE  StageInv(r)'
    <2>1. CASE q # r
      BY <1>6, <1>8, <2>1 DEF StatusOf
    <2>2. CASE q = r
      <3>1. report'[r].status = "pending"
        BY <1>5, <1>8, <2>2 DEF StatusOf
      <3>2. submit'[r] = "committed"
        BY <1>1, <1>8, <2>2 DEF SubmitAnalysis, TypeOK
      <3> QED BY <3>1, <3>2 DEF StageInv
    <2> QED BY <2>1, <2>2
  <1>9. ASSUME NEW w \in Workers, NEW s \in {"failed", "completed"}, Writes(w, s)
        PROVE  StageInv(r)'
    <2>1. Busy(w) /\ JobOf(w) \in Jobs /\ submit[JobOf(w)] = "queued"
      BY <1>1, <1>9, WritersAreBusy
    <2>2. CASE JobOf(w) # r
      BY <1>6, <1>9, <2>2 DEF Writes, StatusOf
    <2>3. CASE JobOf(w) = r
      <3>1. report'[r].status = s
        BY <1>5, <1>9, <2>3 DEF Writes, StatusOf
      <3>2. submit'[r] = "queued"
        BY <1>3, <1>4, <2>1, <2>3
      <3>3. ASSUME crashes' = 0, s = "completed" PROVE Quiet(r)'
        <4>1. OneAtATime
          BY <1>1, <1>2, <3>3
        <4>2. /\ \A m \in Messages : queue[m] > 0 => m[1] # r
              /\ \A v \in Workers : v # w /\ Busy(v) => JobOf(v) # r
          BY <2>1, <2>3, <4>1 DEF OneAtATime
        <4>3. /\ queue' = queue /\ held' = held
              /\ \A v \in Workers : v # w => at'[v] = at[v]
              /\ at'[w] \notin {"fetching", "retrying"}
          BY <1>9, <3>3 DEF Writes, Work, queueVars
        <4> QED BY <4>2, <4>3 DEF Quiet, Busy, JobOf
      <3> QED BY <3>1, <3>2, <3>3 DEF StageInv
    <2> QED BY <2>2, <2>3
  <1> QED BY <1>1, <1>7, <1>8, <1>9, StatusMoves

\* The invariant of the lives of reports is inductive.
LEMMA LifeStep == LifeInv /\ [Next]_vars => LifeInv'
  <1> SUFFICES ASSUME LifeInv, [Next]_vars PROVE LifeInv'
    OBVIOUS
  <1>1. Base'
    BY BaseStep DEF LifeInv
  <1>2. crashes' = 0 => OneAtATime'
    BY OneAtATimeStep, CrashesGrow DEF LifeInv, Base
  <1>3. (\A r \in Jobs : StageInv(r))'
    BY StagesStep
  <1> QED BY <1>1, <1>2, <1>3 DEF LifeInv

\* A step of the site is a step of the life of one report, or none.
LEMMA StepsLive == LifeInv /\ [Next]_vars => [Life!LifeNext]_(Life!lifeVars)
  <1> SUFFICES ASSUME LifeInv, [Next]_vars PROVE [Life!LifeNext]_(Life!lifeVars)
    OBVIOUS
  <1> DEFINE before == [r \in Jobs |-> report[r].status]
             after == [r \in Jobs |-> report'[r].status]
  <1> USE DEF Life!LifeNext, Life!lifeVars, Life!Move, Life!Submit, Life!Complete, Life!Fail,
              Life!ProcessLost
  <1>1. crashes \in Nat /\ (crashes' = crashes \/ crashes' = crashes + 1)
    BY CrashesGrow DEF LifeInv, Base
  <1>2. CASE after = before
    BY <1>1, <1>2
  <1>3. ASSUME NEW r \in Jobs, SubmitAnalysis(r), after = [before EXCEPT ![r] = "pending"]
        PROVE  Life!Submit(r)
    <2>1. report[r].status = "none" /\ crashes' = crashes
      BY <1>3 DEF LifeInv, StageInv, SubmitAnalysis, queueVars
    <2> QED BY <1>3, <2>1
  <1>4. ASSUME NEW w \in Workers, NEW s \in {"failed", "completed"}, Writes(w, s)
        PROVE  [Life!LifeNext]_(Life!lifeVars)
    <2> DEFINE r == JobOf(w)
    <2>1. Busy(w) /\ r \in Jobs /\ submit[r] = "queued"
      BY <1>4, WritersAreBusy DEF LifeInv
    <2>2. before[r] \in {"pending", "completed", "failed"}
      BY <2>1 DEF LifeInv, Base, TypeOK, StageInv, Row
    <2>3. crashes = 0 => before[r] # "completed"
      BY <2>1 DEF LifeInv, StageInv, Quiet
    <2>4. after = [before EXCEPT ![r] = s] /\ crashes' = crashes
      BY <1>4 DEF Writes, Work, StatusOf, queueVars
    <2> HIDE DEF r, before, after
    <2>5. before[r] = s => after = before
      BY <2>1, <2>4 DEF before
    <2>6. CASE before[r] = s
      BY <1>2, <2>5, <2>6
    <2>7. CASE before[r] # s /\ s = "completed"
      <3>1. Life!Complete(r)
        BY <2>2, <2>4, <2>7 DEF before, after
      <3> QED BY <2>1, <3>1
    <2>8. CASE before[r] # s /\ s = "failed"
      <3>1. before[r] \in {"pending"} \cup (IF crashes > 0 THEN {"completed"} ELSE {})
        BY <1>1, <2>2, <2>3, <2>8
      <3>2. Life!Fail(r)
        BY <2>4, <2>8, <3>1 DEF before, after
      <3> QED BY <2>1, <3>2
    <2> QED BY <2>6, <2>7, <2>8
  <1>5. \/ after = before
        \/ \E r \in Jobs : SubmitAnalysis(r) /\ after = [before EXCEPT ![r] = "pending"]
        \/ \E w \in Workers, s \in {"failed", "completed"} : Writes(w, s)
    BY StatusMoves DEF LifeInv, StatusOf
  <1>6. (\E r \in Jobs : SubmitAnalysis(r) /\ after = [before EXCEPT ![r] = "pending"])
            => [Life!LifeNext]_(Life!lifeVars)
    BY <1>3
  <1> HIDE DEF before, after, Life!LifeNext, Life!lifeVars
  <1> QED BY <1>2, <1>4, <1>5, <1>6

\* However the attempts at an analysis interleave, its row moves as the abstract
\* life of a report allows (analysis_service.py: failed is saved in the except
\* clause and re-raised, the retry may complete).
THEOREM AnalysisImplementsLife == Spec => ImplementsLife
  <1>1. Init => Life!InitLife
    BY DEF Init, InitQueue, NoRow, Life!InitLife
  <1>2. LifeInv /\ [Next]_vars => [Life!LifeNext]_(Life!lifeVars)
    BY StepsLive
  <1> QED BY LifeInit, LifeStep, <1>1, <1>2, PTL DEF Spec, ImplementsLife, Life!LifeSpec

-----------------------------------------------------------------------------
\* Counting.  The attempts that may still complete a report of the user, the
\* workers that have completed one and not counted it yet.
Attempting == {w \in Workers : /\ held[w] # NoMessage
                               /\ JobOf(w) \in Owned
                               /\ at[w] \in {"fetching", "retrying"}}

Counting == {w \in Workers : at[w] \in {"upserting", "written"}}

\* The reports that have been completed, and the ones that may still be for the
\* first time.
Measured == {r \in Owned : report[r].measured}

Attempted(r) == \/ \E m \in Messages : m[1] = r /\ queue[m] > 0
                \/ \E w \in Attempting : JobOf(w) = r

Expected == {r \in Owned : ~report[r].measured /\ Attempted(r)}

AllFinite == /\ IsFiniteSet(Copies(Owned)) /\ IsFiniteSet(Attempting) /\ IsFiniteSet(Counting)
             /\ IsFiniteSet(Measured) /\ IsFiniteSet(Expected)

\* An attempt completes a report that counts already, or one that is expected.
AtMost == history + Cardinality(Counting) + Cardinality(Copies(Owned)) + Cardinality(Attempting)
             <= Cardinality(Measured) + Cardinality(Expected) + crashes

\* A count that is about to be committed is the next one, and the only one.
WriterInv(w) == at[w] = "written" => writer = w /\ value[w] = history + 1

Unmeasured == \A r \in Jobs : submit[r] # "queued" => ~report[r].measured

In(x, S) == IF x \in S THEN 1 ELSE 0

\* Sets that differ in one element only: their sizes differ by its membership.
LEMMA Differ ==
    ASSUME NEW A, NEW B, NEW x, IsFiniteSet(A), B \ {x} = A \ {x}
    PROVE  /\ IsFiniteSet(B) /\ Cardinality(A) \in Nat /\ Cardinality(B) \in Nat
           /\ Cardinality(B) + In(x, A) = Cardinality(A) + In(x, B)
  <1>1. /\ IsFiniteSet(B) /\ Cardinality(A) \in Nat /\ Cardinality(B) \in Nat
        /\ (x \in A <=> x \in B) => Cardinality(B) = Cardinality(A)
        /\ x \notin A /\ x \in B => Cardinality(B) = Cardinality(A) + 1
        /\ x \in A /\ x \notin B => Cardinality(B) = Cardinality(A) - 1
    BY OneElement
  <1> QED BY <1>1 DEF In

\* The numbers of a state are numbers.
LEMMA CountsAreNumbers ==
    ASSUME TypeOK, AllFinite
    PROVE  /\ history \in Nat /\ crashes \in Nat
           /\ Cardinality(Copies(Owned)) \in Nat /\ Cardinality(Attempting) \in Nat
           /\ Cardinality(Counting) \in Nat /\ Cardinality(Measured) \in Nat
           /\ Cardinality(Expected) \in Nat
  <1>1. history \in Nat /\ crashes \in Nat
    BY RetriesAssumption DEF TypeOK, QueueTypeOK
  <1> QED BY <1>1, FS_CardinalityType DEF AllFinite

\* A step about worker w and its report q changes the sets in these two only.
About(w, q) ==
    /\ \A v \in Workers \ {w} : held'[v] = held[v] /\ at'[v] = at[v]
    /\ \A m \in Messages : m[1] # q => queue'[m] = queue[m]
    /\ \A r \in Jobs \ {q} : report'[r].measured = report[r].measured
    /\ w \in Workers => /\ held[w] # NoMessage => JobOf(w) = q
                        /\ held'[w] # NoMessage => held'[w][1] = q

\* A step about one worker and one report changes each of the counted sets by them only.
LEMMA AboutOne ==
    ASSUME NEW w, NEW q, About(w, q), AllFinite
    PROVE  /\ IsFiniteSet(Attempting') /\ IsFiniteSet(Counting')
           /\ IsFiniteSet(Measured') /\ IsFiniteSet(Expected')
           /\ Cardinality(Attempting') \in Nat /\ Cardinality(Counting') \in Nat
           /\ Cardinality(Measured') \in Nat /\ Cardinality(Expected') \in Nat
           /\ Cardinality(Attempting') + In(w, Attempting)
                 = Cardinality(Attempting) + In(w, Attempting')
           /\ Cardinality(Counting') + In(w, Counting) = Cardinality(Counting) + In(w, Counting')
           /\ Cardinality(Measured') + In(q, Measured) = Cardinality(Measured) + In(q, Measured')
           /\ Cardinality(Expected') + In(q, Expected) = Cardinality(Expected) + In(q, Expected')
  <1>1. Attempting' \ {w} = Attempting \ {w}
    BY DEF About, Attempting, JobOf
  <1>2. Counting' \ {w} = Counting \ {w}
    BY DEF About, Counting
  <1>3. Measured' \ {q} = Measured \ {q}
    BY OwnedAssumption DEF About, Measured
  <1>4. ASSUME NEW r \in Owned, r # q
        PROVE  Attempted(r)' <=> Attempted(r)
    <2>1. ASSUME NEW v \in Workers
          PROVE  v \in Attempting' /\ JobOf(v)' = r <=> v \in Attempting /\ JobOf(v) = r
      <3>1. CASE v # w
        BY <3>1 DEF About, Attempting, JobOf
      <3>2. CASE v = w
        BY <1>4, <3>2 DEF About, Attempting, JobOf
      <3> QED BY <3>1, <3>2
    <2>2. (\E v \in Attempting' : JobOf(v)' = r) <=> (\E v \in Attempting : JobOf(v) = r)
      BY <2>1 DEF Attempting
    <2>3. \A m \in Messages : m[1] = r => queue'[m] = queue[m]
      BY <1>4 DEF About
    <2> QED BY <2>2, <2>3 DEF Attempted
  <1>5. Expected' \ {q} = Expected \ {q}
    BY <1>4, OwnedAssumption DEF About, Expected
  <1>6. /\ IsFiniteSet(Attempting) /\ IsFiniteSet(Counting)
        /\ IsFiniteSet(Measured) /\ IsFiniteSet(Expected)
    BY DEF AllFinite
  <1>7. /\ IsFiniteSet(Attempting') /\ Cardinality(Attempting') \in Nat
        /\ Cardinality(Attempting') + In(w, Attempting)
              = Cardinality(Attempting) + In(w, Attempting')
    BY <1>1, <1>6, Differ
  <1>8. /\ IsFiniteSet(Counting') /\ Cardinality(Counting') \in Nat
        /\ Cardinality(Counting') + In(w, Counting) = Cardinality(Counting) + In(w, Counting')
    BY <1>2, <1>6, Differ
  <1>9. /\ IsFiniteSet(Measured') /\ Cardinality(Measured') \in Nat
        /\ Cardinality(Measured') + In(q, Measured) = Cardinality(Measured) + In(q, Measured')
    BY <1>3, <1>6, Differ
  <1>10. /\ IsFiniteSet(Expected') /\ Cardinality(Expected') \in Nat
         /\ Cardinality(Expected') + In(q, Expected) = Cardinality(Expected) + In(q, Expected')
    BY <1>5, <1>6, Differ
  <1> QED BY <1>7, <1>8, <1>9, <1>10

\* One transaction at a time is between its write of the history row and its commit.
LEMMA WriterStep ==
    ASSUME Base, [Next]_vars, NEW v \in Workers, \A w \in Workers : WriterInv(w)
    PROVE  WriterInv(v)'
  <1> TypeOK /\ v # NoWriter
    BY WriterAssumption DEF Base
  <1> at \in [Workers -> Places] /\ value \in [Workers -> Nat]
    BY DEF TypeOK
  <1>1. ASSUME UNCHANGED <<history, writer, value>>, at'[v] = "written" => at[v] = "written"
        PROVE  WriterInv(v)'
    BY <1>1 DEF WriterInv
  <1>2. ASSUME NEW w \in Workers, WriteHistory(w) PROVE WriterInv(v)'
    <2>1. /\ writer = NoWriter /\ writer' = w /\ value' = [value EXCEPT ![w] = history + 1]
          /\ at' = [at EXCEPT ![w] = "written"] /\ history' = history
      BY <1>2 DEF WriteHistory, Goto
    <2>2. at[v] # "written"
      BY <2>1 DEF WriterInv
    <2> QED BY <2>1, <2>2 DEF WriterInv
  <1>3. ASSUME NEW w \in Workers, CommitHistory(w) PROVE WriterInv(v)'
    <2>1. at[w] = "written" /\ at' = [at EXCEPT ![w] = "finished"]
      BY <1>3 DEF CommitHistory, Goto
    <2>2. v # w => at[v] # "written"
      BY <2>1 DEF WriterInv
    <2>3. at'[v] # "written"
      BY <2>1, <2>2
    <2> QED BY <2>3 DEF WriterInv
  <1>4. ASSUME NEW w \in Workers, UpsertFails(w) \/ WorkerDies(w) PROVE WriterInv(v)'
    <2>1. /\ writer' = (IF writer = w THEN NoWriter ELSE writer) /\ history' = history
          /\ value' = [value EXCEPT ![w] = 0]
          /\ at'[w] # "written" /\ \A u \in Workers \ {w} : at'[u] = at[u]
      BY <1>4 DEF UpsertFails, WorkerDies, EndTransaction, Goto
    <2>2. CASE v = w
      BY <2>1, <2>2 DEF WriterInv
    <2>3. CASE v # w
      BY <2>1, <2>3 DEF WriterInv
    <2> QED BY <2>2, <2>3
  <1>5. ASSUME NEW w \in Workers, NEW m \in Messages, TakeMessage(w, m) PROVE WriterInv(v)'
    BY <1>1, <1>5 DEF TakeMessage, Goto, historyVars
  <1>6. ASSUME NEW w \in Workers,
               (\E kind \in Errors : MarkFailed(w, kind)) \/ GiveUp(w) \/ SaveRefused(w)
                  \/ SaveReport(w) \/ RetryLater(w) \/ Finish(w)
        PROVE  WriterInv(v)'
    BY <1>1, <1>6 DEF MarkFailed, GiveUp, SaveRefused, SaveReport, RetryLater, Finish, Goto,
       historyVars
  <1>7. ASSUME NEW r \in Jobs,
               SubmitAnalysis(r) \/ OnCommit(r) \/ OnCommitLost(r) \/ DeleteReport(r)
        PROVE  WriterInv(v)'
    BY <1>1, <1>7 DEF SubmitAnalysis, OnCommit, OnCommitLost, DeleteReport, historyVars
  <1>8. CASE Listing \/ UNCHANGED vars
    BY <1>1, <1>8 DEF Listing, ListHistory, StoreHistory, CacheExpires, vars, historyVars
  <1> QED BY <1>2, <1>3, <1>4, <1>5, <1>6, <1>7, <1>8 DEF Next, WorkerStep, Listing

\* Which rows a step measures.
LEMMA MeasuredMoves ==
    ASSUME Base, [Next]_vars, NEW r \in Jobs
    PROVE  \/ report'[r].measured = report[r].measured
           \/ \E w \in Workers : SaveReport(w) /\ JobOf(w) = r
  <1> report \in [Jobs -> Row]
    BY DEF Base, TypeOK
  <1>1. report' = report => report'[r].measured = report[r].measured
    OBVIOUS
  <1>2. ASSUME NEW q \in Jobs, SubmitAnalysis(q) \/ DeleteReport(q)
        PROVE  report'[r].measured = report[r].measured
    <2>1. \/ report' = [report EXCEPT ![q] = [report[q] EXCEPT !.status = "pending"]]
          \/ report' = [report EXCEPT ![q] = [report[q] EXCEPT !.is_deleted = TRUE]]
      BY <1>2 DEF SubmitAnalysis, DeleteReport
    <2> QED BY <2>1 DEF Row
  <1>3. ASSUME NEW w \in Workers, NEW kind \in Errors, MarkFailed(w, kind)
        PROVE  report'[r].measured = report[r].measured
    <2>1. report' = [report EXCEPT ![JobOf(w)] = [report[JobOf(w)] EXCEPT !.status = "failed"]]
      BY <1>3 DEF MarkFailed
    <2> QED BY <2>1 DEF Row
  <1>4. ASSUME NEW w \in Workers, SaveReport(w), JobOf(w) # r
        PROVE  report'[r].measured = report[r].measured
    BY <1>4 DEF SaveReport
  <1>5. UNCHANGED vars => report' = report
    BY DEF vars, siteVars
  <1> QED BY <1>1, <1>2, <1>3, <1>4, <1>5
          DEF Next, WorkerStep, OnCommit, OnCommitLost, TakeMessage, RetryLater, GiveUp,
              SaveRefused, WriteHistory, CommitHistory, UpsertFails, Finish, WorkerDies,
              ListHistory, StoreHistory, CacheExpires, siteVars

\* A report that was never queued is not measured.
LEMMA UnmeasuredStep ==
    ASSUME Base, [Next]_vars, Unmeasured
    PROVE  Unmeasured'
  <1> SUFFICES ASSUME NEW r \in Jobs, submit'[r] # "queued" PROVE ~report'[r].measured
    BY DEF Unmeasured
  <1>1. submit[r] # "queued"
    <2>1. \/ submit'[r] = submit[r] \/ submit[r] = "committed"
          \/ SubmitAnalysis(r) /\ submit'[r] = "committed"
      BY RequestMoves DEF Base
    <2> QED BY <2>1 DEF SubmitAnalysis
  <1>2. ~report[r].measured
    BY <1>1 DEF Unmeasured
  <1>3. ASSUME NEW w \in Workers, SaveReport(w), JobOf(w) = r PROVE FALSE
    BY <1>1, <1>3 DEF SaveReport, Base, WorkerInv, Sent
  <1> QED BY <1>2, <1>3, MeasuredMoves

-----------------------------------------------------------------------------
\* A step about w and q keeps AtMost when its own share of the sums does.
LEMMA Shares ==
    ASSUME NEW w, NEW q, About(w, q), AllFinite, AtMost, TypeOK, TypeOK',
           IsFiniteSet(Copies(Owned)'),
           history' + Cardinality(Copies(Owned)') + In(w, Counting') + In(w, Attempting')
                 + In(q, Measured) + In(q, Expected) + crashes
              <= history + Cardinality(Copies(Owned)) + In(w, Counting) + In(w, Attempting)
                 + In(q, Measured') + In(q, Expected') + crashes'
    PROVE  AllFinite' /\ AtMost'
  <1>1. /\ history' \in Nat /\ crashes' \in Nat
    BY RetriesAssumption DEF TypeOK, QueueTypeOK
  <1>2. Cardinality(Copies(Owned)') \in Nat
    BY FS_CardinalityType
  <1>3. AllFinite'
    BY AboutOne DEF AllFinite
  <1>4. \A x, S : In(x, S) \in Nat
    BY DEF In
  <1>5. history' + Cardinality(Counting') + Cardinality(Copies(Owned)') + Cardinality(Attempting')
             <= Cardinality(Measured') + Cardinality(Expected') + crashes'
    BY <1>1, <1>2, <1>4, AboutOne, CountsAreNumbers DEF AtMost
  <1> QED BY <1>3, <1>5 DEF AtMost

\* Membership as a number.
LEMMA InIs == \A x, S : /\ In(x, S) \in {0, 1}
                        /\ x \in S => In(x, S) = 1
                        /\ x \notin S => In(x, S) = 0
  BY DEF In

\* The steps of requests and of the cache.
LEMMA AtMostElsewhere ==
    ASSUME Base, Base', Unmeasured, AllFinite, AtMost, NEW r \in Jobs,
           \/ SubmitAnalysis(r) \/ OnCommit(r) \/ OnCommitLost(r) \/ DeleteReport(r)
           \/ Listing \/ UNCHANGED vars
    PROVE  AllFinite' /\ AtMost'
  <1> TypeOK /\ TypeOK' /\ Sent
    BY DEF Base
  <1> USE DEF TypeOK, QueueTypeOK
  <1>1. CASE OnCommit(r)
    <2>1. <<r, 0>> \in Messages /\ queue \in [Messages -> Nat]
          /\ queue' = [queue EXCEPT ![<<r, 0>>] = @ + 1]
          /\ submit[r] = "committed" /\ UNCHANGED <<report, at, historyVars, held, crashes>>
      BY <1>1, MessagesMake DEF OnCommit, Delay
    <2>2. About(NoWriter, r)
      BY <2>1, WriterAssumption DEF About
    <2>3. /\ IsFiniteSet(Copies(Owned)')
          /\ Cardinality(Copies(Owned)') = Cardinality(Copies(Owned)) + In(r, Owned)
      <3>1. /\ IsFiniteSet(Copies(Owned)')
            /\ Cardinality(Copies(Owned)') =
                  Cardinality(Copies(Owned)) + (IF <<r, 0>>[1] \in Owned THEN 1 ELSE 0)
        BY <2>1, CopyAdded DEF AllFinite
      <3> QED BY <3>1 DEF In
    <2>4. ~Attempted(r)
      BY <2>1 DEF Sent, Attempted, Attempting
    <2>5. r \in Owned => r \in Expected'
      BY <2>1 DEF Expected, Attempted, Unmeasured
    <2>6. r \notin Expected /\ (r \in Measured <=> r \in Measured')
      BY <2>1, <2>4 DEF Expected, Measured
    <2>7. In(r, Owned) + In(r, Measured) + In(r, Expected) <= In(r, Measured') + In(r, Expected')
      BY <2>5, <2>6, InIs
    <2>8. /\ In(NoWriter, Counting) = 0 /\ In(NoWriter, Counting') = 0
          /\ In(NoWriter, Attempting) = 0 /\ In(NoWriter, Attempting') = 0
      BY WriterAssumption DEF In, Counting, Attempting
    <2>9. history' = history /\ crashes' = crashes
      BY <2>1 DEF historyVars
    <2>10. history' + Cardinality(Copies(Owned)') + In(NoWriter, Counting')
                  + In(NoWriter, Attempting') + In(r, Measured) + In(r, Expected) + crashes
              <= history + Cardinality(Copies(Owned)) + In(NoWriter, Counting)
                  + In(NoWriter, Attempting) + In(r, Measured') + In(r, Expected') + crashes'
      BY <2>3, <2>7, <2>8, <2>9, InIs, CountsAreNumbers
    <2> QED BY <2>2, <2>3, <2>10, Shares
  <1>2. CASE SubmitAnalysis(r) \/ OnCommitLost(r) \/ DeleteReport(r) \/ Listing \/ UNCHANGED vars
    <2>1. /\ UNCHANGED <<queue, held, at, history>>
          /\ crashes' >= crashes
      BY <1>2 DEF SubmitAnalysis, OnCommitLost, PublisherLost, DeleteReport, Listing, ListHistory,
         StoreHistory, CacheExpires, vars, queueVars, historyVars
    <2>2. \A q \in Jobs : report'[q].measured = report[q].measured
      <3>1. CASE SubmitAnalysis(r) \/ DeleteReport(r)
        <4>1. \/ report' = [report EXCEPT ![r] = [report[r] EXCEPT !.status = "pending"]]
              \/ report' = [report EXCEPT ![r] = [report[r] EXCEPT !.is_deleted = TRUE]]
          BY <3>1 DEF SubmitAnalysis, DeleteReport
        <4> QED BY <4>1 DEF Row
      <3>2. CASE OnCommitLost(r) \/ Listing \/ UNCHANGED vars
        BY <3>2 DEF OnCommitLost, Listing, ListHistory, StoreHistory, CacheExpires, vars, siteVars
      <3> QED BY <1>2, <3>1, <3>2
    <2>3. Copies(Owned)' = Copies(Owned)
      BY <2>1 DEF Copies
    <2>4. Attempting' = Attempting /\ Counting' = Counting
      BY <2>1 DEF Attempting, Counting, JobOf
    <2>5. Measured' = Measured
      BY <2>2, OwnedAssumption DEF Measured
    <2>6. \A q \in Jobs : Attempted(q)' <=> Attempted(q)
      BY <2>1, <2>4 DEF Attempted, JobOf
    <2>7. Expected' = Expected
      BY <2>2, <2>6, OwnedAssumption DEF Expected
    <2>8. AllFinite'
      BY <2>3, <2>4, <2>5, <2>7 DEF AllFinite
    <2>9. crashes' \in Nat
      BY RetriesAssumption
    <2>10. history' + Cardinality(Counting') + Cardinality(Copies(Owned)')
                 + Cardinality(Attempting')
             <= Cardinality(Measured') + Cardinality(Expected') + crashes'
      BY <2>1, <2>3, <2>4, <2>5, <2>7, <2>9, CountsAreNumbers DEF AtMost
    <2> QED BY <2>8, <2>10 DEF AtMost
  <1> QED BY <1>1, <1>2

\* A message that is taken is one copy less that waits and one attempt more.
LEMMA AtMostTake ==
    ASSUME Base, Base', AllFinite, AtMost, NEW w \in Workers, NEW m \in Messages,
           TakeMessage(w, m)
    PROVE  AllFinite' /\ AtMost'
  <1> TypeOK /\ TypeOK' /\ WorkerInv(w)
    BY DEF Base
  <1> USE DEF TypeOK, QueueTypeOK
  <1> DEFINE q == m[1]
  <1>1. /\ queue \in [Messages -> Nat] /\ queue[m] > 0 /\ queue' = [queue EXCEPT ![m] = @ - 1]
        /\ held[w] = NoMessage /\ held' = [held EXCEPT ![w] = m] /\ at[w] = "idle"
        /\ UNCHANGED <<report, history, crashes>>
        /\ at'[w] \in {"fetching", "finished"} /\ \A v \in Workers \ {w} : at'[v] = at[v]
    BY DEF TakeMessage, Deliver, Goto, siteVars, historyVars, WorkerInv
  <1>2. About(w, q)
    <2>1. m # NoMessage
      BY NoMessageAssumption
    <2> QED BY <1>1, <2>1 DEF About
  <1>3. /\ IsFiniteSet(Copies(Owned)')
        /\ Cardinality(Copies(Owned)') = Cardinality(Copies(Owned)) - In(q, Owned)
    BY <1>1, CopyTaken DEF AllFinite, In
  <1>4. w \notin Attempting /\ w \notin Counting /\ w \notin Counting'
    BY <1>1 DEF Attempting, Counting
  <1>5. w \in Attempting' => q \in Owned /\ (q \notin Measured' => q \in Expected')
    BY <1>1 DEF Attempting, Measured, Expected, Attempted, JobOf
  <1>6. (q \in Measured <=> q \in Measured') /\ (q \in Measured => q \notin Expected)
    BY <1>1 DEF Measured, Expected
  <1>7. q \in Expected => q \in Owned
    BY DEF Expected
  <1>8. In(w, Attempting') + In(q, Measured) + In(q, Expected)
           <= In(q, Owned) + In(q, Measured') + In(q, Expected')
    <2> HIDE DEF q
    <2> QED BY <1>5, <1>6, <1>7, InIs
  <1>9. /\ In(w, Counting) = 0 /\ In(w, Counting') = 0 /\ In(w, Attempting) = 0
    BY <1>4, InIs
  <1>10. history' + Cardinality(Copies(Owned)') + In(w, Counting') + In(w, Attempting')
                 + In(q, Measured) + In(q, Expected) + crashes
              <= history + Cardinality(Copies(Owned)) + In(w, Counting) + In(w, Attempting)
                 + In(q, Measured') + In(q, Expected') + crashes'
    <2> HIDE DEF q
    <2> QED BY <1>1, <1>3, <1>8, <1>9, InIs, CountsAreNumbers
  <1> QED BY <1>2, <1>3, <1>10, Shares

\* A worker that stays with its message, or acknowledges it.
LEMMA AtMostWork ==
    ASSUME Base, Base', AllFinite, AtMost, \A v \in Workers : WriterInv(v), NEW w \in Workers,
           Inner(w) \/ Finish(w)
    PROVE  AllFinite' /\ AtMost'
  <1> TypeOK /\ TypeOK' /\ WorkerInv(w) /\ WriterInv(w)
    BY DEF Base
  <1> USE DEF TypeOK, QueueTypeOK
  <1> DEFINE q == JobOf(w)
  <1>1. /\ held[w] # NoMessage /\ queue' = queue /\ crashes' = crashes
        /\ \A v \in Workers \ {w} : at'[v] = at[v] /\ held'[v] = held[v]
        /\ held'[w] \in {held[w], NoMessage}
    BY DEF Inner, Finish, Acknowledge, MarkFailed, GiveUp, SaveRefused, SaveReport, WriteHistory,
       CommitHistory, UpsertFails, Goto, queueVars, WorkerInv
  <1>2. q \in Jobs
    BY <1>1, HeldIsMessage
  <1>3. \A r \in Jobs \ {q} : report'[r].measured = report[r].measured
    <2>1. CASE \E kind \in Errors : MarkFailed(w, kind)
      BY <2>1 DEF MarkFailed
    <2>2. CASE SaveReport(w)
      BY <2>2 DEF SaveReport
    <2> QED BY <2>1, <2>2 DEF Inner, Finish, GiveUp, SaveRefused, WriteHistory, CommitHistory,
            UpsertFails, siteVars
  <1>4. About(w, q)
    BY <1>1, <1>3 DEF About, JobOf
  <1>5. Copies(Owned)' = Copies(Owned)
    BY <1>1 DEF Copies
  <1>6. IsFiniteSet(Copies(Owned)')
    BY <1>5 DEF AllFinite
  <1>7. w \in Attempting <=> q \in Owned /\ at[w] \in {"fetching", "retrying"}
    BY <1>1 DEF Attempting
  <1>8. SUFFICES history' + In(w, Counting') + In(w, Attempting') + In(q, Measured)
                    + In(q, Expected)
                 <= history + In(w, Counting) + In(w, Attempting) + In(q, Measured')
                    + In(q, Expected')
    <2> HIDE DEF q
    <2>1. history' \in Nat /\ \A x, S : In(x, S) \in Nat
      BY InIs
    <2>2. history' + Cardinality(Copies(Owned)') + In(w, Counting') + In(w, Attempting')
                 + In(q, Measured) + In(q, Expected) + crashes
              <= history + Cardinality(Copies(Owned)) + In(w, Counting) + In(w, Attempting)
                 + In(q, Measured') + In(q, Expected') + crashes'
      BY <1>1, <1>5, <1>8, <2>1, CountsAreNumbers
    <2> QED BY <1>4, <1>6, <2>2, Shares
  <1>9. CASE (\E kind \in Errors : MarkFailed(w, kind)) \/ GiveUp(w) \/ SaveRefused(w)
    <2>1. /\ at[w] \in {"fetching", "retrying"} /\ at'[w] \in {"retrying", "finished"}
          /\ history' = history /\ held' = held
      BY <1>9 DEF MarkFailed, GiveUp, SaveRefused, Goto, historyVars, queueVars
    <2>2. report'[q].measured = report[q].measured
      <3>1. CASE \E kind \in Errors : MarkFailed(w, kind)
        <4>1. report' = [report EXCEPT ![q] = [report[q] EXCEPT !.status = "failed"]]
          BY <3>1 DEF MarkFailed
        <4> QED BY <4>1, <1>2 DEF Row
      <3> QED BY <1>9, <3>1 DEF GiveUp, SaveRefused, siteVars
    <2>3. w \notin Counting /\ w \notin Counting'
      BY <2>1 DEF Counting
    <2>4. w \in Attempting' => q \in Owned /\ (q \notin Measured' => q \in Expected')
      BY <2>1 DEF Attempting, Measured, Expected, Attempted, JobOf
    <2>5. (q \in Measured <=> q \in Measured') /\ (q \in Measured => q \notin Expected)
      BY <2>2 DEF Measured, Expected
    <2>6. w \in Attempting <=> q \in Owned
      BY <1>7, <2>1
    <2>7. q \in Expected => q \in Owned
      BY DEF Expected
    <2> HIDE DEF q
    <2> QED BY <2>1, <2>3, <2>4, <2>5, <2>6, <2>7, InIs
  <1>10. CASE SaveReport(w)
    <2>1. /\ at[w] = "fetching" /\ history' = history /\ held' = held
          /\ at'[w] = IF q \in Owned THEN "upserting" ELSE "finished"
          /\ report'[q].measured
      BY <1>2, <1>10 DEF SaveReport, Goto, historyVars, queueVars
    <2>2. w \notin Counting /\ w \notin Attempting' /\ (w \in Counting' <=> q \in Owned)
      BY <2>1 DEF Counting, Attempting
    <2>3. w \in Attempting <=> q \in Owned
      BY <1>7, <2>1
    <2>4. q \in Owned => q \in Measured'
      BY <2>1 DEF Measured
    <2>5. q \notin Measured \/ q \notin Expected
      BY DEF Measured, Expected
    <2>6. (q \in Measured => q \in Owned) /\ (q \in Expected => q \in Owned)
      BY DEF Measured, Expected
    <2> HIDE DEF q
    <2> QED BY <2>1, <2>2, <2>3, <2>4, <2>5, <2>6, InIs
  <1>11. CASE WriteHistory(w) \/ CommitHistory(w) \/ UpsertFails(w) \/ Finish(w)
    <2>1. /\ at[w] \in {"upserting", "written", "finished"} /\ report' = report
          /\ at'[w] \in {"written", "finished", "idle"}
      BY <1>11 DEF WriteHistory, CommitHistory, UpsertFails, Finish, Goto, siteVars
    <2>2. w \notin Attempting /\ w \notin Attempting'
      BY <2>1 DEF Attempting
    <2>3. \A v \in Workers : v \in Attempting <=> v \in Attempting'
      <3>1. ASSUME NEW v \in Workers, v # w PROVE v \in Attempting <=> v \in Attempting'
        BY <1>1, <3>1 DEF Attempting, JobOf
      <3> QED BY <2>2, <3>1
    <2>4. \A v \in Attempting : JobOf(v)' = JobOf(v)
      BY <1>1, <2>2 DEF Attempting, JobOf
    <2>5. Attempting' = Attempting
      BY <2>3 DEF Attempting
    <2>6. \A r \in Jobs : Attempted(r)' <=> Attempted(r)
      BY <1>1, <2>4, <2>5 DEF Attempted
    <2>7. Measured' = Measured /\ Expected' = Expected
      BY <2>1, <2>6, OwnedAssumption DEF Measured, Expected
    <2>8. history' + In(w, Counting') <= history + In(w, Counting)
      <3>1. CASE CommitHistory(w)
        <4>1. history' = history + 1 /\ w \in Counting /\ w \notin Counting'
          BY <3>1 DEF CommitHistory, Goto, WriterInv, Counting
        <4> QED BY <4>1, InIs
      <3>2. CASE WriteHistory(w) \/ UpsertFails(w) \/ Finish(w)
        <4>1. history' = history /\ (w \in Counting' => w \in Counting)
          BY <3>2 DEF WriteHistory, UpsertFails, Finish, Goto, historyVars, Counting
        <4> QED BY <4>1, InIs
      <3> QED BY <1>11, <3>1, <3>2
    <2> HIDE DEF q
    <2>9. history' \in Nat /\ \A x, S : In(x, S) \in Nat
      BY InIs
    <2>10. /\ In(w, Attempting') = In(w, Attempting) /\ In(q, Measured') = In(q, Measured)
           /\ In(q, Expected') = In(q, Expected)
      BY <2>5, <2>7
    <2> QED BY <2>8, <2>9, <2>10
  <1> QED BY <1>9, <1>10, <1>11 DEF Inner

\* A message goes back to the queue: self.retry, or the process died.
LEMMA AtMostReturn ==
    ASSUME Base, Base', AllFinite, AtMost, NEW w \in Workers, RetryLater(w) \/ WorkerDies(w)
    PROVE  AllFinite' /\ AtMost'
  <1> TypeOK /\ TypeOK' /\ WorkerInv(w)
    BY DEF Base
  <1> USE DEF TypeOK, QueueTypeOK
  <1> DEFINE q == JobOf(w)
  <1>1. held[w] # NoMessage
    BY DEF RetryLater, WorkerDies, WorkerLost, WorkerInv
  <1>2. PICK n \in Messages : n[1] = q /\ queue' = [queue EXCEPT ![n] = @ + 1]
    <2>1. CASE RetryLater(w)
      <3>1. <<q, RetriesOf(w) + 1>> \in Messages
        BY <1>1, <2>1, HeldIsMessage, MessagesMake DEF RetryLater, Retry, JobOf, RetriesOf
      <3> QED BY <2>1, <3>1 DEF RetryLater, Retry
    <2>2. CASE WorkerDies(w)
      <3>1. held[w] \in Messages /\ held[w][1] = q
        BY <1>1, HeldIsMessage DEF JobOf
      <3> QED BY <2>2, <3>1 DEF WorkerDies, WorkerLost
    <2> QED BY <2>1, <2>2
  <1>3. /\ IsFiniteSet(Copies(Owned)')
        /\ Cardinality(Copies(Owned)') = Cardinality(Copies(Owned)) + In(q, Owned)
    <2>1. queue \in [Messages -> Nat]
      OBVIOUS
    <2>2. /\ IsFiniteSet(Copies(Owned)')
          /\ Cardinality(Copies(Owned)') =
                Cardinality(Copies(Owned)) + (IF n[1] \in Owned THEN 1 ELSE 0)
      BY <1>2, <2>1, CopyAdded DEF AllFinite
    <2> QED BY <1>2, <2>2 DEF In
  <1>4. /\ UNCHANGED <<report, history>> /\ crashes' >= crashes
        /\ \A v \in Workers \ {w} : at'[v] = at[v] /\ held'[v] = held[v]
        /\ held'[w] \in {held[w], NoMessage} /\ at'[w] \in {"finished", "idle"}
    BY DEF RetryLater, Retry, WorkerDies, WorkerLost, Goto, siteVars, historyVars
  <1>5. About(w, q)
    BY <1>1, <1>2, <1>4 DEF About, JobOf
  <1>6. w \notin Attempting' /\ w \notin Counting'
    BY <1>4 DEF Attempting, Counting
  <1>7. (q \in Measured <=> q \in Measured') /\ (q \in Expected => q \in Expected')
    <2>1. queue'[n] > 0
      BY <1>2
    <2> QED BY <1>2, <1>4, <2>1 DEF Measured, Expected, Attempted
  <1>8. In(q, Owned) + crashes <= In(w, Attempting) + crashes'
    <2>1. CASE RetryLater(w)
      <3>1. (w \in Attempting <=> q \in Owned) /\ crashes' = crashes
        BY <1>1, <2>1 DEF RetryLater, Retry, Attempting
      <3> HIDE DEF q
      <3> QED BY <3>1, InIs, CountsAreNumbers
    <2>2. CASE WorkerDies(w)
      <3>1. crashes' = crashes + 1
        BY <2>2 DEF WorkerDies, WorkerLost
      <3> HIDE DEF q
      <3> QED BY <3>1, InIs, CountsAreNumbers
    <2> QED BY <2>1, <2>2
  <1>9. /\ In(w, Counting') = 0 /\ In(w, Attempting') = 0 /\ In(w, Counting) \in Nat
        /\ In(q, Measured) = In(q, Measured') /\ In(q, Expected) <= In(q, Expected')
    <2> HIDE DEF q
    <2> QED BY <1>6, <1>7, InIs
  <1>10. history' + Cardinality(Copies(Owned)') + In(w, Counting') + In(w, Attempting')
                 + In(q, Measured) + In(q, Expected) + crashes
              <= history + Cardinality(Copies(Owned)) + In(w, Counting) + In(w, Attempting)
                 + In(q, Measured') + In(q, Expected') + crashes'
    <2> HIDE DEF q
    <2>1. crashes' \in Nat
      BY RetriesAssumption
    <2>2. /\ In(q, Measured) \in Nat /\ In(q, Expected) \in Nat /\ In(q, Expected') \in Nat
          /\ In(q, Owned) \in Nat /\ In(w, Attempting) \in Nat
      BY InIs
    <2> QED BY <1>3, <1>4, <1>8, <1>9, <2>1, <2>2, CountsAreNumbers
  <1> QED BY <1>3, <1>5, <1>10, Shares

\* No step adds more to the counts made or still to come than to the reports and crashes that
\* account for them.
LEMMA AtMostStep ==
    ASSUME Base, Base', [Next]_vars, Unmeasured, AllFinite, AtMost,
           \A v \in Workers : WriterInv(v)
    PROVE  AllFinite' /\ AtMost'
  <1>1. CASE Jobs = {} /\ Listing
    <2>1. UNCHANGED <<queue, held, at, report, history, crashes>>
      BY <1>1 DEF Listing, ListHistory, StoreHistory, CacheExpires, queueVars, siteVars,
         historyVars
    <2> QED BY <2>1 DEF AllFinite, AtMost, Copies, Attempting, Counting, Measured, Expected,
            Attempted, JobOf
  <1>2. CASE UNCHANGED vars
    <2>1. UNCHANGED <<queue, held, at, report, history, crashes>>
      BY <1>2 DEF vars, queueVars, siteVars, historyVars
    <2> QED BY <2>1 DEF AllFinite, AtMost, Copies, Attempting, Counting, Measured, Expected,
            Attempted, JobOf
  <1>3. CASE Jobs # {} /\ Listing
    BY <1>3, AtMostElsewhere
  <1> QED BY <1>1, <1>2, <1>3, AtMostElsewhere, AtMostTake, AtMostWork, AtMostReturn
          DEF Next, WorkerStep, Inner, Listing

-----------------------------------------------------------------------------
\* A set with a function that tells its elements apart is no larger.
LEMMA NoMoreThan ==
    ASSUME NEW A, NEW B, IsFiniteSet(B), NEW f \in [A -> B],
           \A x, y \in A : f[x] = f[y] => x = y
    PROVE  /\ IsFiniteSet(A) /\ Cardinality(A) \in Nat /\ Cardinality(B) \in Nat
           /\ Cardinality(A) <= Cardinality(B)
  <1>1. f \in Injection(A, B)
    BY DEF Injection, IsInjective
  <1>2. IsFiniteSet(A) /\ Cardinality(A) <= Cardinality(B)
    BY <1>1, FS_Injection
  <1> QED BY <1>2, FS_CardinalityType

\* A report that is expected has a copy or an attempt of its own.
LEMMA ExpectedAreFew ==
    ASSUME TypeOK, AllFinite
    PROVE  Cardinality(Expected) <= Cardinality(Copies(Owned)) + Cardinality(Attempting)
  <1> DEFINE waiting == {r \in Expected : \E m \in Messages : m[1] = r /\ queue[m] > 0}
             attempted == {r \in Expected : \E w \in Attempting : JobOf(w) = r}
             copyOf == [r \in waiting |-> CHOOSE c \in Copies(Owned) : c[1][1] = r]
             workerOn == [r \in attempted |-> CHOOSE w \in Attempting : JobOf(w) = r]
  <1>1. Expected = waiting \cup attempted
    BY DEF Expected, Attempted
  <1>2. ASSUME NEW r \in waiting PROVE \E c \in Copies(Owned) : c[1][1] = r
    <2>1. PICK m \in Messages : m[1] = r /\ queue[m] > 0
      OBVIOUS
    <2>2. r \in Owned
      BY DEF Expected
    <2>3. queue[m] \in Nat /\ 1 \in 1..queue[m]
      BY <2>1 DEF TypeOK, QueueTypeOK
    <2>4. <<m, 1>> \in Copies(Owned)
      BY <2>1, <2>2, <2>3 DEF Copies
    <2> QED BY <2>1, <2>4
  <1>3. /\ copyOf \in [waiting -> Copies(Owned)]
        /\ \A r \in waiting : copyOf[r][1][1] = r
    <2> HIDE DEF waiting
    <2> QED BY <1>2
  <1>4. /\ workerOn \in [attempted -> Attempting]
        /\ \A r \in attempted : JobOf(workerOn[r]) = r
    <2>1. \A r \in attempted : \E w \in Attempting : JobOf(w) = r
      OBVIOUS
    <2> HIDE DEF attempted
    <2> QED BY <2>1
  <1> HIDE DEF waiting, attempted, copyOf, workerOn
  <1>5. /\ IsFiniteSet(waiting) /\ Cardinality(waiting) <= Cardinality(Copies(Owned))
        /\ Cardinality(waiting) \in Nat
    <2>1. \A x, y \in waiting : copyOf[x] = copyOf[y] => x = y
      BY <1>3
    <2> QED BY <1>3, <2>1, NoMoreThan DEF AllFinite
  <1>6. /\ IsFiniteSet(attempted) /\ Cardinality(attempted) <= Cardinality(Attempting)
        /\ Cardinality(attempted) \in Nat
    <2>1. \A x, y \in attempted : workerOn[x] = workerOn[y] => x = y
      BY <1>4
    <2> QED BY <1>4, <2>1, NoMoreThan DEF AllFinite
  <1>7. Cardinality(Expected)
           = Cardinality(waiting) + Cardinality(attempted) - Cardinality(waiting \cap attempted)
    BY <1>1, <1>5, <1>6, FS_Union
  <1>8. Cardinality(waiting \cap attempted) \in Nat
    <2>1. waiting \cap attempted \subseteq waiting
      OBVIOUS
    <2> QED BY <1>5, <2>1, SmallerSet
  <1> QED BY <1>5, <1>6, <1>7, <1>8, CountsAreNumbers

-----------------------------------------------------------------------------
\* The other side.  A completed report whose count is still to come.
Owed(r) == \/ \E m \in Messages : m[1] = r /\ queue[m] > 0
           \/ \E w \in Workers : /\ held[w] # NoMessage /\ JobOf(w) = r
                                 /\ at[w] \in {"fetching", "upserting", "written"}

Counted == {r \in Owned \ broken : /\ report[r].status = "completed"
                                   /\ ~report[r].is_deleted
                                   /\ ~Owed(r)}

AtLeast == IsFiniteSet(Counted) /\ Cardinality(Counted) <= history

\* A report is counted when its history row is committed, and in no other step.
LEMMA CountedMoves ==
    ASSUME Base, Base', [Next]_vars, NEW r \in Counted', r \notin Counted
    PROVE  \E w \in Workers : CommitHistory(w) /\ JobOf(w) = r
  <1> TypeOK /\ TypeOK'
    BY DEF Base
  <1> USE DEF TypeOK, QueueTypeOK
  <1>0. /\ r \in Owned /\ r \in Jobs /\ r \notin broken'
        /\ report'[r].status = "completed" /\ ~report'[r].is_deleted /\ ~Owed(r)'
    BY OwnedAssumption DEF Counted
  <1>1. r \in broken \/ report[r].status # "completed" \/ report[r].is_deleted \/ Owed(r)
    BY <1>0 DEF Counted
  <1>2. broken \subseteq broken'
    BY DEF Next, SubmitAnalysis, OnCommit, OnCommitLost, DeleteReport, TakeMessage, WorkerStep,
       MarkFailed, RetryLater, GiveUp, SaveRefused, SaveReport, WriteHistory, CommitHistory,
       UpsertFails, Finish, WorkerDies, ListHistory, StoreHistory, CacheExpires, vars
  <1>3. ASSUME NEW w \in Workers, SaveReport(w), JobOf(w) = r PROVE FALSE
    <2>1. held[w] # NoMessage /\ held' = held /\ at'[w] = "upserting"
      BY <1>0, <1>3 DEF SaveReport, Goto, Base, WorkerInv, queueVars
    <2> QED BY <1>0, <1>3, <2>1 DEF Owed, JobOf
  <1>4. report[r].status = "completed" /\ ~report[r].is_deleted
    <2>1. ASSUME NEW q \in Jobs, SubmitAnalysis(q) PROVE report'[r] = report[r]
      <3>1. report' = [report EXCEPT ![q] = [report[q] EXCEPT !.status = "pending"]]
        BY <2>1 DEF SubmitAnalysis
      <3> QED BY <1>0, <3>1 DEF Row
    <2>2. ASSUME NEW q \in Jobs, DeleteReport(q) PROVE report'[r] = report[r]
      <3>1. report' = [report EXCEPT ![q] = [report[q] EXCEPT !.is_deleted = TRUE]]
        BY <2>2 DEF DeleteReport
      <3> QED BY <1>0, <3>1 DEF Row
    <2>3. ASSUME NEW w \in Workers, NEW kind \in Errors, MarkFailed(w, kind)
          PROVE  report'[r] = report[r]
      <3>1. report' = [report EXCEPT ![JobOf(w)] = [report[JobOf(w)] EXCEPT !.status = "failed"]]
        BY <2>3 DEF MarkFailed
      <3> QED BY <1>0, <3>1 DEF Row
    <2>4. ASSUME NEW w \in Workers, SaveReport(w) PROVE report'[r] = report[r]
      <3>1. JobOf(w) # r
        BY <1>3, <2>4
      <3>2. \E row : report' = [report EXCEPT ![JobOf(w)] = row]
        BY <2>4 DEF SaveReport
      <3> QED BY <1>0, <3>1, <3>2
    <2>5. report'[r] = report[r]
      BY <2>1, <2>2, <2>3, <2>4
         DEF Next, OnCommit, OnCommitLost, TakeMessage, WorkerStep, RetryLater, GiveUp,
             SaveRefused, WriteHistory, CommitHistory, UpsertFails, Finish, WorkerDies,
             ListHistory, StoreHistory, CacheExpires, vars, siteVars
    <2> QED BY <1>0, <2>5
  <1>5. Owed(r)
    BY <1>0, <1>1, <1>2, <1>4
  <1>6. CASE UNCHANGED <<queue, held, at>>
    BY <1>0, <1>5, <1>6 DEF Owed, JobOf
  <1>7. ASSUME NEW q \in Jobs, OnCommit(q) PROVE FALSE
    <2>1. <<q, 0>> \in Messages /\ queue' = [queue EXCEPT ![<<q, 0>>] = @ + 1]
          /\ held' = held /\ at' = at
      BY <1>7, MessagesMake DEF OnCommit, Delay
    <2>2. \A m \in Messages : queue[m] > 0 => queue'[m] > 0
      BY <2>1
    <2> QED BY <1>0, <1>5, <2>1, <2>2 DEF Owed, JobOf
  <1>8. ASSUME NEW w \in Workers, NEW n \in Messages, TakeMessage(w, n) PROVE FALSE
    <2>1. /\ held[w] = NoMessage /\ held' = [held EXCEPT ![w] = n]
          /\ queue' = [queue EXCEPT ![n] = @ - 1] /\ n # NoMessage /\ report' = report
          /\ at' = [at EXCEPT ![w] = IF report[n[1]].is_deleted THEN "finished" ELSE "fetching"]
      BY <1>8, NoMessageAssumption DEF TakeMessage, Deliver, Goto, siteVars
    <2>2. n[1] # r
      <3>1. SUFFICES ASSUME n[1] = r PROVE FALSE
        OBVIOUS
      <3>2. at'[w] = "fetching" /\ held'[w] = n
        BY <1>4, <2>1, <3>1
      <3> QED BY <1>0, <2>1, <3>1, <3>2 DEF Owed, JobOf
    <2>3. \A m \in Messages : m[1] = r => queue'[m] = queue[m]
      BY <2>1, <2>2
    <2>4. \A v \in Workers : held[v] # NoMessage => held'[v] = held[v] /\ at'[v] = at[v]
      BY <2>1
    <2> QED BY <1>0, <1>5, <2>3, <2>4 DEF Owed, JobOf
  <1>9. ASSUME NEW w \in Workers, queue' = queue, held'[w] \in {held[w], NoMessage},
               \A v \in Workers \ {w} : held'[v] = held[v] /\ at'[v] = at[v]
        PROVE  held[w] # NoMessage /\ JobOf(w) = r /\ at[w] \in {"fetching", "upserting", "written"}
    BY <1>0, <1>5, <1>9 DEF Owed, JobOf
  <1>10. ASSUME NEW w \in Workers, NEW n \in Messages, n[1] = JobOf(w), held[w] # NoMessage,
                queue' = [queue EXCEPT ![n] = @ + 1],
                \A v \in Workers \ {w} : held'[v] = held[v] /\ at'[v] = at[v]
         PROVE  FALSE
    <2>1. queue'[n] > 0 /\ \A m \in Messages : queue[m] > 0 => queue'[m] > 0
      BY <1>10
    <2>2. JobOf(w) # r
      BY <1>0, <1>10, <2>1 DEF Owed
    <2> QED BY <1>0, <1>5, <1>10, <2>1, <2>2 DEF Owed, JobOf
  <1>11. ASSUME NEW w \in Workers, Inner(w) \/ Finish(w)
         PROVE  CommitHistory(w) /\ JobOf(w) = r
    <2>1. /\ queue' = queue /\ held'[w] \in {held[w], NoMessage}
          /\ \A v \in Workers \ {w} : held'[v] = held[v] /\ at'[v] = at[v]
      BY <1>11 DEF Inner, Finish, Acknowledge, MarkFailed, GiveUp, SaveRefused, SaveReport,
         WriteHistory, CommitHistory, UpsertFails, Goto, queueVars
    <2>2. held[w] # NoMessage /\ JobOf(w) = r /\ at[w] \in {"fetching", "upserting", "written"}
      BY <1>9, <2>1
    <2>3. r \notin broken'
      BY <1>0
    <2>4. ~SaveRefused(w) /\ ~UpsertFails(w)
      BY <2>2, <2>3 DEF SaveRefused, UpsertFails
    <2>5. ASSUME NEW kind \in Errors, MarkFailed(w, kind) PROVE FALSE
      <3>1. report' = [report EXCEPT ![r] = [report[r] EXCEPT !.status = "failed"]]
        BY <2>2, <2>5 DEF MarkFailed
      <3>2. report'[r].status = "failed"
        BY <1>0, <3>1 DEF Row
      <3> QED BY <1>0, <3>2
    <2>6. ~SaveReport(w)
      BY <1>3, <2>2
    <2>7. ~WriteHistory(w)
      <3>1. SUFFICES ASSUME WriteHistory(w) PROVE FALSE
        OBVIOUS
      <3>2. held' = held /\ at'[w] = "written"
        BY <3>1 DEF WriteHistory, Goto, queueVars
      <3> QED BY <1>0, <2>2, <3>2 DEF Owed, JobOf
    <2>8. ~GiveUp(w) /\ ~Finish(w)
      BY <2>2 DEF GiveUp, Finish
    <2> QED BY <1>11, <2>2, <2>4, <2>5, <2>6, <2>7, <2>8 DEF Inner
  <1>12. ASSUME NEW w \in Workers, RetryLater(w) \/ WorkerDies(w) PROVE FALSE
    <2>1. held[w] # NoMessage
      BY <1>12 DEF RetryLater, WorkerDies, WorkerLost, Base, WorkerInv
    <2>2. \A v \in Workers \ {w} : held'[v] = held[v] /\ at'[v] = at[v]
      BY <1>12 DEF RetryLater, Retry, WorkerDies, WorkerLost, Goto
    <2>3. PICK n \in Messages : n[1] = JobOf(w) /\ queue' = [queue EXCEPT ![n] = @ + 1]
      <3>1. CASE RetryLater(w)
        <4>1. <<JobOf(w), RetriesOf(w) + 1>> \in Messages
          BY <2>1, <3>1, HeldIsMessage, MessagesMake DEF RetryLater, Retry, JobOf, RetriesOf
        <4> QED BY <3>1, <4>1 DEF RetryLater, Retry
      <3>2. CASE WorkerDies(w)
        <4>1. held[w] \in Messages /\ held[w][1] = JobOf(w)
          BY <2>1, HeldIsMessage DEF JobOf
        <4> QED BY <3>2, <4>1 DEF WorkerDies, WorkerLost
      <3> QED BY <1>12, <3>1, <3>2
    <2> QED BY <1>10, <2>1, <2>2, <2>3
  <1>13. ASSUME NEW q \in Jobs, SubmitAnalysis(q) \/ OnCommitLost(q) \/ DeleteReport(q)
         PROVE  UNCHANGED <<queue, held, at>>
    BY <1>13 DEF SubmitAnalysis, OnCommitLost, PublisherLost, DeleteReport, queueVars
  <1>14. CASE Listing \/ UNCHANGED vars
    BY <1>6, <1>14 DEF Listing, ListHistory, StoreHistory, CacheExpires, vars, queueVars
  <1> QED BY <1>6, <1>7, <1>8, <1>11, <1>12, <1>13, <1>14 DEF Next, WorkerStep, Inner, Listing

\* A report is counted no sooner than its history row is, whose count goes up by one.
LEMMA AtLeastStep ==
    ASSUME Base, Base', [Next]_vars, \A w \in Workers : WriterInv(w), AtLeast
    PROVE  AtLeast'
  <1> TypeOK
    BY DEF Base
  <1>1. history \in Nat /\ Cardinality(Counted) \in Nat
    BY FS_CardinalityType DEF TypeOK, AtLeast
  <1>2. ASSUME NEW w \in Workers, CommitHistory(w) PROVE history' = history + 1
    BY <1>2 DEF CommitHistory, WriterInv
  <1>3. CASE \E w \in Workers : CommitHistory(w)
    <2>1. PICK w \in Workers : CommitHistory(w)
      BY <1>3
    <2> DEFINE q == JobOf(w)
    <2>2. \A v \in Workers : CommitHistory(v) => v = w
      BY <2>1 DEF CommitHistory, WriterInv
    <2>3. Counted' \subseteq Counted \cup {q}
      BY <2>2, CountedMoves
    <2> HIDE DEF q
    <2>4. /\ IsFiniteSet(Counted \cup {q})
          /\ Cardinality(Counted \cup {q}) \in {Cardinality(Counted), Cardinality(Counted) + 1}
      BY FS_AddElement DEF AtLeast
    <2>5. /\ IsFiniteSet(Counted') /\ Cardinality(Counted') \in Nat
          /\ Cardinality(Counted') <= Cardinality(Counted \cup {q})
      BY <2>3, <2>4, SmallerSet
    <2>6. Cardinality(Counted') <= history'
      BY <1>1, <1>2, <2>1, <2>4, <2>5 DEF AtLeast
    <2> QED BY <2>5, <2>6 DEF AtLeast
  <1>4. CASE ~\E w \in Workers : CommitHistory(w)
    <2>1. Counted' \subseteq Counted
      BY <1>4, CountedMoves
    <2>2. /\ IsFiniteSet(Counted') /\ Cardinality(Counted') \in Nat
          /\ Cardinality(Counted') <= Cardinality(Counted)
      BY <2>1, SmallerSet DEF AtLeast
    <2>3. history' = history
      BY <1>4 DEF Next, SubmitAnalysis, OnCommit, OnCommitLost, DeleteReport, TakeMessage,
         WorkerStep, MarkFailed, RetryLater, GiveUp, SaveRefused, SaveReport, WriteHistory,
         UpsertFails, Finish, WorkerDies, ListHistory, StoreHistory, CacheExpires, vars,
         historyVars
    <2>4. Cardinality(Counted') <= history'
      BY <1>1, <2>2, <2>3 DEF AtLeast
    <2> QED BY <2>2, <2>4 DEF AtLeast
  <1> QED BY <1>3, <1>4

-----------------------------------------------------------------------------
HistoryInv == /\ Base /\ Unmeasured /\ \A w \in Workers : WriterInv(w)
              /\ AllFinite /\ AtMost /\ AtLeast

\* No count and nothing to count in the beginning.
LEMMA HistoryInit == Init => HistoryInv
  <1> SUFFICES ASSUME Init PROVE HistoryInv
    OBVIOUS
  <1>1. Base
    BY BaseInit
  <1>2. /\ \A m \in Messages : queue[m] = 0
        /\ \A w \in Workers : held[w] = NoMessage /\ at[w] = "idle"
        /\ \A r \in Jobs : ~report[r].measured /\ report[r].status = "none"
        /\ history = 0 /\ crashes = 0
    BY DEF Init, InitQueue, NoRow
  <1>3. Unmeasured /\ \A w \in Workers : WriterInv(w)
    BY <1>2 DEF Unmeasured, WriterInv
  <1>4. /\ Copies(Owned) = {} /\ Attempting = {} /\ Counting = {} /\ Measured = {}
        /\ Counted = {}
    BY <1>2, OwnedAssumption, NothingWaits DEF Attempting, Counting, Measured, Counted
  <1>5. Expected = {}
    BY <1>2, <1>4 DEF Expected, Attempted
  <1>6. IsFiniteSet({}) /\ Cardinality({}) = 0
    BY FS_EmptySet
  <1> QED BY <1>1, <1>2, <1>3, <1>4, <1>5, <1>6 DEF HistoryInv, AllFinite, AtMost, AtLeast

\* The invariant of the history is inductive.
LEMMA HistoryStep == HistoryInv /\ [Next]_vars => HistoryInv'
  <1> SUFFICES ASSUME HistoryInv, [Next]_vars PROVE HistoryInv'
    OBVIOUS
  <1>1. Base /\ Unmeasured /\ AllFinite /\ AtMost /\ AtLeast /\ \A w \in Workers : WriterInv(w)
    BY DEF HistoryInv
  <1>2. Base'
    BY <1>1, BaseStep
  <1>3. Unmeasured' /\ \A w \in Workers : WriterInv(w)'
    BY <1>1, UnmeasuredStep, WriterStep
  <1>4. AllFinite' /\ AtMost'
    BY <1>1, <1>2, AtMostStep
  <1>5. AtLeast'
    BY <1>1, <1>2, AtLeastStep
  <1> QED BY <1>2, <1>3, <1>4, <1>5 DEF HistoryInv

\* It implies the property: what is expected is among what is attempted, and with no
\* message left nothing is owed.
LEMMA HistoryIsExplained == HistoryInv => HistoryExplained
  <1> SUFFICES ASSUME HistoryInv PROVE HistoryExplained
    OBVIOUS
  <1>1. TypeOK /\ AllFinite /\ AtMost /\ AtLeast
    BY DEF HistoryInv, Base
  <1>2. history <= Cardinality(Measured) + crashes
    BY <1>1, ExpectedAreFew, CountsAreNumbers DEF AtMost
  <1>3. ASSUME \A r \in Jobs : NothingLeft(r)
        PROVE  Cardinality({r \in Owned \ broken : /\ report[r].status = "completed"
                                                   /\ ~report[r].is_deleted}) <= history
    <2>1. \A r \in Owned : ~Owed(r)
      <3>1. \A m \in Messages : queue[m] = 0
        BY <1>3, MessagesMake DEF NothingLeft
      <3> QED BY <1>3, <3>1, OwnedAssumption DEF Owed, NothingLeft
    <2>2. Counted = {r \in Owned \ broken : /\ report[r].status = "completed"
                                            /\ ~report[r].is_deleted}
      BY <2>1 DEF Counted
    <2> QED BY <1>1, <2>2 DEF AtLeast
  <1>4. Measured = {r \in Owned : report[r].measured}
    BY DEF Measured
  <1> QED BY <1>2, <1>3, <1>4 DEF HistoryExplained

\* The history of a URL counts each analysis: it is ahead of the analyses by at most
\* one for each process that died, and not behind the completed ones once no message
\* is left (analysis_service.py, _upsert_history: get_or_create and
\* F("reports_count") + 1 in one transaction).
THEOREM HistoryCorrect == Spec => []HistoryExplained
  BY HistoryInit, HistoryStep, HistoryIsExplained, PTL DEF Spec

-----------------------------------------------------------------------------
\* The list of a reader and the cached one were committed, and one that met no open
\* transaction still is, with nobody about to change it.
ListsAreCurrent ==
    /\ cached # NoCache => /\ cached <= history
                           /\ "cached" \notin met => cached = history /\ writer = NoWriter
    /\ reader.place = "listed" =>
          /\ reader.seen <= history
          /\ "reader" \notin met => reader.seen = history /\ writer = NoWriter

\* A commit finds no list but those its transaction met: it dropped the cached one.
LEMMA ListsStep ==
    ASSUME TypeOK, \A w \in Workers : WriterInv(w), ListsAreCurrent, [Next]_vars
    PROVE  ListsAreCurrent'
  <1> USE WriterAssumption DEF ListsAreCurrent, TypeOK
  <1>1. ASSUME UNCHANGED <<history, writer, cached, reader, met>> PROVE ListsAreCurrent'
    BY <1>1
  <1>2. ASSUME NEW w \in Workers, WriteHistory(w) PROVE ListsAreCurrent'
    BY <1>2 DEF WriteHistory, MetReader, historyVars
  <1>3. ASSUME NEW w \in Workers, CommitHistory(w) PROVE ListsAreCurrent'
    <2>1. history' = history + 1 /\ writer = w /\ writer # NoWriter
      BY <1>3 DEF CommitHistory, WriterInv
    <2>2. UNCHANGED <<cached, reader, met>>
      BY <1>3 DEF CommitHistory, cacheVars
    <2> QED BY <2>1, <2>2
  <1>4. ASSUME NEW w \in Workers, UpsertFails(w) \/ WorkerDies(w) PROVE ListsAreCurrent'
    <2>1. UNCHANGED <<history, cached, reader, met>>
      BY <1>4 DEF UpsertFails, WorkerDies, cacheVars
    <2>2. writer = NoWriter => writer' = NoWriter
      BY <1>4 DEF UpsertFails, WorkerDies, EndTransaction
    <2> QED BY <2>1, <2>2
  <1>5. CASE Listing
    BY <1>5 DEF Listing, ListHistory, StoreHistory, CacheExpires, NoCache, historyVars
  <1>6. ASSUME NEW w \in Workers,
               \/ (\E kind \in Errors : MarkFailed(w, kind)) \/ RetryLater(w) \/ GiveUp(w)
               \/ SaveRefused(w) \/ SaveReport(w) \/ Finish(w)
        PROVE  ListsAreCurrent'
    BY <1>1, <1>6 DEF MarkFailed, RetryLater, GiveUp, SaveRefused, SaveReport, Finish,
       historyVars, cacheVars
  <1>7. ASSUME NEW q \in Jobs,
               SubmitAnalysis(q) \/ OnCommit(q) \/ OnCommitLost(q) \/ DeleteReport(q)
        PROVE  ListsAreCurrent'
    BY <1>1, <1>7 DEF SubmitAnalysis, OnCommit, OnCommitLost, DeleteReport, historyVars,
       cacheVars
  <1>8. ASSUME NEW w \in Workers, NEW m \in Messages, TakeMessage(w, m) PROVE ListsAreCurrent'
    BY <1>1, <1>8 DEF TakeMessage, historyVars, cacheVars
  <1>9. CASE UNCHANGED vars
    BY <1>1, <1>9 DEF vars, historyVars, cacheVars
  <1> QED BY <1>2, <1>3, <1>4, <1>5, <1>6, <1>7, <1>8, <1>9 DEF Next, WorkerStep, Listing

\* Nothing is cached and nobody lists in the beginning.
LEMMA ListsInit == Init => ListsAreCurrent
  BY DEF Init, ListsAreCurrent

\* A stale list of the history is one that was in a reader's hands while a transaction
\* on the row was open; any other cached list is the committed one for as long as the
\* cache keeps it (analysis_service.py, invalidate_history_cache in _upsert_history).
THEOREM StaleCorrect == Spec => []StaleOnlyByRace
  <1>1. HistoryInv => TypeOK /\ \A w \in Workers : WriterInv(w)
    BY DEF HistoryInv, Base
  <1>2. HistoryInv /\ ListsAreCurrent /\ [Next]_vars => ListsAreCurrent'
    BY <1>1, ListsStep
  <1>3. TypeOK /\ ListsAreCurrent => StaleOnlyByRace
    BY DEF TypeOK, ListsAreCurrent, StaleOnlyByRace
  <1> QED BY HistoryInit, HistoryStep, ListsInit, <1>1, <1>2, <1>3, PTL DEF Spec
=============================================================================
