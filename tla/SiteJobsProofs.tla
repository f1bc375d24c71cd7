--------------------------- MODULE SiteJobsProofs ---------------------------
(***************************************************************************)
(* Proofs about module SiteJobs, for any number of jobs, workers, retries, *)
(* crashes, links and items.  TaskMove is what a step does to the queue    *)
(* and the places of the workers, whichever task it belongs to: the facts  *)
(* about messages are proved of it once.                                   *)
(***************************************************************************)
EXTENDS SiteJobs, FiniteSetTheorems, WellFoundedInduction, TLAPS

Places == {"idle", "finished", "retrying", "loaded", "running", "stored", "scanning"}
             \cup CrawlPlaces \cup ValidationPlaces

\* The task function of w runs.
Runs(w) == held[w] # NoMessage /\ at[w] \notin {"idle", "finished"}

\* Both messages of a speed test are out; they are not in this queue.
DispatchedBoth(j) == /\ submit[j] = "committed"
                     /\ submit' = [submit EXCEPT ![j] = "queued"]
                     /\ UNCHANGED <<queueVars, at, broken>>

Steps(w) == \/ \E place \in Places \ {"idle"} : Runs(w) /\ Continue(w, place)
            \/ Runs(w) /\ Raise(w)
            \/ Working(w, "retrying") /\ PublishRetry(w)
            \/ Finish(w)

TaskMove ==
    \/ UNCHANGED taskVars
    \/ \E j \in Jobs : CommitSubmission(j) \/ OnCommit(j) \/ OnCommitLost(j) \/ DispatchedBoth(j)
    \/ \E w \in Workers, m \in Messages, place \in Places \ {"idle"} : Take(w, m, place)
    \/ \E w \in Workers : Steps(w) \/ WorkerDies(w)
    \/ PublisherLost /\ UNCHANGED <<submit, at, broken>>

-----------------------------------------------------------------------------
\* The places of a task function are neither of the two places outside of it.
LEMMA PlacesApart ==
    /\ CrawlPlaces \subseteq Places \ {"idle", "finished"}
    /\ ValidationPlaces \subseteq Places \ {"idle", "finished"}
    /\ {"scanning", "retrying", "loaded", "running", "stored"}
          \subseteq Places \ {"idle", "finished"}
    /\ "finished" \in Places \ {"idle"}
  BY DEF Places, CrawlPlaces, ValidationPlaces

\* Whatever the task, a worker's step moves queue, workers and places as Steps says.
LEMMA WorkerStepsMove ==
    ASSUME NEW w \in Workers, WorkerStep(w)
    PROVE  Steps(w) \/ UNCHANGED taskVars
  <1> USE PlacesApart
  <1>1. CASE CrawlStep(w)
    <2>1. ASSUME NEW n \in 0..MaxLinks, SaveFound(w, n) PROVE Steps(w)
      BY <2>1 DEF SaveFound, Steps, Runs, Working, CrawlPlaces
    <2>2. CheckLink(w) => UNCHANGED taskVars
      BY DEF CheckLink
    <2>3. InsertResults(w) \/ SaveCrawl(w) \/ CrawlFails(w) \/ CrawlRaises(w) => Steps(w)
      BY DEF InsertResults, SaveCrawl, CrawlFails, CrawlRaises, Steps, Runs, Working, CrawlPlaces
    <2> QED BY <1>1, <2>1, <2>2, <2>3 DEF CrawlStep
  <1>2. CASE ValidationStep(w)
    <2>1. ASSUME NEW n \in 0..MaxItems, ReplaceItems(w, n) PROVE Steps(w)
      BY <2>1 DEF ReplaceItems, Steps, Runs, Working, ValidationPlaces
    <2>2. CommitItems(w) \/ ValidationFails(w) \/ ValidationRaises(w) => Steps(w)
      BY DEF CommitItems, ValidationFails, ValidationRaises, Steps, Runs, Working, ValidationPlaces
    <2> QED BY <1>2, <2>1, <2>2 DEF ValidationStep
  <1>3. CASE ScanStep(w)
    BY <1>3 DEF ScanStep, MarkScanFailed, RetryScan, GiveUpScan, SaveScan, ScanRaises,
                Steps, Runs, Working
  <1>4. CASE FullStep(w)
    BY <1>4 DEF FullStep, MarkProcessing, StoreFile, SaveFull, FullFails, FullRaises,
                Steps, Runs, Working
  <1>5. Finish(w) => Steps(w)
    BY DEF Steps
  <1> QED BY <1>1, <1>2, <1>3, <1>4, <1>5 DEF WorkerStep

\* Every step of the site moves the queue and the workers in one of these ways.
LEMMA StepsAreTaskMoves == [Next]_vars => TaskMove
  <1> SUFFICES ASSUME [Next]_vars PROVE TaskMove
    OBVIOUS
  <1> USE PlacesApart
  <1>1. ASSUME NEW j \in Jobs, Submit(j) PROVE TaskMove
    BY <1>1 DEF Submit, SubmitCrawl, SubmitValidation, SubmitSslCheck, CreateFullReport,
                SubmitSpeedTest, TaskMove
  <1>2. ASSUME NEW j \in Jobs, Publish(j) PROVE TaskMove
    BY <1>2 DEF Publish, DispatchGoogle, DispatchGtmetrix, DispatchedBoth, TaskMove
  <1>3. ASSUME NEW j \in Jobs, PublishLost(j) PROVE TaskMove
    BY <1>3 DEF PublishLost, DispatchLost, TaskMove
  <1>4. ASSUME NEW j \in Jobs, Owner(j) PROVE TaskMove
    BY <1>4 DEF Owner, DeleteScan, TaskMove
  <1>5. ASSUME NEW w \in Workers, NEW m \in Messages, TakeMessage(w, m) PROVE TaskMove
    <2>1. \E place \in Places \ {"idle"} : Take(w, m, place)
      BY <1>5 DEF TakeMessage, StartCrawl, StartValidation, StartScan, LoadReport,
                  CrawlPlaces, ValidationPlaces
    <2> QED BY <2>1 DEF TaskMove
  <1>6. ASSUME NEW w \in Workers, WorkerStep(w) PROVE TaskMove
    BY <1>6, WorkerStepsMove DEF TaskMove
  <1>7. ASSUME NEW w \in Workers, Die(w) PROVE TaskMove
    BY <1>7 DEF Die, TaskMove
  <1>8. ASSUME NEW j \in Jobs, Expire(j) PROVE TaskMove
    BY <1>8 DEF Expire, TaskMove
  <1>9. CASE Purging
    BY <1>9 DEF Purging, PurgeStep, StartPurge, PurgeFile, PurgeRow, TaskMove
  <1>10. CASE PurgeDies
    BY <1>10 DEF PurgeDies, TaskMove
  <1>11. ASSUME NEW h \in Halves, HalfEnds(h) PROVE TaskMove
    BY <1>11 DEF HalfEnds, TaskMove
  <1>12. ASSUME NEW r \in SpeedRows, RemoveRow(r) PROVE TaskMove
    BY <1>12 DEF RemoveRow, TaskMove
  <1>13. CASE UNCHANGED vars
    BY <1>13 DEF vars, TaskMove
  <1> QED BY <1>1, <1>2, <1>3, <1>4, <1>5, <1>6, <1>7, <1>8, <1>9, <1>10, <1>11, <1>12, <1>13
          DEF Next, WorkerRuns, AllStopped

-----------------------------------------------------------------------------
PlacesTypeOK == TaskTypeOK /\ at \in [Workers -> Places]

\* What messages are: a job and a number of retries, and the next one of a chain.
LEMMA MessagesMake ==
    /\ \A j \in Jobs : <<j, 0>> \in Messages
    /\ \A m \in Messages : m = <<m[1], m[2]>> /\ m[1] \in Jobs /\ m[2] \in 0..MAX_RETRIES
    /\ \A m \in Messages : m[2] < MAX_RETRIES => <<m[1], m[2] + 1>> \in Messages
  BY RetriesAssumption DEF Messages

\* What a worker holds, when it holds something.
LEMMA HeldIsMessage ==
    ASSUME PlacesTypeOK, NEW w \in Workers, held[w] # NoMessage
    PROVE  held[w] \in Messages /\ JobOf(w) \in Jobs /\ RetriesOf(w) \in 0..MAX_RETRIES
  BY MessagesMake DEF PlacesTypeOK, TaskTypeOK, QueueTypeOK, JobOf, RetriesOf

\* The types of queue, workers and places survive every move.
LEMMA MovesKeepTypes == PlacesTypeOK /\ TaskMove => PlacesTypeOK'
  <1> SUFFICES ASSUME PlacesTypeOK, TaskMove PROVE PlacesTypeOK'
    OBVIOUS
  <1> USE DEF PlacesTypeOK, TaskTypeOK, QueueTypeOK, Submissions
  <1> USE PlacesApart, RetriesAssumption
  <1>1. CASE UNCHANGED taskVars
    BY <1>1 DEF taskVars, queueVars
  <1>2. ASSUME NEW j \in Jobs,
               CommitSubmission(j) \/ OnCommit(j) \/ OnCommitLost(j) \/ DispatchedBoth(j)
        PROVE  PlacesTypeOK'
    <2>1. <<j, 0>> \in Messages
      BY MessagesMake
    <2> QED BY <1>2, <2>1 DEF CommitSubmission, OnCommit, OnCommitLost, DispatchedBoth, Delay,
                PublisherLost, queueVars
  <1>3. ASSUME NEW w \in Workers, NEW m \in Messages, NEW place \in Places \ {"idle"},
               Take(w, m, place)
        PROVE  PlacesTypeOK'
    BY <1>3 DEF Take, Deliver, Goto
  <1>4. ASSUME NEW w \in Workers, NEW place \in Places \ {"idle"}, Runs(w), Continue(w, place)
        PROVE  PlacesTypeOK'
    BY <1>4 DEF Continue, Goto, queueVars
  <1>5. ASSUME NEW w \in Workers, Runs(w), Raise(w) PROVE PlacesTypeOK'
    <2>1. JobOf(w) \in Jobs
      BY <1>5, HeldIsMessage DEF Runs
    <2> QED BY <1>5, <2>1 DEF Raise, Goto, queueVars
  <1>6. ASSUME NEW w \in Workers, Working(w, "retrying"), PublishRetry(w) PROVE PlacesTypeOK'
    <2>1. <<JobOf(w), RetriesOf(w) + 1>> \in Messages
      BY <1>6, HeldIsMessage, MessagesMake DEF Working, PublishRetry, Retry, JobOf, RetriesOf
    <2> QED BY <1>6, <2>1 DEF PublishRetry, Retry, Goto
  <1>7. ASSUME NEW w \in Workers, Finish(w) PROVE PlacesTypeOK'
    BY <1>7 DEF Finish, Acknowledge, Goto, Places
  <1>8. ASSUME NEW w \in Workers, WorkerDies(w) PROVE PlacesTypeOK'
    BY <1>8, HeldIsMessage DEF WorkerDies, WorkerLost, Goto, Places
  <1>9. CASE PublisherLost /\ UNCHANGED <<submit, at, broken>>
    BY <1>9 DEF PublisherLost
  <1> QED BY <1>1, <1>2, <1>3, <1>4, <1>5, <1>6, <1>7, <1>8, <1>9 DEF TaskMove, Steps

-----------------------------------------------------------------------------
\* A message is about a job whose request has queued it.
Sent == /\ \A m \in Messages : queue[m] > 0 => submit[m[1]] = "queued"
        /\ \A w \in Workers : held[w] # NoMessage => submit[JobOf(w)] = "queued"

\* A message is only ever about a job that was submitted.
LEMMA MovesKeepSent == PlacesTypeOK /\ Sent /\ TaskMove => Sent'
  <1> SUFFICES ASSUME PlacesTypeOK, Sent, TaskMove PROVE Sent'
    OBVIOUS
  <1> USE DEF PlacesTypeOK, TaskTypeOK, QueueTypeOK, Sent, JobOf
  <1>1. CASE UNCHANGED taskVars
    BY <1>1 DEF taskVars, queueVars
  <1>2. ASSUME NEW j \in Jobs, CommitSubmission(j) \/ OnCommitLost(j) \/ DispatchedBoth(j)
        PROVE  Sent'
    BY <1>2, HeldIsMessage, MessagesMake
       DEF CommitSubmission, OnCommitLost, DispatchedBoth, PublisherLost, queueVars
  <1>3. ASSUME NEW j \in Jobs, OnCommit(j) PROVE Sent'
    <2>1. <<j, 0>> \in Messages /\ <<j, 0>>[1] = j
      BY MessagesMake
    <2>2. ASSUME NEW m \in Messages, queue'[m] > 0 PROVE submit'[m[1]] = "queued"
      BY <1>3, <2>1, <2>2, MessagesMake DEF OnCommit, Delay
    <2>3. ASSUME NEW w \in Workers, held'[w] # NoMessage PROVE submit'[held'[w][1]] = "queued"
      BY <1>3, <2>3, HeldIsMessage DEF OnCommit, Delay
    <2> QED BY <2>2, <2>3
  <1>4. ASSUME NEW w \in Workers, NEW m \in Messages, NEW place, Take(w, m, place)
        PROVE  Sent'
    BY <1>4 DEF Take, Deliver
  <1>5. ASSUME NEW w \in Workers, NEW place, Continue(w, place) \/ Raise(w) PROVE Sent'
    BY <1>5 DEF Continue, Raise, queueVars
  <1>6. ASSUME NEW w \in Workers, Working(w, "retrying"), PublishRetry(w) PROVE Sent'
    <2>1. <<JobOf(w), RetriesOf(w) + 1>>[1] = JobOf(w)
      OBVIOUS
    <2> QED BY <1>6, <2>1 DEF PublishRetry, Retry, Working
  <1>7. ASSUME NEW w \in Workers, Finish(w) PROVE Sent'
    BY <1>7 DEF Finish, Acknowledge
  <1>8. ASSUME NEW w \in Workers, WorkerDies(w) PROVE Sent'
    BY <1>8 DEF WorkerDies, WorkerLost
  <1>9. CASE PublisherLost /\ UNCHANGED <<submit, at, broken>>
    BY <1>9 DEF PublisherLost
  <1> QED BY <1>1, <1>2, <1>3, <1>4, <1>5, <1>6, <1>7, <1>8, <1>9 DEF TaskMove, Steps

\* Worker w has a message and is not at a place where it only waits for its
\* acknowledgement to go through.
Busy(w, resting) == held[w] # NoMessage /\ at[w] \notin resting

\* One copy of one message per job, waiting or worked on.
OneAtATime(resting) ==
    /\ \A m \in Messages : queue[m] <= 1
    /\ \A m, n \in Messages : queue[m] > 0 /\ queue[n] > 0 /\ m[1] = n[1] => m = n
    /\ \A m \in Messages, w \in Workers : queue[m] > 0 /\ Busy(w, resting) => JobOf(w) # m[1]
    /\ \A w, v \in Workers :
          Busy(w, resting) /\ Busy(v, resting) /\ JobOf(w) = JobOf(v) => w = v

\* The messages of a job stay one at a time: with retries while nobody dies,
\* resting at "finished"; without retries always.
LEMMA MovesKeepOneAtATime ==
    ASSUME PlacesTypeOK, Sent, TaskMove, NEW resting, OneAtATime(resting),
           \/ resting = {"finished"} /\ crashes' = 0
           \/ resting = {} /\ \A w \in Workers : at[w] # "retrying"
    PROVE  OneAtATime(resting)'
  <1> USE DEF PlacesTypeOK, TaskTypeOK, QueueTypeOK, OneAtATime, JobOf, Busy
  <1>1. CASE UNCHANGED taskVars
    BY <1>1 DEF taskVars, queueVars
  <1>2. ASSUME NEW j \in Jobs, CommitSubmission(j) \/ OnCommitLost(j) \/ DispatchedBoth(j)
        PROVE  OneAtATime(resting)'
    BY <1>2 DEF CommitSubmission, OnCommitLost, DispatchedBoth, PublisherLost, queueVars
  <1>3. ASSUME NEW j \in Jobs, OnCommit(j) PROVE OneAtATime(resting)'
    <2>1. <<j, 0>> \in Messages /\ <<j, 0>>[1] = j
      BY MessagesMake
    <2>2. /\ \A m \in Messages : m[1] = j => ~(queue[m] > 0)
          /\ \A w \in Workers : held[w] # NoMessage => JobOf(w) # j
      BY <1>3 DEF OnCommit, Sent
    <2>3. /\ queue' = [queue EXCEPT ![<<j, 0>>] = @ + 1] /\ held' = held /\ at' = at
      BY <1>3 DEF OnCommit, Delay
    <2>4. \A m \in Messages : /\ m # <<j, 0>> => queue'[m] = queue[m]
                              /\ queue'[<<j, 0>>] = 1
      BY <2>1, <2>2, <2>3
    <2> QED BY <2>1, <2>2, <2>3, <2>4
  <1>4. ASSUME NEW w \in Workers, NEW m \in Messages, NEW place, Take(w, m, place)
        PROVE  OneAtATime(resting)'
    <2>1. /\ held[w] = NoMessage /\ queue[m] = 1
          /\ \A n \in Messages : /\ n # m => queue'[n] = queue[n]
                                 /\ queue'[m] = 0
          /\ \A v \in Workers : /\ v # w => held'[v] = held[v] /\ at'[v] = at[v]
                                /\ held'[w] = m
      BY <1>4 DEF Take, Deliver, Goto
    <2>2. \A n \in Messages : queue'[n] <= 1 /\ (queue'[n] > 0 => n # m /\ queue[n] > 0)
      BY <2>1
    <2>3. \A n \in Messages : queue'[n] > 0 => n[1] # m[1]
      BY <2>1, <2>2
    <2> QED BY <2>1, <2>2, <2>3
  <1>5. ASSUME NEW w \in Workers, NEW place \in Places \ {"idle"}, Runs(w),
               Continue(w, place) \/ Raise(w)
        PROVE  OneAtATime(resting)'
    <2>1. /\ queue' = queue /\ held' = held
          /\ \A v \in Workers : v # w => at'[v] = at[v]
      BY <1>5 DEF Continue, Raise, queueVars, Goto
    <2>2. \A v \in Workers : Busy(v, resting)' => Busy(v, resting)
      BY <1>5, <2>1 DEF Runs
    <2> QED BY <2>1, <2>2
  <1>6. ASSUME NEW w \in Workers, Working(w, "retrying"), PublishRetry(w)
        PROVE  OneAtATime(resting)'
    <2>1. resting = {"finished"}
      BY <1>6 DEF Working
    <2> DEFINE m == <<JobOf(w), RetriesOf(w) + 1>>
    <2>2. m \in Messages /\ m[1] = JobOf(w)
      BY <1>6, HeldIsMessage, MessagesMake DEF Working, PublishRetry, Retry, RetriesOf
    <2>3. \A n \in Messages : n[1] = JobOf(w) => queue[n] = 0
      BY <1>6, <2>1 DEF Working
    <2>4. \A n \in Messages : /\ n # m => queue'[n] = queue[n]
                              /\ queue'[m] = 1
      BY <1>6, <2>2, <2>3 DEF PublishRetry, Retry
    <2>5. /\ held' = held /\ at'[w] = "finished"
          /\ \A v \in Workers : v # w => at'[v] = at[v]
      BY <1>6 DEF PublishRetry, Retry, Goto
    <2> HIDE DEF m
    <2>6. \A v \in Workers : Busy(v, resting)' => Busy(v, resting) /\ v # w
      BY <2>1, <2>5
    <2>7. \A v \in Workers : Busy(v, resting)' => JobOf(v) # JobOf(w)
      BY <1>6, <2>1, <2>6 DEF Working
    <2> QED BY <2>2, <2>3, <2>4, <2>5, <2>6, <2>7
  <1>7. ASSUME NEW w \in Workers, Finish(w) PROVE OneAtATime(resting)'
    BY <1>7 DEF Finish, Acknowledge, Goto
  <1>8. ASSUME NEW w \in Workers, WorkerDies(w) PROVE OneAtATime(resting)'
    <2>1. resting = {} /\ held[w] # NoMessage /\ held[w] \in Messages
      BY <1>8 DEF WorkerDies, WorkerLost
    <2>2. \A n \in Messages : n[1] = JobOf(w) => queue[n] = 0
      BY <2>1
    <2>3. \A n \in Messages : /\ n # held[w] => queue'[n] = queue[n]
                              /\ queue'[held[w]] = 1
      BY <1>8, <2>1, <2>2 DEF WorkerDies, WorkerLost
    <2>4. \A v \in Workers : /\ v # w => held'[v] = held[v]
                             /\ held'[w] = NoMessage
      BY <1>8 DEF WorkerDies, WorkerLost
    <2> QED BY <2>1, <2>2, <2>3, <2>4
  <1>9. CASE PublisherLost /\ UNCHANGED <<submit, at, broken>>
    BY <1>9 DEF PublisherLost
  <1> QED BY <1>1, <1>2, <1>3, <1>4, <1>5, <1>6, <1>7, <1>8, <1>9, PlacesApart
          DEF TaskMove, Steps

-----------------------------------------------------------------------------
\* A worker is at the places of the kind of its job.
KindOK == /\ kind \in Kinds
          /\ \A w \in Workers :
                /\ at[w] \in CrawlPlaces => kind = "crawl"
                /\ at[w] \in ValidationPlaces => kind = "validation"
                /\ at[w] \in {"scanning", "retrying"} => kind = "scan"
                /\ at[w] \in {"loaded", "running", "stored"} => kind = "full"

\* What moves jobs of every kind.
CommonMove == \/ UNCHANGED taskVars
              \/ \E j \in Jobs : OnCommit(j) \/ OnCommitLost(j)
              \/ \E w \in Workers : Finish(w)
              \/ PublisherLost /\ UNCHANGED <<submit, at, broken>>

CrawlMove == \/ CommonMove /\ UNCHANGED crawlVars
             \/ \E j \in Jobs : SubmitCrawl(j)
             \/ \E w \in Workers, m \in Messages : StartCrawl(w, m)
             \/ \E w \in Workers : \/ CrawlStep(w)
                                   \/ WorkerDies(w) /\ Forget(w) /\ UNCHANGED <<crawl, links>>

ValidationMove ==
    \/ CommonMove /\ UNCHANGED validationVars
    \/ \E j \in Jobs : SubmitValidation(j)
    \/ \E w \in Workers, m \in Messages : StartValidation(w, m)
    \/ \E w \in Workers : \/ ValidationStep(w)
                          \/ /\ WorkerDies(w)
                             /\ instance' = [instance EXCEPT ![w] = 0]
                             /\ UNCHANGED <<validation, items>>

ScanMove == \/ CommonMove /\ UNCHANGED scan
            \/ \E j \in Jobs : SubmitSslCheck(j) \/ DeleteScan(j)
            \/ \E w \in Workers, m \in Messages : StartScan(w, m)
            \/ \E w \in Workers : ScanStep(w) \/ (WorkerDies(w) /\ UNCHANGED scan)

FullMove == \/ CommonMove /\ UNCHANGED fullVars
            \/ \E j \in Jobs : CreateFullReport(j) \/ Expire(j)
            \/ \E w \in Workers, m \in Messages : LoadReport(w, m)
            \/ \E w \in Workers : \/ FullStep(w)
                                  \/ WorkerDies(w) /\ LetGo(w)
                                        /\ UNCHANGED <<full, store, expired, purge>>
            \/ PurgeStep \/ PurgeDies

\* A task function of the kind of the jobs, or an acknowledgement.
LEMMA OwnStep ==
    ASSUME KindOK, NEW w \in Workers, WorkerStep(w)
    PROVE  \/ kind = "crawl" /\ CrawlStep(w) /\ OnlyCrawl
           \/ kind = "validation" /\ ValidationStep(w) /\ OnlyValidation
           \/ kind = "scan" /\ ScanStep(w) /\ OnlyScan
           \/ kind = "full" /\ FullStep(w) /\ OnlyFull
           \/ Finish(w) /\ OnlyTask /\ UNCHANGED <<progress, instance, pdf>>
  <1> USE DEF KindOK, Working
  <1>1. CrawlStep(w) => kind = "crawl"
    BY DEF CrawlStep, SaveFound, CheckLink, InsertResults, SaveCrawl, CrawlFails, CrawlRaises,
           CrawlPlaces
  <1>2. ValidationStep(w) => kind = "validation"
    BY DEF ValidationStep, ReplaceItems, CommitItems, ValidationFails, ValidationRaises,
           ValidationPlaces
  <1>3. ScanStep(w) => kind = "scan"
    BY DEF ScanStep, MarkScanFailed, RetryScan, GiveUpScan, SaveScan, ScanRaises
  <1>4. FullStep(w) => kind = "full"
    BY DEF FullStep, MarkProcessing, StoreFile, SaveFull, FullFails, FullRaises
  <1> QED BY <1>1, <1>2, <1>3, <1>4 DEF WorkerStep

SpeedMove ==
    \/ UNCHANGED speedVars
    \/ \E j \in Jobs : SubmitSpeedTest(j) \/ DispatchGoogle(j) \/ DispatchGtmetrix(j)
    \/ \E h \in Halves : HalfEnds(h)
    \/ \E r \in SpeedRows : RemoveRow(r)

\* What the rows of one kind, and the memory of the workers, may do in a step.
RowMoves == /\ kind' = kind
            /\ kind = "crawl" => CrawlMove
            /\ kind # "crawl" => /\ UNCHANGED <<crawl, links>>
                                 /\ UNCHANGED progress \/ \E w \in Workers : Forget(w)
            /\ kind = "validation" => ValidationMove
            /\ kind # "validation" =>
                  /\ UNCHANGED <<validation, items>>
                  /\ UNCHANGED instance \/ \E w \in Workers : instance' = [instance EXCEPT ![w] = 0]
            /\ kind = "scan" => ScanMove
            /\ kind # "scan" => UNCHANGED scan
            /\ kind = "full" => FullMove
            /\ kind # "full" => \/ /\ UNCHANGED <<full, store, expired, purge>>
                                   /\ UNCHANGED pdf \/ \E w \in Workers : LetGo(w)
                                \/ PurgeStep \/ PurgeDies
            /\ SpeedMove

\* The rows of a kind move only in behaviours of that kind.
LEMMA RowsMoveByKind == KindOK /\ [Next]_vars => RowMoves
  <1> SUFFICES ASSUME KindOK, [Next]_vars PROVE RowMoves
    OBVIOUS
  <1> USE DEF RowMoves, CrawlMove, ValidationMove, ScanMove, FullMove, CommonMove, SpeedMove,
              OnlyCrawl, OnlyValidation, OnlyScan, OnlyFull, OnlySpeed, OnlyTask,
              crawlVars, validationVars, fullVars
  <1>1. ASSUME NEW j \in Jobs, Submit(j) PROVE RowMoves
    BY <1>1 DEF Submit
  <1>2. ASSUME NEW j \in Jobs, Publish(j) \/ PublishLost(j) PROVE RowMoves
    <2>1. CASE kind = "speed" /\ UNCHANGED <<progress, instance, pdf, crawl, links, validation,
                                            items, scan, full, store, expired, purge, kind>>
      BY <1>2, <2>1 DEF Publish, PublishLost, DispatchLost
    <2>2. CASE kind # "speed"
      BY <1>2, <2>2 DEF Publish, PublishLost
    <2> QED BY <1>2, <2>1, <2>2 DEF Publish, PublishLost
  <1>3. ASSUME NEW j \in Jobs, Owner(j) PROVE RowMoves
    BY <1>3 DEF Owner
  <1>4. ASSUME NEW w \in Workers, NEW m \in Messages, TakeMessage(w, m) PROVE RowMoves
    BY <1>4 DEF TakeMessage
  <1>5. ASSUME NEW w \in Workers, WorkerStep(w) PROVE RowMoves
    BY <1>5, OwnStep
  <1>6. ASSUME NEW w \in Workers, Die(w) PROVE RowMoves
    BY <1>6 DEF Die
  <1>7. ASSUME NEW j \in Jobs, kind = "full", Expire(j), OnlyFull PROVE RowMoves
    BY <1>7
  <1>8. CASE Purging
    BY <1>8 DEF Purging, PurgeStep, StartPurge, PurgeFile, PurgeRow
  <1>9. CASE PurgeDies /\ OnlyFull
    BY <1>9 DEF PurgeDies
  <1>10. ASSUME NEW h \in Halves, HalfEnds(h), OnlySpeed PROVE RowMoves
    BY <1>10 DEF HalfEnds
  <1>11. ASSUME NEW r \in SpeedRows, RemoveRow(r), OnlySpeed PROVE RowMoves
    BY <1>11 DEF RemoveRow
  <1>12. CASE UNCHANGED vars
    BY <1>12 DEF vars
  <1> QED BY <1>1, <1>2, <1>3, <1>4, <1>5, <1>6, <1>7, <1>8, <1>9, <1>10, <1>11, <1>12
          DEF Next, WorkerRuns, AllStopped

\* A worker only comes to places of the kind of its behaviour.
LEMMA KindStep == PlacesTypeOK /\ KindOK /\ [Next]_vars => KindOK'
  <1> SUFFICES ASSUME PlacesTypeOK, KindOK, [Next]_vars PROVE KindOK'
    OBVIOUS
  <1> USE DEF KindOK, PlacesTypeOK, CrawlPlaces, ValidationPlaces
  <1>1. RowMoves
    BY RowsMoveByKind
  <1>2. UNCHANGED at => KindOK'
    BY <1>1 DEF RowMoves
  <1>3. ASSUME NEW w \in Workers, Goto(w, "idle") \/ Goto(w, "finished") PROVE KindOK'
    BY <1>1, <1>3 DEF RowMoves, Goto
  <1>4. CommonMove => KindOK'
    BY <1>2, <1>3 DEF CommonMove, taskVars, OnCommit, OnCommitLost, Finish
  <1>5. ASSUME NEW w \in Workers, WorkerDies(w) PROVE KindOK'
    BY <1>3, <1>5 DEF WorkerDies
  <1>6. CASE kind = "crawl"
    <2>1. ASSUME NEW w \in Workers, NEW place \in CrawlPlaces \cup {"finished"}, Goto(w, place)
          PROVE  KindOK'
      BY <1>1, <1>6, <2>1 DEF RowMoves, Goto
    <2>2. ASSUME NEW w \in Workers, CrawlStep(w) PROVE KindOK'
      BY <1>2, <2>1, <2>2 DEF CrawlStep, SaveFound, CheckLink, InsertResults, SaveCrawl,
         CrawlFails, CrawlRaises, Continue, Raise, taskVars
    <2>3. ASSUME NEW w \in Workers, NEW m \in Messages, StartCrawl(w, m) PROVE KindOK'
      BY <2>1, <2>3 DEF StartCrawl, Take
    <2> QED BY <1>1, <1>2, <1>4, <1>5, <1>6, <2>2, <2>3
            DEF RowMoves, CrawlMove, SubmitCrawl, CommitSubmission
  <1>7. CASE kind = "validation"
    <2>1. ASSUME NEW w \in Workers, NEW place \in ValidationPlaces \cup {"finished"}, Goto(w, place)
          PROVE  KindOK'
      BY <1>1, <1>7, <2>1 DEF RowMoves, Goto
    <2>2. ASSUME NEW w \in Workers, ValidationStep(w) PROVE KindOK'
      BY <2>1, <2>2 DEF ValidationStep, ReplaceItems, CommitItems, ValidationFails,
         ValidationRaises, Continue, Raise
    <2>3. ASSUME NEW w \in Workers, NEW m \in Messages, StartValidation(w, m) PROVE KindOK'
      BY <2>1, <2>3 DEF StartValidation, Take
    <2> QED BY <1>1, <1>2, <1>4, <1>5, <1>7, <2>2, <2>3
            DEF RowMoves, ValidationMove, SubmitValidation, CommitSubmission
  <1>8. CASE kind = "scan"
    <2>1. ASSUME NEW w \in Workers, NEW place \in {"scanning", "retrying", "finished"},
                 Goto(w, place)
          PROVE  KindOK'
      BY <1>1, <1>8, <2>1 DEF RowMoves, Goto
    <2>2. ASSUME NEW w \in Workers, ScanStep(w) PROVE KindOK'
      BY <2>1, <2>2 DEF ScanStep, MarkScanFailed, RetryScan, GiveUpScan, SaveScan, ScanRaises,
         Continue, Raise, PublishRetry
    <2>3. ASSUME NEW w \in Workers, NEW m \in Messages, StartScan(w, m) PROVE KindOK'
      BY <2>1, <2>3 DEF StartScan, Take
    <2>4. ASSUME NEW j \in Jobs, SubmitSslCheck(j) \/ DeleteScan(j) PROVE KindOK'
      BY <1>2, <2>4 DEF SubmitSslCheck, CommitSubmission, DeleteScan, taskVars
    <2> QED BY <1>1, <1>4, <1>5, <1>8, <2>2, <2>3, <2>4 DEF RowMoves, ScanMove
  <1>9. CASE kind = "full"
    <2>1. ASSUME NEW w \in Workers, NEW place \in {"loaded", "running", "stored", "finished"},
                 Goto(w, place)
          PROVE  KindOK'
      BY <1>1, <1>9, <2>1 DEF RowMoves, Goto
    <2>2. ASSUME NEW w \in Workers, FullStep(w) PROVE KindOK'
      BY <2>1, <2>2 DEF FullStep, MarkProcessing, StoreFile, SaveFull, FullFails, FullRaises,
         Continue, Raise
    <2>3. ASSUME NEW w \in Workers, NEW m \in Messages, LoadReport(w, m) PROVE KindOK'
      BY <2>1, <2>3 DEF LoadReport, Take
    <2>4. ASSUME NEW j \in Jobs, CreateFullReport(j) \/ Expire(j) PROVE KindOK'
      BY <1>2, <2>4 DEF CreateFullReport, CommitSubmission, Expire, taskVars
    <2>5. PurgeStep \/ PurgeDies => UNCHANGED at
      BY DEF PurgeStep, StartPurge, PurgeFile, PurgeRow, PurgeDies, taskVars
    <2> QED BY <1>1, <1>2, <1>4, <1>5, <1>9, <2>2, <2>3, <2>4, <2>5 DEF RowMoves, FullMove
  <1>10. CASE kind = "speed"
    <2>3. ASSUME NEW w \in Workers, NEW m \in Messages, TakeMessage(w, m) PROVE FALSE
      BY <1>10, <2>3 DEF TakeMessage
    <2>4. ASSUME NEW w \in Workers, WorkerStep(w) PROVE KindOK'
      <3>1. Finish(w)
        BY <1>10, <2>4, OwnStep
      <3> QED BY <1>3, <3>1 DEF Finish
    <2>5. ASSUME NEW w \in Workers, Die(w) PROVE KindOK'
      BY <1>5, <2>5 DEF Die
    <2>6. ASSUME NEW j \in Jobs, Submit(j) \/ Publish(j) \/ PublishLost(j) \/ Owner(j)
          PROVE  UNCHANGED at
      BY <1>10, <2>6 DEF Submit, SubmitSpeedTest, CommitSubmission, Publish, DispatchGoogle,
         DispatchGtmetrix, PublishLost, DispatchLost, OnCommitLost, Owner, taskVars
    <2>7. Purging \/ PurgeDies => UNCHANGED at
      BY DEF Purging, PurgeStep, StartPurge, PurgeFile, PurgeRow, PurgeDies, taskVars
    <2>8. ASSUME NEW h \in Halves, HalfEnds(h) PROVE UNCHANGED at
      BY <2>8 DEF HalfEnds, taskVars
    <2>9. ASSUME NEW r \in SpeedRows, RemoveRow(r) PROVE UNCHANGED at
      BY <2>9 DEF RemoveRow, taskVars
    <2>10. UNCHANGED vars => UNCHANGED at
      BY DEF vars, taskVars
    <2> QED BY <1>2, <1>10, <2>3, <2>4, <2>5, <2>6, <2>7, <2>8, <2>9, <2>10
            DEF Next, WorkerRuns, AllStopped
  <1> QED BY <1>6, <1>7, <1>8, <1>9, <1>10 DEF Kinds

-----------------------------------------------------------------------------
\* What every kind rests on: the two ways in which messages are one at a time.
Base == /\ PlacesTypeOK
        /\ Sent
        /\ KindOK
        /\ crashes = 0 => OneAtATime({"finished"})
        /\ kind # "scan" => OneAtATime({})

\* Nothing is queued, held or stored in the beginning.
LEMMA BaseInit == Init => Base
  <1> SUFFICES ASSUME Init PROVE Base
    OBVIOUS
  <1> USE DEF Init, InitTask, InitQueue
  <1>1. PlacesTypeOK
    BY RetriesAssumption DEF PlacesTypeOK, TaskTypeOK, QueueTypeOK, Submissions, Places
  <1>2. \A m \in Messages : ~(queue[m] > 0) /\ queue[m] <= 1
    OBVIOUS
  <1>3. \A w \in Workers : held[w] = NoMessage /\ at[w] = "idle"
    OBVIOUS
  <1>4. KindOK
    BY <1>3 DEF KindOK, CrawlPlaces, ValidationPlaces
  <1>5. Sent
    BY <1>2, <1>3 DEF Sent
  <1>6. \A resting : OneAtATime(resting)
    BY <1>2, <1>3 DEF OneAtATime, Busy
  <1> QED BY <1>1, <1>4, <1>5, <1>6 DEF Base

\* The count of processes that died never goes down.
LEMMA CrashesGrow == PlacesTypeOK /\ TaskMove => crashes' \in Nat /\ crashes' >= crashes
  <1> SUFFICES ASSUME PlacesTypeOK, TaskMove PROVE crashes' \in Nat /\ crashes' >= crashes
    OBVIOUS
  <1>1. crashes \in Nat
    BY RetriesAssumption DEF PlacesTypeOK, TaskTypeOK, QueueTypeOK
  <1>2. crashes' = crashes \/ crashes' = crashes + 1
    BY DEF TaskMove, taskVars, queueVars, CommitSubmission, OnCommit, Delay, OnCommitLost,
           PublisherLost, DispatchedBoth, Take, Deliver, Steps, Continue, Raise, PublishRetry,
           Retry, Finish, Acknowledge, WorkerDies, WorkerLost
  <1> QED BY <1>1, <1>2

\* The base invariant is inductive.
LEMMA BaseStep == Base /\ [Next]_vars => Base'
  <1> SUFFICES ASSUME Base, [Next]_vars PROVE Base'
    OBVIOUS
  <1> USE DEF Base
  <1>1. TaskMove
    BY StepsAreTaskMoves
  <1>2. PlacesTypeOK' /\ Sent' /\ KindOK'
    BY <1>1, MovesKeepTypes, MovesKeepSent, KindStep
  <1>3. kind' = kind
    BY RowsMoveByKind DEF RowMoves
  <1>4. crashes' = 0 => OneAtATime({"finished"})'
    <2>1. crashes' = 0 => crashes = 0
      BY <1>1, CrashesGrow, RetriesAssumption DEF PlacesTypeOK, TaskTypeOK, QueueTypeOK
    <2> QED BY <1>1, <2>1, MovesKeepOneAtATime
  <1>5. kind' # "scan" => OneAtATime({})'
    <2>1. kind # "scan" => \A w \in Workers : at[w] # "retrying"
      BY DEF KindOK
    <2> QED BY <1>1, <1>3, <2>1, MovesKeepOneAtATime
  <1> QED BY <1>2, <1>4, <1>5

-----------------------------------------------------------------------------
\* Validations.

ValidationInv == ValidationTypeOK /\ ResultsMatchJob

\* No items and no counts in the beginning.
LEMMA ValidationInit == Init => ValidationInv
  BY ItemsAssumption DEF Init, InitValidation, ValidationInv, ValidationTypeOK, ValidationRow,
                         ResultsMatchJob

\* The invariant of validations is inductive: items and counts change in one transaction.
LEMMA ValidationKept == Base /\ ValidationInv /\ [Next]_vars => ValidationInv'
  <1> SUFFICES ASSUME Base, ValidationInv, [Next]_vars PROVE ValidationInv'
    OBVIOUS
  <1> USE ItemsAssumption
  <1> USE DEF ValidationInv, ValidationTypeOK, ValidationRow, ResultsMatchJob
  <1>1. RowMoves /\ PlacesTypeOK
    BY RowsMoveByKind DEF Base
  <1>2. CASE kind # "validation"
    BY <1>1, <1>2 DEF RowMoves
  <1>3. ASSUME NEW j \in Jobs, SubmitValidation(j) PROVE ValidationInv'
    BY <1>3 DEF SubmitValidation
  <1>4. ASSUME NEW w \in Workers, NEW m \in Messages, StartValidation(w, m)
        PROVE  ValidationInv'
    BY <1>4, MessagesMake DEF StartValidation
  <1>5. ASSUME NEW w \in Workers, NEW n \in 0..MaxItems, ReplaceItems(w, n)
        PROVE  ValidationInv'
    BY <1>5 DEF ReplaceItems
  <1>6. ASSUME NEW w \in Workers, CommitItems(w) PROVE ValidationInv'
    <2>1. JobOf(w) \in Jobs
      BY <1>1, <1>6, HeldIsMessage DEF CommitItems, Working
    <2> QED BY <1>6, <2>1 DEF CommitItems
  <1>7. ASSUME NEW w \in Workers, ValidationFails(w) \/ ValidationRaises(w) PROVE ValidationInv'
    BY <1>7 DEF ValidationFails, ValidationRaises
  <1>8. ASSUME NEW w \in Workers, instance' = [instance EXCEPT ![w] = 0],
               UNCHANGED <<validation, items>>
        PROVE  ValidationInv'
    BY <1>8
  <1>9. CASE UNCHANGED validationVars
    BY <1>9 DEF validationVars
  <1> QED BY <1>1, <1>2, <1>3, <1>4, <1>5, <1>6, <1>7, <1>8, <1>9
          DEF RowMoves, ValidationMove, ValidationStep

\* The counts on a validation are those of the items kept for it, however often
\* it was delivered, and wherever deliveries before it failed or died
\* (validation_service.py: the delete, the inserts and the counts are one
\* transaction, and a failure writes the outcome only).
THEOREM ResultsCorrect == Spec => []ResultsMatchJob
  <1>1. Init => Base /\ ValidationInv
    BY BaseInit, ValidationInit
  <1>2. Base /\ ValidationInv /\ [Next]_vars => (Base /\ ValidationInv)'
    BY BaseStep, ValidationKept
  <1>3. Base /\ ValidationInv => ResultsMatchJob
    BY DEF ValidationInv
  <1> QED BY <1>1, <1>2, <1>3, PTL DEF Spec

-----------------------------------------------------------------------------
\* Speed tests.

\* No report before the request that creates both.
SpeedInv == /\ SpeedTypeOK
            /\ \A h \in Halves : submit[h[1]] = "start" => half[h] = "none"

\* No speed test in the beginning.
LEMMA SpeedInit == Init => SpeedInv
  BY DEF Init, InitTask, InitSpeed, SpeedInv, SpeedTypeOK, Halves

\* A job that was submitted is not submitted again.
LEMMA SubmitsStay ==
    ASSUME PlacesTypeOK, TaskMove, NEW j \in Jobs, submit[j] # "start"
    PROVE  submit'[j] # "start"
  BY DEF PlacesTypeOK, TaskTypeOK, TaskMove, taskVars, CommitSubmission, OnCommit, OnCommitLost,
         DispatchedBoth, Take, Steps, Continue, Raise, PublishRetry, Finish, WorkerDies

\* The invariant of speed tests is inductive.
LEMMA SpeedKept == Base /\ SpeedInv /\ [Next]_vars => SpeedInv'
  <1> SUFFICES ASSUME Base, SpeedInv, [Next]_vars PROVE SpeedInv'
    OBVIOUS
  <1> USE DEF SpeedInv, SpeedTypeOK
  <1>1. SpeedMove /\ PlacesTypeOK /\ TaskMove
    BY RowsMoveByKind, StepsAreTaskMoves DEF Base, RowMoves
  <1>2. \A h \in Halves : h[1] \in Jobs
    BY DEF Halves
  <1>3. \A j \in Jobs : submit'[j] = "start" => submit[j] = "start"
    BY <1>1, SubmitsStay
  <1>4. CASE UNCHANGED speedVars
    BY <1>2, <1>3, <1>4 DEF speedVars
  <1>5. ASSUME NEW j \in Jobs, SubmitSpeedTest(j) PROVE SpeedInv'
    <2>1. submit'[j] = "committed"
      BY <1>1, <1>5 DEF SubmitSpeedTest, CommitSubmission, PlacesTypeOK, TaskTypeOK
    <2> QED BY <1>2, <1>3, <1>5, <2>1 DEF SubmitSpeedTest
  <1>6. ASSUME NEW j \in Jobs, DispatchGoogle(j) \/ DispatchGtmetrix(j) PROVE SpeedInv'
    <2>1. <<j, "google">> \in Halves /\ <<j, "gtmetrix">> \in Halves
      BY DEF Halves
    <2> QED BY <1>2, <1>3, <1>6, <2>1 DEF DispatchGoogle, DispatchGtmetrix
  <1>7. ASSUME NEW h \in Halves, HalfEnds(h) PROVE SpeedInv'
    <2>1. half[h] # "none" /\ \E s \in {"completed", "failed"} : half' = [half EXCEPT ![h] = s]
      BY <1>7 DEF HalfEnds, Life!Complete, Life!Fail, Life!Move
    <2> QED BY <1>2, <1>3, <1>7, <2>1 DEF HalfEnds
  <1>8. ASSUME NEW r \in SpeedRows, RemoveRow(r) PROVE SpeedInv'
    BY <1>2, <1>3, <1>8 DEF RemoveRow
  <1> QED BY <1>1, <1>4, <1>5, <1>6, <1>7, <1>8 DEF SpeedMove

\* What the overall status says of its two reports.
Tells(j) ==
    LET google == StatusOf(<<j, "google">>) gtmetrix == StatusOf(<<j, "gtmetrix">>) IN
    /\ combined_status(j) = "pending" <=> google = "pending" /\ gtmetrix = "pending"
    /\ combined_status(j) = "completed" <=> google = "completed" /\ gtmetrix = "completed"

AllTell == \A j \in Jobs : Tells(j)

\* It implies that the overall status tells what the two halves say.
LEMMA CombinedMeans == SpeedInv => AllTell
  <1> SUFFICES ASSUME SpeedInv, NEW j \in Jobs PROVE Tells(j)
    BY DEF AllTell
  <1> DEFINE google == StatusOf(<<j, "google">>)
             gtmetrix == StatusOf(<<j, "gtmetrix">>)
             both == {google, gtmetrix}
  <1>1. google \in {"pending", "completed", "failed"}
        /\ gtmetrix \in {"pending", "completed", "failed"}
    BY DEF SpeedInv, SpeedTypeOK, StatusOf, Halves
  <1>2. combined_status(j) = IF both \in {{"completed"}, {"failed"}, {"pending"}}
                             THEN CHOOSE s \in both : TRUE
                             ELSE "partial"
    BY DEF combined_status
  <1> HIDE DEF google, gtmetrix
  <1>3. CASE google = gtmetrix
    <2>1. both = {google} /\ both \in {{"completed"}, {"failed"}, {"pending"}}
      BY <1>1, <1>3
    <2>2. combined_status(j) = google
      BY <1>2, <2>1
    <2> QED BY <1>3, <2>2 DEF google, gtmetrix, Tells
  <1>4. CASE google # gtmetrix
    <2>1. both \notin {{"completed"}, {"failed"}, {"pending"}}
      BY <1>4
    <2>2. combined_status(j) = "partial"
      BY <1>2, <2>1
    <2> QED BY <1>4, <2>2 DEF google, gtmetrix, Tells
  <1> QED BY <1>3, <1>4

CombinedStep ==
    \A j \in Jobs :
          /\ combined_status(j) # "pending" => combined_status(j)' # "pending"
          /\ crashes = 0 /\ combined_status(j) = "completed" =>
                combined_status(j)' = "completed"

\* A half that ended stays ended, and a completed one completed unless a process died.
LEMMA HalvesMove ==
    ASSUME Base, SpeedInv, [Next]_vars, NEW h \in Halves
    PROVE  /\ StatusOf(h) # "pending" => StatusOf(h)' # "pending"
           /\ crashes = 0 /\ StatusOf(h) = "completed" => StatusOf(h)' = "completed"
  <1> USE DEF SpeedInv, SpeedTypeOK, StatusOf
  <1>1. SpeedMove
    BY RowsMoveByKind DEF Base, RowMoves
  <1>2. UNCHANGED half \/ (\E j \in Jobs : SubmitSpeedTest(j)) \/ \E g \in Halves : HalfEnds(g)
    BY <1>1 DEF SpeedMove, speedVars, DispatchGoogle, DispatchGtmetrix, RemoveRow
  <1>3. ASSUME NEW j \in Jobs, SubmitSpeedTest(j), StatusOf(h) # "pending"
        PROVE  half'[h] = half[h]
    BY <1>3 DEF SubmitSpeedTest, CommitSubmission
  <1>4. ASSUME NEW g \in Halves, HalfEnds(g)
        PROVE  /\ StatusOf(h) # "pending" => StatusOf(h)' # "pending"
               /\ crashes = 0 /\ StatusOf(h) = "completed" => StatusOf(h)' = "completed"
    BY <1>4 DEF HalfEnds, Life!Complete, Life!Fail, Life!Move
  <1> QED BY <1>2, <1>3, <1>4

\* Once one analysis of a speed test has ended, its overall status never says
\* pending again, and while no process died completed is the last word
\* (speed_test/models, combined_status over the reports of two services).
THEOREM CombinedCorrect == Spec => CombinedTracks
  <1>1. Init => Base /\ SpeedInv
    BY BaseInit, SpeedInit
  <1>2. Base /\ SpeedInv /\ [Next]_vars => (Base /\ SpeedInv)'
    BY BaseStep, SpeedKept
  <1>3. Base /\ SpeedInv /\ [Next]_vars => AllTell /\ AllTell'
    BY SpeedKept, CombinedMeans, PTL
  <1>4. Base /\ SpeedInv /\ [Next]_vars => [CombinedStep]_vars
    <2> SUFFICES ASSUME Base, SpeedInv, [Next]_vars PROVE CombinedStep
      OBVIOUS
    <2> SUFFICES ASSUME NEW j \in Jobs
                 PROVE  /\ combined_status(j) # "pending" => combined_status(j)' # "pending"
                        /\ crashes = 0 /\ combined_status(j) = "completed" =>
                              combined_status(j)' = "completed"
      BY DEF CombinedStep
    <2>2. <<j, "google">> \in Halves /\ <<j, "gtmetrix">> \in Halves
      BY DEF Halves
    <2>3. Tells(j) /\ Tells(j)'
      BY <1>3 DEF AllTell
    <2>5. combined_status(j) # "pending" => combined_status(j)' # "pending"
      BY <2>2, <2>3, HalvesMove DEF Tells
    <2>6. crashes = 0 /\ combined_status(j) = "completed" => combined_status(j)' = "completed"
      BY <2>2, <2>3, HalvesMove DEF Tells
    <2> QED BY <2>5, <2>6
  <1> QED BY <1>1, <1>2, <1>4, PTL DEF Spec, CombinedTracks, CombinedStep

-----------------------------------------------------------------------------
\* SSL scans.

\* Nothing will be attempted for job j.
Quiet(j) == /\ \A m \in Messages : queue[m] > 0 => m[1] # j
            /\ \A w \in Workers : Busy(w, {"finished"}) => JobOf(w) # j

\* While nobody dies, the attempt that completes a scan is its last one.
ScanInv == /\ ScanTypeOK
           /\ kind = "scan" => \A j \in Jobs :
                 /\ submit[j] = "start" <=> scan[j].status = "none"
                 /\ submit[j] = "committed" => scan[j].status = "pending"
                 /\ crashes = 0 /\ scan[j].status = "completed" => Quiet(j)

\* No scan in the beginning.
LEMMA ScanInit == Init => ScanInv
  BY DEF Init, InitTask, InitScan, ScanInv, ScanTypeOK, ScanRow

\* A job that is quiet stays quiet unless its request queues it.
LEMMA QuietStays ==
    ASSUME PlacesTypeOK, TaskMove, crashes' = 0, crashes = 0, NEW j \in Jobs, Quiet(j)
    PROVE  Quiet(j)' \/ OnCommit(j)
  <1> SUFFICES ASSUME ~OnCommit(j) PROVE Quiet(j)'
    OBVIOUS
  <1> USE DEF PlacesTypeOK, TaskTypeOK, QueueTypeOK, Quiet, Busy, JobOf
  <1>1. CASE UNCHANGED taskVars
    BY <1>1 DEF taskVars, queueVars
  <1>2. ASSUME NEW i \in Jobs, CommitSubmission(i) \/ OnCommitLost(i) \/ DispatchedBoth(i)
        PROVE  Quiet(j)'
    BY <1>2 DEF CommitSubmission, OnCommitLost, DispatchedBoth, PublisherLost, queueVars
  <1>3. ASSUME NEW i \in Jobs, OnCommit(i) PROVE Quiet(j)'
    <2>1. i # j /\ <<i, 0>>[1] = i /\ <<i, 0>> \in Messages
      BY <1>3, MessagesMake
    <2>2. \A m \in Messages : m # <<i, 0>> => queue'[m] = queue[m]
      BY <1>3 DEF OnCommit, Delay
    <2> QED BY <1>3, <2>1, <2>2 DEF OnCommit, Delay
  <1>4. ASSUME NEW w \in Workers, NEW m \in Messages, NEW place, Take(w, m, place)
        PROVE  Quiet(j)'
    BY <1>4 DEF Take, Deliver, Goto
  <1>5. ASSUME NEW w \in Workers, NEW place \in Places \ {"idle"}, Runs(w),
               Continue(w, place) \/ Raise(w)
        PROVE  Quiet(j)'
    <2>1. /\ queue' = queue /\ held' = held
          /\ \A v \in Workers : v # w => at'[v] = at[v]
      BY <1>5 DEF Continue, Raise, queueVars, Goto
    <2>2. \A v \in Workers : Busy(v, {"finished"})' => Busy(v, {"finished"})
      BY <1>5, <2>1 DEF Runs
    <2> QED BY <2>1, <2>2
  <1>6. ASSUME NEW w \in Workers, Working(w, "retrying"), PublishRetry(w) PROVE Quiet(j)'
    <2>1. JobOf(w) # j
      BY <1>6 DEF Working
    <2> DEFINE m == <<JobOf(w), RetriesOf(w) + 1>>
    <2>2. m \in Messages /\ m[1] # j
      BY <1>6, <2>1, HeldIsMessage, MessagesMake DEF Working, PublishRetry, Retry, RetriesOf
    <2>3. \A n \in Messages : n # m => queue'[n] = queue[n]
      BY <1>6 DEF PublishRetry, Retry
    <2>4. /\ held' = held /\ at'[w] = "finished"
          /\ \A v \in Workers : v # w => at'[v] = at[v]
      BY <1>6 DEF PublishRetry, Retry, Goto
    <2> HIDE DEF m
    <2> QED BY <2>2, <2>3, <2>4
  <1>7. ASSUME NEW w \in Workers, Finish(w) PROVE Quiet(j)'
    BY <1>7 DEF Finish, Acknowledge, Goto
  <1>8. ASSUME NEW w \in Workers, WorkerDies(w) PROVE FALSE
    BY <1>8 DEF WorkerDies, WorkerLost
  <1>9. CASE PublisherLost /\ UNCHANGED <<submit, at, broken>>
    BY <1>9 DEF PublisherLost
  <1> QED BY <1>1, <1>2, <1>3, <1>4, <1>5, <1>6, <1>7, <1>8, <1>9, PlacesApart
          DEF TaskMove, Steps

\* What a step makes of the row of one scan.
LEMMA OneScanMoves ==
    ASSUME Base, ScanInv, [Next]_vars, kind = "scan"
    PROVE  \/ [j \in Jobs |-> scan'[j].status] = [j \in Jobs |-> scan[j].status]
              /\ (submit' = submit \/ \E j \in Jobs : OnCommit(j) \/ OnCommitLost(j))
           \/ \E j \in Jobs : SubmitSslCheck(j)
           \/ \E w \in Workers, s \in {"failed", "completed"} :
                 /\ Working(w, "scanning")
                 /\ [j \in Jobs |-> scan'[j].status] =
                       [[j \in Jobs |-> scan[j].status] EXCEPT ![JobOf(w)] = s]
                 /\ s = "completed" => at' = [at EXCEPT ![w] = "finished"]
                 /\ UNCHANGED <<queueVars, submit>>
  <1> DEFINE same == [j \in Jobs |-> scan'[j].status] = [j \in Jobs |-> scan[j].status]
             quiet == submit' = submit \/ \E j \in Jobs : OnCommit(j) \/ OnCommitLost(j)
  <1> USE DEF ScanInv, ScanTypeOK, ScanRow
  <1>1. ScanMove /\ PlacesTypeOK
    BY RowsMoveByKind DEF Base, RowMoves
  <1>2. CommonMove /\ UNCHANGED scan => same /\ quiet
    BY DEF CommonMove, taskVars, Finish
  <1>3. ASSUME NEW j \in Jobs, DeleteScan(j) PROVE same /\ submit' = submit
    BY <1>3 DEF DeleteScan, taskVars
  <1>4. ASSUME NEW w \in Workers, NEW m \in Messages, StartScan(w, m)
        PROVE  same /\ submit' = submit
    BY <1>4 DEF StartScan, Take
  <1>5. ASSUME NEW w \in Workers, NEW place, MarkScanFailed(w, place)
        PROVE  /\ Working(w, "scanning")
               /\ [j \in Jobs |-> scan'[j].status] =
                       [[j \in Jobs |-> scan[j].status] EXCEPT ![JobOf(w)] = "failed"]
               /\ UNCHANGED <<queueVars, submit>>
    BY <1>5 DEF MarkScanFailed, Continue
  <1>6. ASSUME NEW w \in Workers, SaveScan(w)
        PROVE  /\ Working(w, "scanning")
               /\ [j \in Jobs |-> scan'[j].status] =
                       [[j \in Jobs |-> scan[j].status] EXCEPT ![JobOf(w)] = "completed"]
               /\ at' = [at EXCEPT ![w] = "finished"]
               /\ UNCHANGED <<queueVars, submit>>
    BY <1>6 DEF SaveScan, Continue, Goto
  <1>7. ASSUME NEW w \in Workers, RetryScan(w) \/ GiveUpScan(w) \/ ScanRaises(w)
        PROVE  same /\ submit' = submit
    BY <1>7 DEF RetryScan, GiveUpScan, ScanRaises, PublishRetry, Continue, Raise
  <1>8. ASSUME NEW w \in Workers, WorkerDies(w), UNCHANGED scan PROVE same /\ submit' = submit
    BY <1>8 DEF WorkerDies
  <1> DEFINE written(w, s) ==
               /\ Working(w, "scanning")
               /\ [j \in Jobs |-> scan'[j].status] =
                       [[j \in Jobs |-> scan[j].status] EXCEPT ![JobOf(w)] = s]
               /\ s = "completed" => at' = [at EXCEPT ![w] = "finished"]
               /\ UNCHANGED <<queueVars, submit>>
  <1>9. ASSUME NEW w \in Workers, ScanStep(w)
        PROVE  (same /\ submit' = submit) \/ \E s \in {"failed", "completed"} : written(w, s)
    <2>1. ASSUME NEW place, MarkScanFailed(w, place) PROVE written(w, "failed")
      BY <2>1, <1>5
    <2>2. SaveScan(w) => written(w, "completed")
      BY <1>6
    <2> HIDE DEF same, written
    <2> QED BY <1>7, <1>9, <2>1, <2>2 DEF ScanStep
  <1>10. (same /\ quiet) \/ (\E j \in Jobs : SubmitSslCheck(j))
         \/ \E w \in Workers, s \in {"failed", "completed"} : written(w, s)
    <2> HIDE DEF same, written
    <2> QED BY <1>1, <1>2, <1>3, <1>4, <1>8, <1>9 DEF ScanMove
  <1> QED BY <1>10

\* Rows of scans keep their form.
LEMMA ScanTypes == Base /\ ScanTypeOK /\ [Next]_vars => ScanTypeOK'
  <1> SUFFICES ASSUME Base, ScanTypeOK, [Next]_vars PROVE ScanTypeOK'
    OBVIOUS
  <1> USE DEF ScanTypeOK, ScanRow
  <1>1. kind = "scan" => ScanMove
    BY RowsMoveByKind DEF Base, RowMoves
  <1>2. CASE kind # "scan"
    BY <1>2, RowsMoveByKind DEF Base, RowMoves
  <1>3. ASSUME NEW w \in Workers, ScanStep(w) PROVE ScanTypeOK'
    <2>1. ASSUME NEW place, MarkScanFailed(w, place) PROVE ScanTypeOK'
      <3>1. scan' = [scan EXCEPT ![JobOf(w)].status = "failed"]
        BY <2>1 DEF MarkScanFailed
      <3> QED BY <3>1
    <2>2. ASSUME SaveScan(w) PROVE ScanTypeOK'
      <3> DEFINE row == [status |-> "completed", is_deleted |-> FALSE]
      <3>1. row \in ScanRow /\ scan' = [scan EXCEPT ![JobOf(w)] = row]
        BY <2>2 DEF SaveScan
      <3> HIDE DEF row
      <3> QED BY <3>1
    <2> QED BY <1>3, <2>1, <2>2 DEF ScanStep, RetryScan, GiveUpScan, ScanRaises
  <1>4. ASSUME NEW j \in Jobs, SubmitSslCheck(j) \/ DeleteScan(j) PROVE ScanTypeOK'
    BY <1>4 DEF SubmitSslCheck, DeleteScan
  <1> QED BY <1>1, <1>2, <1>3, <1>4 DEF ScanMove, StartScan

\* The invariant of scans is inductive.
LEMMA ScanKept == Base /\ ScanInv /\ [Next]_vars => ScanInv'
  <1> SUFFICES ASSUME Base, ScanInv, [Next]_vars PROVE ScanInv'
    OBVIOUS
  <1> Base' /\ TaskMove /\ ScanTypeOK'
    BY BaseStep, StepsAreTaskMoves, ScanTypes DEF ScanInv
  <1>1. kind' = kind
    BY RowsMoveByKind DEF Base, RowMoves
  <1>2. crashes' = 0 => crashes = 0
    BY CrashesGrow, RetriesAssumption DEF Base, PlacesTypeOK, TaskTypeOK, QueueTypeOK
  <1> SUFFICES ASSUME kind = "scan", NEW j \in Jobs
               PROVE  /\ submit'[j] = "start" <=> scan'[j].status = "none"
                      /\ submit'[j] = "committed" => scan'[j].status = "pending"
                      /\ crashes' = 0 /\ scan'[j].status = "completed" => Quiet(j)'
    BY <1>1 DEF ScanInv
  <1> DEFINE before == [i \in Jobs |-> scan[i].status]
             after == [i \in Jobs |-> scan'[i].status]
  <1>3. /\ before[j] = scan[j].status /\ after[j] = scan'[j].status
        /\ submit[j] = "start" <=> scan[j].status = "none"
        /\ submit[j] = "committed" => scan[j].status = "pending"
        /\ crashes = 0 /\ scan[j].status = "completed" => Quiet(j)
        /\ submit \in [Jobs -> Submissions]
    BY DEF ScanInv, Base, PlacesTypeOK, TaskTypeOK
  <1>4. CASE after = before /\ (submit' = submit \/ \E i \in Jobs : OnCommit(i) \/ OnCommitLost(i))
    <2>1. scan'[j].status = scan[j].status
      BY <1>3, <1>4
    <2>2. /\ submit'[j] = "start" <=> submit[j] = "start"
          /\ submit'[j] = "committed" => submit[j] = "committed"
      BY <1>3, <1>4 DEF OnCommit, OnCommitLost
    <2>3. ASSUME crashes' = 0, scan'[j].status = "completed" PROVE Quiet(j)'
      <3>1. Quiet(j)' \/ OnCommit(j)
        BY <1>2, <1>3, <2>1, <2>3, QuietStays DEF Base
      <3>2. ~OnCommit(j)
        BY <1>3, <2>1, <2>3 DEF OnCommit
      <3> QED BY <3>1, <3>2
    <2> QED BY <1>3, <2>1, <2>2, <2>3
  <1>5. ASSUME NEW i \in Jobs, SubmitSslCheck(i)
        PROVE  /\ submit'[j] = "start" <=> scan'[j].status = "none"
               /\ submit'[j] = "committed" => scan'[j].status = "pending"
               /\ crashes' = 0 /\ scan'[j].status = "completed" => Quiet(j)'
    <2>1. /\ submit' = [submit EXCEPT ![i] = "committed"] /\ submit[i] = "start"
          /\ scan' = [scan EXCEPT ![i].status = "pending"]
          /\ UNCHANGED <<queue, held, at, crashes>>
      BY <1>5 DEF SubmitSslCheck, CommitSubmission, queueVars
    <2>2. Quiet(j) => Quiet(j)'
      BY <2>1 DEF Quiet, Busy, JobOf
    <2>3. /\ i = j => submit'[j] = "committed" /\ scan'[j].status = "pending"
          /\ i # j => submit'[j] = submit[j] /\ scan'[j] = scan[j]
      BY <1>3, <2>1 DEF ScanInv, ScanTypeOK, ScanRow
    <2> QED BY <1>2, <1>3, <2>2, <2>3
  <1>6. ASSUME NEW w \in Workers, NEW s \in {"failed", "completed"},
               Working(w, "scanning"), after = [before EXCEPT ![JobOf(w)] = s],
               s = "completed" => at' = [at EXCEPT ![w] = "finished"],
               UNCHANGED <<queueVars, submit>>
        PROVE  /\ submit'[j] = "start" <=> scan'[j].status = "none"
               /\ submit'[j] = "committed" => scan'[j].status = "pending"
               /\ crashes' = 0 /\ scan'[j].status = "completed" => Quiet(j)'
    <2>1. CASE JobOf(w) # j
      <3>1. scan'[j].status = scan[j].status
        BY <1>3, <1>6, <2>1
      <3>2. ASSUME crashes' = 0, scan'[j].status = "completed" PROVE Quiet(j)'
        <4>1. Quiet(j)' \/ OnCommit(j)
          BY <1>2, <1>3, <3>1, <3>2, QuietStays DEF Base
        <4>2. ~OnCommit(j)
          BY <1>3, <3>1, <3>2 DEF OnCommit
        <4> QED BY <4>1, <4>2
      <3> QED BY <1>3, <1>6, <3>1, <3>2
    <2>2. CASE JobOf(w) = j
      <3>1. scan'[j].status = s
        BY <1>3, <1>6, <2>2
      <3>2. submit[j] = "queued"
        BY <1>6, <2>2 DEF Base, Sent, Working
      <3>3. ASSUME crashes' = 0, s = "completed" PROVE Quiet(j)'
        <4>1. OneAtATime({"finished"})
          BY <1>2, <3>3 DEF Base
        <4>2. Busy(w, {"finished"})
          BY <1>6 DEF Working, Busy
        <4>3. /\ \A m \in Messages : queue[m] > 0 => m[1] # j
              /\ \A v \in Workers : v # w /\ Busy(v, {"finished"}) => JobOf(v) # j
          BY <2>2, <4>1, <4>2 DEF OneAtATime
        <4>4. at'[w] = "finished" /\ \A v \in Workers : v # w => at'[v] = at[v]
          BY <1>6, <3>3 DEF Base, PlacesTypeOK
        <4> QED BY <1>6, <4>3, <4>4 DEF Quiet, Busy, JobOf, queueVars
      <3> QED BY <1>6, <3>1, <3>2, <3>3
    <2> QED BY <2>1, <2>2
  <1> QED BY <1>4, <1>5, <1>6, OneScanMoves

\* A step of the site is a step of the life of one report, or none.
LEMMA ScanStepsLive == Base /\ ScanInv /\ [Next]_vars => [ScanLife!LifeNext]_(ScanLife!lifeVars)
  <1> SUFFICES ASSUME Base, ScanInv, [Next]_vars
               PROVE  [ScanLife!LifeNext]_(ScanLife!lifeVars)
    OBVIOUS
  <1> DEFINE before == [i \in Jobs |-> scan[i].status]
             after == [i \in Jobs |-> scan'[i].status]
  <1> USE DEF ScanLife!LifeNext, ScanLife!lifeVars, ScanLife!Move, ScanLife!Submit,
              ScanLife!Complete, ScanLife!Fail, ScanLife!ProcessLost
  <1>1. crashes \in Nat /\ (crashes' = crashes \/ crashes' = crashes + 1)
    <2>1. TaskMove
      BY StepsAreTaskMoves
    <2>2. crashes \in Nat
      BY RetriesAssumption DEF Base, PlacesTypeOK, TaskTypeOK, QueueTypeOK
    <2>3. crashes' = crashes \/ crashes' = crashes + 1
      BY <2>1 DEF TaskMove, taskVars, queueVars, CommitSubmission, OnCommit, Delay, OnCommitLost,
         PublisherLost, DispatchedBoth, Take, Deliver, Steps, Continue, Raise, PublishRetry,
         Retry, Finish, Acknowledge, WorkerDies, WorkerLost
    <2> QED BY <2>2, <2>3
  <1>2. CASE after = before
    BY <1>1, <1>2
  <1>3. CASE kind # "scan"
    BY <1>2, <1>3, RowsMoveByKind DEF Base, RowMoves
  <1>4. ASSUME kind = "scan", NEW j \in Jobs, SubmitSslCheck(j)
        PROVE  ScanLife!Submit(j)
    <2>1. scan[j].status = "none" /\ crashes' = crashes
      BY <1>4 DEF ScanInv, SubmitSslCheck, CommitSubmission, queueVars
    <2>2. after = [before EXCEPT ![j] = "pending"]
      BY <1>4 DEF SubmitSslCheck, ScanInv, ScanTypeOK, ScanRow
    <2> QED BY <2>1, <2>2
  <1>5. ASSUME kind = "scan", NEW w \in Workers, NEW s \in {"failed", "completed"},
               Working(w, "scanning"), after = [before EXCEPT ![JobOf(w)] = s],
               UNCHANGED <<queueVars, submit>>
        PROVE  [ScanLife!LifeNext]_(ScanLife!lifeVars)
    <2> DEFINE j == JobOf(w)
    <2>1. j \in Jobs
      BY <1>5, HeldIsMessage DEF Working, Base
    <2>2. submit[j] = "queued"
      BY <1>5 DEF Base, Sent, Working
    <2>3. before[j] \in {"pending", "completed", "failed"}
      BY <1>5, <2>1, <2>2 DEF ScanInv, ScanTypeOK, ScanRow
    <2>4. crashes = 0 => before[j] # "completed"
      BY <1>5, <2>1 DEF ScanInv, Quiet, Busy, Working
    <2>5. crashes' = crashes /\ after = [before EXCEPT ![j] = s]
      BY <1>5 DEF queueVars
    <2> HIDE DEF j, before, after
    <2>6. before[j] = s => after = before
      BY <2>1, <2>5 DEF before
    <2>7. CASE before[j] = s
      BY <2>6, <2>7, <1>2
    <2>8. CASE before[j] # s /\ s = "completed"
      <3>1. ScanLife!Complete(j)
        BY <2>3, <2>5, <2>8 DEF before, after
      <3> QED BY <2>1, <3>1
    <2>9. CASE before[j] # s /\ s = "failed"
      <3>1. before[j] \in {"pending"} \cup (IF crashes > 0 THEN {"completed"} ELSE {})
        BY <1>1, <2>3, <2>4, <2>9
      <3>2. ScanLife!Fail(j)
        BY <2>5, <2>9, <3>1 DEF before, after
      <3> QED BY <2>1, <3>2
    <2> QED BY <2>7, <2>8, <2>9
  <1> QED BY <1>2, <1>3, <1>4, <1>5, OneScanMoves

\* However the attempts at an SSL scan, their retries and the requests around
\* them interleave, its row moves as the abstract life of a report allows
\* (ssl_service.py: failed is committed and re-raised, the retry may complete).
THEOREM ScansImplement == Spec => ScansImplementLife
  <1>1. Init => ScanLife!InitLife
    BY DEF Init, InitTask, InitQueue, InitScan, ScanLife!InitLife
  <1>2. Init => Base /\ ScanInv
    BY BaseInit, ScanInit
  <1>3. Base /\ ScanInv /\ [Next]_vars => (Base /\ ScanInv)'
    BY BaseStep, ScanKept
  <1> QED BY <1>1, <1>2, <1>3, ScanStepsLive, PTL
          DEF Spec, ScansImplementLife, ScanLife!LifeSpec

-----------------------------------------------------------------------------
\* Full reports.

\* The least of some natural numbers is one of them.
LEMMA MinIsElement ==
    ASSUME NEW S, S \subseteq Nat, S # {}
    PROVE  Min(S) \in S
  <1>1. IsWellFoundedOn(OpToRel(<, Nat), Nat)
    BY NatLessThanWellFounded
  <1>2. PICK x \in S : \A y \in S : ~(<<y, x>> \in OpToRel(<, Nat))
    BY <1>1, WFMin
  <1>3. \A y \in S : x <= y
    <2> TAKE y \in S
    <2>1. ~(y < x)
      BY <1>2 DEF OpToRel
    <2>2. x \in Nat /\ y \in Nat
      OBVIOUS
    <2> QED BY <2>1, <2>2
  <1> QED BY <1>3 DEF Min

\* A delivery of job j has not stored its file yet, or one is still to come.
Fresh(j) ==
    \/ submit[j] \in {"start", "committed"}
    \/ \E m \in Messages : queue[m] > 0 /\ m[1] = j
    \/ \E w \in Workers : /\ Working(w, "loaded") \/ Working(w, "running")
                          /\ JobOf(w) = j

\* One file for each delivery: the storage never runs out of names.
FilesCounted ==
    kind = "full" => \A j \in Jobs :
        /\ Cardinality(store[j]) <= crashes + 1
        /\ Fresh(j) => Cardinality(store[j]) <= crashes

\* There is a name for each delivery that one job can have.
LEMMA FilesAreFinite ==
    /\ IsFiniteSet(Files) /\ Cardinality(Files) = MaxCrashes + 1
    /\ Files \subseteq Nat \ {0}
    /\ \A S \in SUBSET Files : IsFiniteSet(S) /\ Cardinality(S) \in Nat
  <1>1. MaxCrashes + 1 \in Int /\ MaxCrashes + 1 >= 1
    BY RetriesAssumption
  <1>2. IsFiniteSet(Files) /\ Cardinality(Files) = MaxCrashes + 1
    BY <1>1, FS_Interval DEF Files
  <1>3. \A S \in SUBSET Files : IsFiniteSet(S) /\ Cardinality(S) \in Nat
    BY <1>2, FS_Subset, FS_CardinalityType
  <1> QED BY <1>1, <1>2, <1>3 DEF Files

\* As long as not all of them are taken, the storage finds a name.
LEMMA FreeNameExists ==
    ASSUME NEW S \in SUBSET Files, Cardinality(S) <= MaxCrashes
    PROVE  Min(Files \ S) \in Files \ S
  <1>1. Files \ S # {}
    <2> SUFFICES ASSUME Files \ S = {} PROVE FALSE
      OBVIOUS
    <2>1. S = Files
      OBVIOUS
    <2> QED BY <2>1, FilesAreFinite, RetriesAssumption
  <1> QED BY <1>1, MinIsElement, FilesAreFinite

FullInv == FullTypeOK /\ FilesCounted

\* No report and no file in the beginning.
LEMMA FullInit == Init => FullInv
  <1> SUFFICES ASSUME Init PROVE FullInv
    OBVIOUS
  <1>1. FullTypeOK
    BY DEF Init, InitFull, FullTypeOK, FullRow, NoRow, NotListed
  <1>2. \A j \in Jobs : Cardinality(store[j]) = 0
    BY FS_EmptySet DEF Init, InitFull
  <1>3. crashes = 0
    BY DEF Init, InitTask, InitQueue
  <1> QED BY <1>1, <1>2, <1>3 DEF FullInv, FilesCounted

\* Purging keeps the rows, and only takes files away.
LEMMA PurgeTypes ==
    ASSUME FullTypeOK, PurgeStep \/ PurgeDies
    PROVE  FullTypeOK' /\ \A j \in Jobs : store'[j] \subseteq store[j]
  <1> USE DEF FullTypeOK, FullRow, NotListed, NoRow
  <1>1. CASE StartPurge
    BY <1>1 DEF StartPurge
  <1>2. ASSUME NEW j \in Jobs, PurgeFile(j)
        PROVE  FullTypeOK' /\ \A i \in Jobs : store'[i] \subseteq store[i]
    BY <1>2 DEF PurgeFile
  <1>3. ASSUME NEW j \in Jobs, PurgeRow(j)
        PROVE  FullTypeOK' /\ \A i \in Jobs : store'[i] \subseteq store[i]
    <2> DEFINE row == [status |-> "none", file |-> NoFile]
               entry == [place |-> "none", file |-> NoFile]
    <2>1. row \in FullRow /\ full' = [full EXCEPT ![j] = row] /\ purge' = [purge EXCEPT ![j] = entry]
          /\ entry \in [place : {"none", "listed", "unlinked"}, file : Files \cup {NoFile}]
          /\ UNCHANGED <<store, pdf, expired>>
      BY <1>3 DEF PurgeRow
    <2> HIDE DEF row, entry
    <2> QED BY <2>1
  <1>4. CASE PurgeDies
    BY <1>4 DEF PurgeDies
  <1> QED BY <1>1, <1>2, <1>3, <1>4 DEF PurgeStep

\* A delivery that stores its file is the only one at work, and finds a name.
LEMMA StoreFinds ==
    ASSUME Base, FullInv, kind = "full", NEW w \in Workers, StoreFile(w)
    PROVE  LET j == JobOf(w) file == Min(Files \ store[j]) IN
           /\ j \in Jobs /\ file \in Files \ store[j]
           /\ Cardinality(store[j]) <= crashes
           /\ submit[j] = "queued"
           /\ \A m \in Messages : queue[m] > 0 => m[1] # j
           /\ \A v \in Workers : v # w /\ held[v] # NoMessage => JobOf(v) # j
  <1> DEFINE j == JobOf(w)
  <1>1. Working(w, "running")
    BY DEF StoreFile
  <1>2. j \in Jobs
    BY <1>1, HeldIsMessage DEF Working, Base
  <1>3. Cardinality(store[j]) <= crashes
    BY <1>1, <1>2 DEF FullInv, FilesCounted, Fresh
  <1>4. j \in Jobs /\ Min(Files \ store[j]) \in Files \ store[j]
    <2>1. store[j] \in SUBSET Files /\ crashes \in Nat /\ crashes <= MaxCrashes
      BY <1>2, RetriesAssumption
         DEF FullInv, FullTypeOK, Base, PlacesTypeOK, TaskTypeOK, QueueTypeOK
    <2>2. Cardinality(store[j]) \in Nat
      BY <2>1, FilesAreFinite
    <2> QED BY <1>2, <1>3, <2>1, <2>2, FreeNameExists, RetriesAssumption
  <1>5. submit[j] = "queued"
    BY <1>1 DEF Base, Sent, Working
  <1>6. OneAtATime({}) /\ Busy(w, {})
    BY <1>1 DEF Base, Working, Busy
  <1>7. /\ \A m \in Messages : queue[m] > 0 => m[1] # j
        /\ \A v \in Workers : v # w /\ held[v] # NoMessage => JobOf(v) # j
    BY <1>6 DEF OneAtATime, Busy
  <1> QED BY <1>3, <1>4, <1>5, <1>7

\* Every step keeps the types of reports, files and the purge.
LEMMA FullTypes == Base /\ FullInv /\ [Next]_vars => FullTypeOK'
  <1> SUFFICES ASSUME Base, FullInv, [Next]_vars PROVE FullTypeOK'
    OBVIOUS
  <1> USE DEF FullInv
  <1>1. RowMoves /\ PlacesTypeOK
    BY RowsMoveByKind DEF Base
  <1>2. CASE UNCHANGED <<full, store, expired, purge>> /\ UNCHANGED pdf
    BY <1>2 DEF FullTypeOK
  <1>3. ASSUME UNCHANGED <<full, store, expired, purge>>, NEW w \in Workers, LetGo(w)
        PROVE  FullTypeOK'
    BY <1>3 DEF FullTypeOK, LetGo
  <1>4. CASE PurgeStep \/ PurgeDies
    BY <1>4, PurgeTypes
  <1>5. ASSUME NEW j \in Jobs, CreateFullReport(j) PROVE FullTypeOK'
    BY <1>5 DEF FullTypeOK, FullRow, CreateFullReport
  <1>6. ASSUME NEW j \in Jobs, Expire(j) PROVE FullTypeOK'
    BY <1>6 DEF FullTypeOK, Expire
  <1>7. ASSUME NEW w \in Workers, NEW m \in Messages, LoadReport(w, m) PROVE FullTypeOK'
    BY <1>7, MessagesMake DEF FullTypeOK, FullRow, LoadReport
  <1>8. ASSUME NEW w \in Workers, MarkProcessing(w) PROVE FullTypeOK'
    <2>1. JobOf(w) \in Jobs
      BY <1>1, <1>8, HeldIsMessage DEF MarkProcessing, Working
    <2>2. CASE Exists(JobOf(w))
      BY <1>8, <2>1, <2>2 DEF FullTypeOK, FullRow, MarkProcessing
    <2>3. CASE ~Exists(JobOf(w))
      BY <1>8, <2>3 DEF FullTypeOK, MarkProcessing, LetGo
    <2> QED BY <2>2, <2>3
  <1>9. ASSUME NEW w \in Workers, StoreFile(w), kind = "full" PROVE FullTypeOK'
    <2> DEFINE file == Min(Files \ store[JobOf(w)])
    <2>1. file \in Files
      BY <1>9, StoreFinds
    <2>2. /\ store' = [store EXCEPT ![JobOf(w)] = @ \cup {file}]
          /\ pdf' = [pdf EXCEPT ![w] = file]
          /\ UNCHANGED <<full, expired, purge>>
      BY <1>9 DEF StoreFile
    <2> HIDE DEF file
    <2> QED BY <2>1, <2>2 DEF FullTypeOK
  <1>10. ASSUME NEW w \in Workers, SaveFull(w) PROVE FullTypeOK'
    <2> DEFINE row == [status |-> "completed", file |-> pdf[w]]
    <2>1. row \in FullRow
      BY DEF FullTypeOK, FullRow
    <2>2. full' = [full EXCEPT ![JobOf(w)] = row] /\ LetGo(w) /\ UNCHANGED <<store, expired, purge>>
      BY <1>10 DEF SaveFull
    <2> HIDE DEF row
    <2> QED BY <2>1, <2>2 DEF FullTypeOK, LetGo
  <1>11. ASSUME NEW w \in Workers, FullFails(w) \/ FullRaises(w) PROVE FullTypeOK'
    BY <1>11 DEF FullTypeOK, FullRow, FullFails, FullRaises, LetGo
  <1> QED BY <1>1, <1>2, <1>3, <1>4, <1>5, <1>6, <1>7, <1>8, <1>9, <1>10, <1>11
          DEF RowMoves, FullMove, FullStep, fullVars

\* A step that stores nothing keeps the count: nobody becomes fresh but by a crash.
LEMMA CountKept ==
    ASSUME Base, FullInv, Base', FullTypeOK', kind = "full", kind' = kind,
           \A j \in Jobs : store'[j] \subseteq store[j],
           \/ crashes' = crashes /\ \A j \in Jobs : Fresh(j)' => Fresh(j)
           \/ crashes' = crashes + 1
    PROVE  FilesCounted'
  <1> SUFFICES ASSUME NEW j \in Jobs
               PROVE  /\ Cardinality(store'[j]) <= crashes' + 1
                      /\ Fresh(j)' => Cardinality(store'[j]) <= crashes'
    BY DEF FilesCounted
  <1>1. store[j] \in SUBSET Files /\ store'[j] \in SUBSET Files
    BY DEF FullInv, FullTypeOK
  <1>2. /\ Cardinality(store'[j]) <= Cardinality(store[j])
        /\ Cardinality(store'[j]) \in Nat /\ Cardinality(store[j]) \in Nat
    BY <1>1, FilesAreFinite, FS_Subset
  <1>3. /\ Cardinality(store[j]) <= crashes + 1
        /\ Fresh(j) => Cardinality(store[j]) <= crashes
        /\ crashes \in Nat /\ crashes' \in Nat
    BY RetriesAssumption
       DEF FullInv, FilesCounted, Base, PlacesTypeOK, TaskTypeOK, QueueTypeOK
  <1> QED BY <1>2, <1>3

\* Storing is what a fresh delivery is counted for.
LEMMA StoreCounts ==
    ASSUME Base, FullInv, kind = "full", kind' = kind, NEW w \in Workers, StoreFile(w),
           NEW i \in Jobs, i = JobOf(w)
    PROVE  FilesCounted'
  <1> DEFINE file == Min(Files \ store[i])
  <1>1. /\ i \in Jobs /\ file \in Files \ store[i]
        /\ Cardinality(store[i]) <= crashes
        /\ submit[i] = "queued"
        /\ \A m \in Messages : queue[m] > 0 => m[1] # i
        /\ \A v \in Workers : v # w /\ held[v] # NoMessage => JobOf(v) # i
    BY StoreFinds
  <1>2. /\ store' = [store EXCEPT ![i] = @ \cup {file}] /\ at' = [at EXCEPT ![w] = "stored"]
        /\ UNCHANGED <<queue, held, crashes, submit>>
    BY DEF StoreFile, Continue, Goto, queueVars
  <1>3. at'[w] = "stored" /\ \A v \in Workers : v # w => at'[v] = at[v]
    BY <1>2 DEF Base, PlacesTypeOK
  <1>4. crashes \in Nat /\ store \in [Jobs -> SUBSET Files]
    BY RetriesAssumption
       DEF FullInv, FullTypeOK, Base, PlacesTypeOK, TaskTypeOK, QueueTypeOK
  <1> HIDE DEF file
  <1>5. Cardinality(store[i] \cup {file}) <= crashes + 1
    <2>1. IsFiniteSet(store[i]) /\ Cardinality(store[i]) \in Nat
      BY <1>1, <1>4, FilesAreFinite
    <2>2. Cardinality(store[i] \cup {file}) =
             IF file \in store[i] THEN Cardinality(store[i]) ELSE Cardinality(store[i]) + 1
      BY <2>1, FS_AddElement
    <2> QED BY <1>1, <1>4, <2>1, <2>2
  <1>6. ~Fresh(i)'
    BY <1>1, <1>2, <1>3 DEF Fresh, Working, JobOf
  <1>7. ASSUME NEW j \in Jobs, j # i
        PROVE  store'[j] = store[j] /\ (Fresh(j)' => Fresh(j))
    BY <1>2, <1>3, <1>4, <1>7 DEF Fresh, Working, JobOf
  <1>8. store'[i] = store[i] \cup {file}
    BY <1>1, <1>2, <1>4
  <1> SUFFICES ASSUME NEW j \in Jobs
               PROVE  /\ Cardinality(store'[j]) <= crashes' + 1
                      /\ Fresh(j)' => Cardinality(store'[j]) <= crashes'
    BY DEF FilesCounted
  <1>9. CASE j = i
    BY <1>2, <1>5, <1>6, <1>8, <1>9
  <1>10. CASE j # i
    BY <1>2, <1>7, <1>10 DEF FilesCounted, FullInv
  <1> QED BY <1>9, <1>10

\* No step of a delivery but the storing one makes anybody fresh.
LEMMA FreshFades ==
    ASSUME Base, [Next]_vars, kind = "full", crashes' = crashes,
           \A w \in Workers : ~StoreFile(w), NEW j \in Jobs, Fresh(j)'
    PROVE  Fresh(j)
  <1> USE DEF Fresh, Working, JobOf
  <1>1. FullMove /\ PlacesTypeOK
    BY RowsMoveByKind DEF Base, RowMoves
  <1>2. queue \in [Messages -> Nat] /\ held \in [Workers -> Messages \cup {NoMessage}]
        /\ at \in [Workers -> Places] /\ submit \in [Jobs -> Submissions] /\ crashes \in Nat
    BY <1>1, RetriesAssumption DEF PlacesTypeOK, TaskTypeOK, QueueTypeOK
  <1>3. CASE UNCHANGED taskVars
    BY <1>3 DEF taskVars, queueVars
  <1>4. ASSUME NEW i \in Jobs, OnCommit(i) PROVE Fresh(j)
    <2>1. CASE i = j
      BY <1>4, <2>1 DEF OnCommit
    <2>2. CASE i # j
      <3>1. <<i, 0>> \in Messages /\ <<i, 0>>[1] = i
        BY MessagesMake
      <3>2. \A m \in Messages : m # <<i, 0>> => queue'[m] = queue[m]
        BY <1>2, <1>4 DEF OnCommit, Delay
      <3>3. submit'[j] = submit[j] /\ held' = held /\ at' = at
        BY <1>2, <1>4, <2>2 DEF OnCommit, Delay
      <3> QED BY <2>2, <3>1, <3>2, <3>3
    <2> QED BY <2>1, <2>2
  <1>5. ASSUME NEW i \in Jobs, OnCommitLost(i) PROVE FALSE
    BY <1>2, <1>5 DEF OnCommitLost, PublisherLost
  <1>6. ASSUME NEW w \in Workers, Finish(w) PROVE Fresh(j)
    BY <1>2, <1>6 DEF Finish, Acknowledge, Goto
  <1>7. CASE PublisherLost
    BY <1>2, <1>7 DEF PublisherLost
  <1>8. ASSUME NEW i \in Jobs, CommitSubmission(i) PROVE Fresh(j)
    BY <1>2, <1>8 DEF CommitSubmission, queueVars, Submissions
  <1>9. ASSUME NEW w \in Workers, NEW m \in Messages, NEW place, Take(w, m, place) PROVE Fresh(j)
    BY <1>2, <1>9 DEF Take, Deliver, Goto
  <1>10. ASSUME NEW w \in Workers, WorkerDies(w) PROVE FALSE
    BY <1>2, <1>10 DEF WorkerDies, WorkerLost
  <1>11. ASSUME NEW w \in Workers, FullStep(w) PROVE Fresh(j)
    <2>1. UNCHANGED <<queue, held, submit>>
      BY <1>11 DEF FullStep, MarkProcessing, StoreFile, SaveFull, FullFails, FullRaises,
         Continue, Raise, queueVars
    <2>2. \/ Working(w, "loaded") /\ Goto(w, "running")
          \/ Goto(w, "finished")
      BY <1>11 DEF FullStep, MarkProcessing, SaveFull, FullFails, FullRaises, Continue, Raise
    <2>3. \A v \in Workers : v # w => at'[v] = at[v]
      BY <1>2, <2>2 DEF Goto
    <2>4. CASE Working(w, "loaded")
      BY <1>2, <2>1, <2>3, <2>4
    <2>5. CASE Goto(w, "finished")
      BY <1>2, <2>1, <2>3, <2>5 DEF Goto
    <2> QED BY <2>2, <2>4, <2>5
  <1>12. PurgeStep => UNCHANGED taskVars
    BY DEF PurgeStep, StartPurge, PurgeFile, PurgeRow
  <1> QED BY <1>1, <1>3, <1>4, <1>5, <1>6, <1>7, <1>8, <1>9, <1>10, <1>11, <1>12
          DEF FullMove, CommonMove, CreateFullReport, Expire, LoadReport, PurgeDies

\* A job stores one file at most for each time it is delivered.
LEMMA FullKept == Base /\ FullInv /\ [Next]_vars => FullInv'
  <1> SUFFICES ASSUME Base, FullInv, [Next]_vars PROVE FullInv'
    OBVIOUS
  <1>1. Base' /\ FullTypeOK' /\ RowMoves /\ TaskMove
    BY BaseStep, FullTypes, RowsMoveByKind, StepsAreTaskMoves DEF Base
  <1>2. kind' = kind
    BY <1>1 DEF RowMoves
  <1>3. CASE kind # "full"
    BY <1>1, <1>2, <1>3 DEF FullInv, FilesCounted
  <1>4. ASSUME kind = "full", NEW w \in Workers, StoreFile(w) PROVE FullInv'
    <2>1. JobOf(w) \in Jobs
      BY <1>4, StoreFinds
    <2> QED BY <1>1, <1>2, <1>4, <2>1, StoreCounts DEF FullInv
  <1>5. CASE kind = "full" /\ \A w \in Workers : ~StoreFile(w)
    <2>1. \A j \in Jobs : store'[j] \subseteq store[j]
      BY <1>1, <1>5, PurgeTypes
         DEF RowMoves, FullMove, CreateFullReport, Expire, LoadReport, FullStep, MarkProcessing,
             SaveFull, FullFails, FullRaises, fullVars, FullInv
    <2>2. crashes' = crashes \/ crashes' = crashes + 1
      BY <1>1 DEF TaskMove, taskVars, queueVars, CommitSubmission, OnCommit, Delay, OnCommitLost,
         PublisherLost, DispatchedBoth, Take, Deliver, Steps, Continue, Raise, PublishRetry,
         Retry, Finish, Acknowledge, WorkerDies, WorkerLost
    <2>3. crashes' = crashes => \A j \in Jobs : Fresh(j)' => Fresh(j)
      BY <1>5, FreshFades
    <2> QED BY <1>1, <1>2, <1>5, <2>1, <2>2, <2>3, CountKept DEF FullInv
  <1> QED BY <1>3, <1>4, <1>5

-----------------------------------------------------------------------------
\* Full reports: the files against the rows.

\* Worker w has stored a file of report j that no row names yet.
Stored(w, j) == Working(w, "stored") /\ JobOf(w) = j

\* Report j and its files, as FilesMatchRows has them; while no process died,
\* what a delivery stored is all there is.
FileOK(j) ==
    /\ full[j].file # NoFile => full[j].file \in store[j]
    /\ full[j].status = "completed" => full[j].file # NoFile
    /\ \A w \in Workers : Stored(w, j) =>
          pdf[w] \in store[j] /\ (crashes = 0 => store[j] = {pdf[w]})
    /\ crashes = 0 /\ j \notin broken /\ full[j].status # "failed" =>
          \A file \in store[j] : \/ file = full[j].file
                                 \/ \E w \in Workers : Stored(w, j) /\ pdf[w] = file

FilesInv ==
    /\ kind = "full" => /\ \A j \in Jobs : purge[j].place # "none" => j \in expired
                        /\ \A j \in Jobs \ expired : FileOK(j)
    /\ kind # "full" => /\ expired = {}
                        /\ \A j \in Jobs : /\ purge[j] = NotListed
                                           /\ full[j] = NoRow
                                           /\ store[j] = {}

\* No row, no file and no purge in the beginning.
LEMMA FilesInit == Init => FilesInv
  BY DEF Init, InitTask, InitQueue, InitFull, FilesInv, FileOK, Stored, Working, NoRow, NotListed

\* A step that leaves row and files of j alone, and the workers that stored one.
LEMMA UntouchedKeepsFiles ==
    ASSUME NEW j \in Jobs, FileOK(j), full'[j] = full[j], store'[j] = store[j],
           crashes' = 0 => crashes = 0, broken \subseteq broken',
           \A w \in Workers : Stored(w, j)' => Stored(w, j) /\ pdf'[w] = pdf[w],
           crashes' = 0 => \A w \in Workers : Stored(w, j) => Stored(w, j)'
    PROVE  FileOK(j)'
  <1>1. \A w \in Workers : Stored(w, j)' =>
          pdf'[w] \in store'[j] /\ (crashes' = 0 => store'[j] = {pdf'[w]})
    BY DEF FileOK
  <1>2. crashes' = 0 /\ j \notin broken' /\ full'[j].status # "failed" =>
          \A file \in store'[j] : \/ file = full'[j].file
                                  \/ \E w \in Workers : Stored(w, j)' /\ pdf'[w] = file
    <2> SUFFICES ASSUME crashes' = 0, j \notin broken', full'[j].status # "failed",
                        NEW file \in store'[j], file # full'[j].file
                 PROVE  \E w \in Workers : Stored(w, j)' /\ pdf'[w] = file
      OBVIOUS
    <2>1. PICK w \in Workers : Stored(w, j) /\ pdf[w] = file
      BY DEF FileOK
    <2> QED BY <2>1
  <1> QED BY <1>1, <1>2 DEF FileOK

\* Before a delivery has stored its file, and while no process died, there is none.
LEMMA FreshHasNoFile ==
    ASSUME Base, FullInv, kind = "full", NEW j \in Jobs, Fresh(j), crashes = 0
    PROVE  store[j] = {}
  <1>1. IsFiniteSet(store[j]) /\ Cardinality(store[j]) \in Nat
    BY FilesAreFinite DEF FullInv, FullTypeOK
  <1>2. Cardinality(store[j]) = 0
    BY <1>1 DEF FullInv, FilesCounted
  <1> QED BY <1>1, <1>2, FS_EmptySet

\* The steps that only move messages, create, expire or purge.
LEMMA OthersKeepFiles ==
    ASSUME Base, FullInv, FilesInv, kind = "full", NEW j \in Jobs, j \notin expired',
           \/ CommonMove /\ UNCHANGED fullVars
           \/ \E i \in Jobs : CreateFullReport(i) \/ Expire(i)
           \/ \E w \in Workers, m \in Messages : LoadReport(w, m)
           \/ \E w \in Workers : WorkerDies(w) /\ LetGo(w)
                                    /\ UNCHANGED <<full, store, expired, purge>>
           \/ PurgeStep \/ PurgeDies
    PROVE  FileOK(j)'
  <1> USE DEF Stored, Working, JobOf
  <1>1. queue \in [Messages -> Nat] /\ held \in [Workers -> Messages \cup {NoMessage}]
        /\ at \in [Workers -> Places] /\ submit \in [Jobs -> Submissions] /\ crashes \in Nat
        /\ pdf \in [Workers -> Files \cup {NoFile}] /\ full \in [Jobs -> FullRow]
        /\ store \in [Jobs -> SUBSET Files]
        /\ purge \in [Jobs -> [place : {"none", "listed", "unlinked"},
                               file : Files \cup {NoFile}]]
    BY RetriesAssumption
       DEF Base, PlacesTypeOK, TaskTypeOK, QueueTypeOK, FullInv, FullTypeOK
  <1>2. ASSUME CommonMove, UNCHANGED fullVars PROVE FileOK(j)'
    <2>1. j \notin expired
      BY <1>2 DEF fullVars
    <2>2. FileOK(j)
      BY <2>1 DEF FilesInv
    <2>3. CASE UNCHANGED taskVars
      BY <1>2, <2>2, <2>3, UntouchedKeepsFiles DEF taskVars, queueVars, fullVars
    <2>4. ASSUME NEW i \in Jobs, OnCommit(i) \/ OnCommitLost(i) PROVE FileOK(j)'
      BY <1>1, <1>2, <2>2, <2>4, UntouchedKeepsFiles
         DEF OnCommit, Delay, OnCommitLost, PublisherLost, fullVars
    <2>5. ASSUME NEW w \in Workers, Finish(w) PROVE FileOK(j)'
      BY <1>1, <1>2, <2>2, <2>5, UntouchedKeepsFiles DEF Finish, Acknowledge, Goto, fullVars
    <2>6. CASE PublisherLost /\ UNCHANGED <<submit, at, broken>>
      BY <1>1, <1>2, <2>2, <2>6, UntouchedKeepsFiles DEF PublisherLost, fullVars
    <2> QED BY <1>2, <2>3, <2>4, <2>5, <2>6 DEF CommonMove
  <1>3. ASSUME NEW i \in Jobs, CreateFullReport(i) PROVE FileOK(j)'
    <2>1. FileOK(j) /\ UNCHANGED <<store, pdf, at, held, crashes, broken>>
      BY <1>3 DEF CreateFullReport, CommitSubmission, queueVars, FilesInv
    <2>2. CASE i # j
      <3>1. full'[j] = full[j]
        BY <1>1, <1>3, <2>2 DEF CreateFullReport
      <3> QED BY <2>1, <3>1, UntouchedKeepsFiles
    <2>3. CASE i = j
      <3>1. full'[j].file = full[j].file /\ full'[j].status = "pending"
        BY <1>1, <1>3, <2>3 DEF CreateFullReport, FullRow
      <3>2. crashes = 0 => store[j] = {}
        BY <1>3, <2>3, FreshHasNoFile DEF Fresh, CreateFullReport, CommitSubmission
      <3> QED BY <2>1, <3>1, <3>2 DEF FileOK
    <2> QED BY <2>2, <2>3
  <1>4. ASSUME NEW i \in Jobs, Expire(i) PROVE FileOK(j)'
    BY <1>4, UntouchedKeepsFiles DEF Expire, taskVars, queueVars, FilesInv
  <1>5. ASSUME NEW w \in Workers, NEW m \in Messages, LoadReport(w, m) PROVE FileOK(j)'
    <2>1. /\ FileOK(j) /\ UNCHANGED <<full, store, crashes, broken>>
          /\ held[w] = NoMessage /\ at'[w] \in {"loaded", "finished"}
          /\ \A v \in Workers : v # w => held'[v] = held[v] /\ at'[v] = at[v] /\ pdf'[v] = pdf[v]
      BY <1>1, <1>5 DEF LoadReport, Take, Deliver, Goto, FilesInv
    <2> QED BY <2>1, UntouchedKeepsFiles
  <1>6. ASSUME NEW w \in Workers, WorkerDies(w), LetGo(w),
               UNCHANGED <<full, store, expired, purge>>
        PROVE  FileOK(j)'
    <2>1. /\ FileOK(j) /\ crashes' # 0 /\ broken' = broken /\ held'[w] = NoMessage
          /\ \A v \in Workers : v # w => held'[v] = held[v] /\ at'[v] = at[v] /\ pdf'[v] = pdf[v]
      BY <1>1, <1>6 DEF WorkerDies, WorkerLost, LetGo, Goto, FilesInv
    <2> QED BY <1>6, <2>1, UntouchedKeepsFiles
  <1>7. CASE PurgeStep \/ PurgeDies
    <2>1. /\ FileOK(j) /\ purge[j].place = "none"
      BY <1>1, <1>7 DEF PurgeStep, StartPurge, PurgeFile, PurgeRow, PurgeDies, FilesInv
    <2>2. full'[j] = full[j] /\ store'[j] = store[j] /\ UNCHANGED <<pdf, at, held, broken>>
          /\ (crashes' = 0 => crashes = 0)
      BY <1>1, <1>7, <2>1 DEF PurgeStep, StartPurge, PurgeFile, PurgeRow, PurgeDies,
         PublisherLost, taskVars, queueVars
    <2> QED BY <2>1, <2>2, UntouchedKeepsFiles
  <1> QED BY <1>2, <1>3, <1>4, <1>5, <1>6, <1>7

\* The steps of a delivery, of j or of another report.
LEMMA DeliveriesKeepFiles ==
    ASSUME Base, FullInv, FilesInv, kind = "full", NEW w \in Workers, FullStep(w),
           NEW j \in Jobs, j \notin expired'
    PROVE  FileOK(j)'
  <1> USE DEF Stored, Working, JobOf
  <1>1. queue \in [Messages -> Nat] /\ held \in [Workers -> Messages \cup {NoMessage}]
        /\ at \in [Workers -> Places] /\ crashes \in Nat
        /\ pdf \in [Workers -> Files \cup {NoFile}] /\ full \in [Jobs -> FullRow]
        /\ store \in [Jobs -> SUBSET Files]
    BY RetriesAssumption
       DEF Base, PlacesTypeOK, TaskTypeOK, QueueTypeOK, FullInv, FullTypeOK
  <1>2. /\ UNCHANGED <<held, crashes, expired>> /\ broken \subseteq broken'
        /\ held[w] # NoMessage /\ at[w] \in {"loaded", "running", "stored"}
        /\ \A v \in Workers : v # w => at'[v] = at[v] /\ pdf'[v] = pdf[v]
        /\ \A i \in Jobs : i # JobOf(w) => full'[i] = full[i] /\ store'[i] = store[i]
    BY <1>1 DEF FullStep, MarkProcessing, StoreFile, SaveFull, FullFails, FullRaises, Continue,
       Raise, Goto, LetGo, queueVars
  <1>3. FileOK(j)
    BY <1>2 DEF FilesInv
  <1>4. CASE JobOf(w) # j
    BY <1>2, <1>3, <1>4, UntouchedKeepsFiles
  <1>5. ASSUME JobOf(w) = j, NEW v \in Workers, v # w PROVE ~Stored(v, j) /\ ~Stored(v, j)'
    BY <1>2, <1>5 DEF Base, OneAtATime, Busy
  <1>6. ASSUME JobOf(w) = j, MarkProcessing(w) PROVE FileOK(j)'
    <2>1. at[w] = "loaded" /\ at'[w] # "stored" /\ store' = store
      BY <1>1, <1>6 DEF MarkProcessing, Continue, Raise, Goto
    <2>2. crashes = 0 => store[j] = {}
      BY <1>2, <1>6, <2>1, FreshHasNoFile DEF Fresh
    <2>3. full'[j].file = full[j].file
          /\ (full'[j].status = "completed" => full[j].status = "completed")
      BY <1>1, <1>6 DEF MarkProcessing, FullRow
    <2> QED BY <1>2, <1>3, <1>5, <1>6, <2>1, <2>2, <2>3 DEF FileOK
  <1>7. ASSUME JobOf(w) = j, StoreFile(w) PROVE FileOK(j)'
    <2> DEFINE file == Min(Files \ store[j])
    <2>1. store'[j] = store[j] \cup {file} /\ pdf'[w] = file /\ UNCHANGED <<full, broken>>
      BY <1>1, <1>7 DEF StoreFile, Continue
    <2>2. crashes = 0 => store[j] = {}
      BY <1>2, <1>7, FreshHasNoFile DEF Fresh, StoreFile
    <2>3. at'[w] = "stored"
      BY <1>1, <1>7 DEF StoreFile, Continue, Goto
    <2> HIDE DEF file
    <2> QED BY <1>2, <1>3, <1>5, <1>7, <2>1, <2>2, <2>3 DEF FileOK
  <1>8. ASSUME JobOf(w) = j, SaveFull(w) PROVE FileOK(j)'
    <2>1. /\ full'[j].status = "completed" /\ full'[j].file = pdf[w] /\ store' = store
          /\ at'[w] = "finished"
      BY <1>1, <1>8 DEF SaveFull, Continue, Goto
    <2>2. pdf[w] \in store[j] /\ (crashes = 0 => store[j] = {pdf[w]})
      BY <1>2, <1>3, <1>8 DEF FileOK, SaveFull
    <2>3. pdf[w] # NoFile
      BY <1>1, <2>2, FilesAreFinite DEF NoFile
    <2> QED BY <1>2, <1>5, <1>8, <2>1, <2>2, <2>3 DEF FileOK
  <1>9. ASSUME JobOf(w) = j, FullFails(w) PROVE FileOK(j)'
    <2>1. /\ full'[j].status = "failed" /\ full'[j].file = full[j].file /\ store' = store
          /\ at'[w] = "finished"
      BY <1>1, <1>9 DEF FullFails, Continue, Goto, FullRow
    <2> QED BY <1>2, <1>3, <1>5, <1>9, <2>1 DEF FileOK
  <1>10. ASSUME JobOf(w) = j, FullRaises(w) PROVE FileOK(j)'
    <2>1. UNCHANGED <<full, store>> /\ at'[w] = "finished" /\ j \in broken'
      BY <1>1, <1>10 DEF FullRaises, Raise, Goto
    <2> QED BY <1>2, <1>3, <1>5, <1>10, <2>1 DEF FileOK
  <1> QED BY <1>4, <1>6, <1>7, <1>8, <1>9, <1>10 DEF FullStep

\* Row and file agree after every step, and a purge lists expired jobs only.
LEMMA FilesKept == Base /\ FullInv /\ FilesInv /\ [Next]_vars => FilesInv'
  <1> SUFFICES ASSUME Base, FullInv, FilesInv, [Next]_vars PROVE FilesInv'
    OBVIOUS
  <1>1. RowMoves /\ FullTypeOK
    BY RowsMoveByKind DEF Base, FullInv
  <1>2. kind' = kind
    BY <1>1 DEF RowMoves
  <1>3. CASE kind # "full"
    <2>1. expired = {} /\ \A j \in Jobs : /\ purge[j] = NotListed
                                          /\ full[j] = NoRow
                                          /\ store[j] = {}
      BY <1>3 DEF FilesInv
    <2>2. ~PurgeStep /\ ~PurgeDies
      BY <2>1 DEF PurgeStep, StartPurge, PurgeFile, PurgeRow, PurgeDies, NotListed
    <2>3. UNCHANGED <<full, store, expired, purge>>
      BY <1>1, <1>3, <2>2 DEF RowMoves
    <2> QED BY <1>2, <1>3, <2>1, <2>3 DEF FilesInv
  <1>4. CASE kind = "full"
    <2>1. FullMove
      BY <1>1, <1>4 DEF RowMoves
    <2>2. ASSUME NEW j \in Jobs, j \notin expired' PROVE FileOK(j)'
      BY <1>4, <2>1, <2>2, OthersKeepFiles, DeliveriesKeepFiles DEF FullMove
    <2>3. ASSUME NEW j \in Jobs, purge'[j].place # "none" PROVE j \in expired'
      <3>1. purge[j].place # "none" => j \in expired
        BY <1>4 DEF FilesInv
      <3>2. CASE PurgeStep \/ PurgeDies
        BY <1>1, <2>3, <3>1, <3>2 DEF FullTypeOK, PurgeStep, StartPurge, PurgeFile, PurgeRow,
           PurgeDies, NotListed
      <3>3. CASE ~(PurgeStep \/ PurgeDies)
        <4>1. purge' = purge /\ expired \subseteq expired'
          BY <2>1, <3>3 DEF FullMove, fullVars, CreateFullReport, Expire, LoadReport, FullStep,
             MarkProcessing, StoreFile, SaveFull, FullFails, FullRaises
        <4> QED BY <2>3, <3>1, <4>1
      <3> QED BY <3>2, <3>3
    <2> QED BY <1>2, <1>4, <2>2, <2>3 DEF FilesInv
  <1> QED BY <1>3, <1>4

\* A report that has not expired can be downloaded once it is completed: the
\* file its row names is in the storage, and while no process died and no save
\* was refused it is the only file there.  Any report leaves one file, and at most
\* one more for each process that died (full_report/tasks.py: file.save before
\* report.save; the purge takes the file it read in the row when it started).
THEOREM FilesCorrect == Spec => []FilesMatchRows
  <1>1. Init => Base /\ FullInv /\ FilesInv
    BY BaseInit, FullInit, FilesInit
  <1>2. Base /\ FullInv /\ FilesInv /\ [Next]_vars => (Base /\ FullInv /\ FilesInv)'
    BY BaseStep, FullKept, FilesKept
  <1>3. ASSUME Base, FullInv, FilesInv PROVE FilesMatchRows
    <2>1. ASSUME NEW j \in Jobs \ expired
          PROVE  /\ full[j].file # NoFile => full[j].file \in store[j]
                 /\ full[j].status = "completed" => full[j].file # NoFile
                 /\ crashes = 0 /\ j \notin broken /\ full[j].status # "failed" =>
                       store[j] \subseteq {full[j].file}
                           \cup {pdf[w] : w \in {v \in Workers :
                                                    Working(v, "stored") /\ JobOf(v) = j}}
      <3>1. CASE kind = "full"
        <4>1. FileOK(j)
          BY <1>3, <2>1, <3>1 DEF FilesInv
        <4> QED BY <4>1 DEF FileOK, Stored
      <3>2. CASE kind # "full"
        BY <1>3, <2>1, <3>2 DEF FilesInv, NoRow
      <3> QED BY <3>1, <3>2
    <2>2. ASSUME NEW j \in Jobs
          PROVE  Cardinality(store[j]) <= 1 + crashes
      <3>1. crashes \in Nat
        BY <1>3, RetriesAssumption DEF Base, PlacesTypeOK, TaskTypeOK, QueueTypeOK
      <3>2. CASE kind = "full"
        <4>1. Cardinality(store[j]) <= crashes + 1 /\ Cardinality(store[j]) \in Nat
          BY <1>3, <2>2, <3>2, FilesAreFinite DEF FullInv, FullTypeOK, FilesCounted
        <4> QED BY <3>1, <4>1
      <3>3. CASE kind # "full"
        <4>1. Cardinality(store[j]) = 0
          BY <1>3, <2>2, <3>3, FS_EmptySet DEF FilesInv
        <4> QED BY <3>1, <4>1
      <3> QED BY <3>2, <3>3
    <2> QED BY <2>1, <2>2 DEF FilesMatchRows
  <1> QED BY <1>1, <1>2, <1>3, PTL DEF Spec
-----------------------------------------------------------------------------
\* Link crawls.

\* No crawl in the beginning.
LEMMA CrawlTypesInit == Init => CrawlTypeOK
  BY CrawlAssumption DEF Init, InitCrawl, CrawlTypeOK, CrawlRow, NoProgress

\* Every step keeps the types of crawls.
LEMMA CrawlTypes == Base /\ CrawlTypeOK /\ [Next]_vars => CrawlTypeOK'
  <1> SUFFICES ASSUME Base, CrawlTypeOK, [Next]_vars PROVE CrawlTypeOK'
    OBVIOUS
  <1> USE CrawlAssumption
  <1> USE DEF CrawlTypeOK, CrawlRow
  <1>1. RowMoves
    BY RowsMoveByKind DEF Base
  <1>2. ASSUME NEW w \in Workers, Forget(w), UNCHANGED <<crawl, links>> PROVE CrawlTypeOK'
    BY <1>2 DEF Forget, NoProgress
  <1>3. ASSUME NEW j \in Jobs, SubmitCrawl(j) PROVE CrawlTypeOK'
    BY <1>3 DEF SubmitCrawl
  <1>4. ASSUME NEW w \in Workers, NEW m \in Messages, StartCrawl(w, m) PROVE CrawlTypeOK'
    BY <1>4 DEF StartCrawl
  <1>5. ASSUME NEW w \in Workers, NEW n \in 0..MaxLinks, SaveFound(w, n) PROVE CrawlTypeOK'
    <2>1. /\ progress' = [progress EXCEPT ![w].found = n]
          /\ crawl' = [crawl EXCEPT ![JobOf(w)].total_links_found = n,
                                    ![JobOf(w)].status = "checking_links"]
          /\ links' = links /\ n \in Nat
      BY <1>5 DEF SaveFound
    <2>2. progress' \in [Workers -> [found : 0..MaxLinks, checked : 0..MaxLinks]]
      BY <2>1
    <2>3. crawl' \in [Jobs -> CrawlRow]
      BY <2>1
    <2> QED BY <2>1, <2>2, <2>3
  <1>6. ASSUME NEW w \in Workers, CheckLink(w) PROVE CrawlTypeOK'
    <2> DEFINE checked == progress[w].checked + 1
    <2>1. /\ checked \in 0..MaxLinks /\ checked \in Nat
          /\ progress' = [progress EXCEPT ![w].checked = checked]
          /\ \/ crawl' = [crawl EXCEPT ![JobOf(w)].total_checked = checked]
             \/ crawl' = crawl
          /\ links' = links
      BY <1>6 DEF CheckLink
    <2> HIDE DEF checked
    <2>2. progress' \in [Workers -> [found : 0..MaxLinks, checked : 0..MaxLinks]]
      BY <2>1
    <2>3. crawl' \in [Jobs -> CrawlRow]
      BY <2>1
    <2> QED BY <2>1, <2>2, <2>3
  <1>7. ASSUME NEW w \in Workers, InsertResults(w) PROVE CrawlTypeOK'
    <2> DEFINE inserted == links[JobOf(w)] + progress[w].found
    <2>1. JobOf(w) \in Jobs /\ progress[w].found \in Nat
      BY <1>7, HeldIsMessage DEF InsertResults, Working, Base
    <2>2. inserted \in Nat /\ links' = [links EXCEPT ![JobOf(w)] = inserted]
          /\ UNCHANGED <<crawl, progress>>
      BY <1>7, <2>1 DEF InsertResults
    <2> HIDE DEF inserted
    <2> QED BY <2>2
  <1>8. ASSUME NEW w \in Workers, SaveCrawl(w) PROVE CrawlTypeOK'
    <2> DEFINE row == [status |-> "completed", total_links_found |-> progress[w].found,
                       total_checked |-> progress[w].found]
    <2>1. row \in CrawlRow
      OBVIOUS
    <2>2. crawl' = [crawl EXCEPT ![JobOf(w)] = row] /\ Forget(w) /\ links' = links
      BY <1>8 DEF SaveCrawl
    <2> HIDE DEF row
    <2>3. crawl' \in [Jobs -> CrawlRow]
      BY <2>1, <2>2
    <2>4. progress' \in [Workers -> [found : 0..MaxLinks, checked : 0..MaxLinks]]
      BY <2>2 DEF Forget, NoProgress
    <2> QED BY <2>2, <2>3, <2>4
  <1>9. ASSUME NEW w \in Workers, CrawlFails(w) \/ CrawlRaises(w) PROVE CrawlTypeOK'
    BY <1>9 DEF CrawlFails, CrawlRaises, Forget, NoProgress
  <1>10. CASE UNCHANGED crawlVars
    BY <1>10 DEF crawlVars
  <1> QED BY <1>1, <1>2, <1>3, <1>4, <1>5, <1>6, <1>7, <1>8, <1>9, <1>10
          DEF RowMoves, CrawlMove, CrawlStep, crawlVars

\* Every row, file, place and message of the five kinds of jobs stays of its
\* type, for any number of jobs, workers, retries, crashes, links and items
\* (the models and the STATUS_CHOICES of linkchecker, validator, ssl_check,
\* full_report and speed_test).
THEOREM SiteTypesCorrect == Spec => []TypeOK
  <1>1. Init => Base /\ CrawlTypeOK /\ ValidationInv /\ ScanInv /\ FullInv /\ SpeedInv
    BY BaseInit, CrawlTypesInit, ValidationInit, ScanInit, FullInit, SpeedInit
  <1>2. Base /\ CrawlTypeOK /\ ValidationInv /\ ScanInv /\ FullInv /\ SpeedInv /\ [Next]_vars
          => (Base /\ CrawlTypeOK /\ ValidationInv /\ ScanInv /\ FullInv /\ SpeedInv)'
    BY BaseStep, CrawlTypes, ValidationKept, ScanKept, FullKept, SpeedKept
  <1>3. Base /\ CrawlTypeOK /\ ValidationInv /\ ScanInv /\ FullInv /\ SpeedInv => TypeOK
    BY DEF Base, PlacesTypeOK, Places, ValidationInv, ScanInv, FullInv, SpeedInv, TypeOK
  <1> QED BY <1>1, <1>2, <1>3, PTL DEF Spec

\* Worker w is at a place of the crawl of j.
On(w, spot, j) == Working(w, spot) /\ JobOf(w) = j

\* The first delivery of j has not saved what it found.
Unstarted(j) == \/ submit[j] \in {"start", "committed"}
                \/ \E m \in Messages : queue[m] > 0 /\ m[1] = j
                \/ \E w \in Workers : On(w, "crawling", j)

\* The counts of crawl j: on its row, in its results, in the memory of its task.
CountsOK(j) ==
    /\ crawl[j].status = "completed" =>
          /\ crawl[j].total_checked = crawl[j].total_links_found
          /\ links[j] >= crawl[j].total_checked
          /\ crashes = 0 => links[j] = crawl[j].total_checked
          /\ \A w \in Workers, spot \in CrawlPlaces : ~On(w, spot, j)
    /\ crashes = 0 => crawl[j].total_checked <= crawl[j].total_links_found
    /\ crashes = 0 /\ Unstarted(j) => links[j] = 0 /\ crawl[j].total_checked = 0
    /\ \A w \in Workers : On(w, "checking", j) =>
          /\ progress[w].checked <= progress[w].found
          /\ crawl[j].total_links_found = progress[w].found
          /\ crashes = 0 => links[j] = 0 /\ crawl[j].total_checked <= progress[w].checked
    /\ \A w \in Workers : On(w, "saving", j) =>
          /\ crawl[j].total_links_found = progress[w].found
          /\ links[j] >= progress[w].found
          /\ crashes = 0 => links[j] = progress[w].found

\* Before the links are found nothing is checked.
Nothing(w) == ~Working(w, "checking") /\ ~Working(w, "saving") => progress[w].checked = 0

CrawlInv ==
    /\ CrawlTypeOK
    /\ kind = "crawl" => /\ \A j \in Jobs : CountsOK(j)
                         /\ \A w \in Workers : Nothing(w)
    /\ kind # "crawl" => \A j \in Jobs : /\ crawl[j].status = "none"
                                         /\ crawl[j].total_checked = 0
                                         /\ crawl[j].total_links_found = 0

\* No links, results or progress in the beginning.
LEMMA CrawlInit == Init => CrawlInv
  BY CrawlTypesInit DEF Init, InitTask, InitQueue, InitCrawl, CrawlInv, CountsOK, On, Unstarted,
     Working, Nothing, CrawlPlaces, NoProgress

\* A step that leaves row and results of j alone, and the workers on it.
LEMMA UntouchedKeepsCounts ==
    ASSUME NEW j \in Jobs, CountsOK(j), crawl'[j] = crawl[j], links'[j] = links[j],
           crashes' = 0 => crashes = 0,
           \A w \in Workers, spot \in CrawlPlaces :
              On(w, spot, j)' => On(w, spot, j) /\ progress'[w] = progress[w],
           crashes' = 0 /\ Unstarted(j)' => Unstarted(j)
    PROVE  CountsOK(j)'
  <1>1. {"checking", "saving"} \subseteq CrawlPlaces
    BY DEF CrawlPlaces
  <1>2. \A w \in Workers, spot \in CrawlPlaces : ~On(w, spot, j) => ~On(w, spot, j)'
    OBVIOUS
  <1>3. \A w \in Workers : On(w, "checking", j)' => On(w, "checking", j) /\ progress'[w] = progress[w]
    BY <1>1
  <1>4. \A w \in Workers : On(w, "saving", j)' => On(w, "saving", j) /\ progress'[w] = progress[w]
    BY <1>1
  <1> QED BY <1>2, <1>3, <1>4 DEF CountsOK

\* The steps that only move messages.
LEMMA MessagesKeepCounts ==
    ASSUME Base, CrawlInv, kind = "crawl", NEW j \in Jobs,
           CommonMove, UNCHANGED crawlVars
    PROVE  CountsOK(j)'
  <1> USE DEF On, Unstarted, Working, JobOf, crawlVars
  <1>1. queue \in [Messages -> Nat] /\ held \in [Workers -> Messages \cup {NoMessage}]
        /\ at \in [Workers -> Places] /\ submit \in [Jobs -> Submissions] /\ crashes \in Nat
        /\ CountsOK(j)
    BY RetriesAssumption DEF Base, PlacesTypeOK, TaskTypeOK, QueueTypeOK, CrawlInv
  <1>2. CASE UNCHANGED taskVars
    BY <1>1, <1>2, UntouchedKeepsCounts DEF taskVars, queueVars
  <1>3. ASSUME NEW i \in Jobs, OnCommit(i) PROVE CountsOK(j)'
    <2>1. UNCHANGED <<held, at, crashes, broken>>
      BY <1>3 DEF OnCommit, Delay
    <2>2. Unstarted(j)' => Unstarted(j)
      <3>1. CASE i = j
        BY <1>3, <3>1 DEF OnCommit
      <3>2. CASE i # j
        <4>1. <<i, 0>> \in Messages /\ <<i, 0>>[1] = i
          BY MessagesMake
        <4>2. /\ \A m \in Messages : m # <<i, 0>> => queue'[m] = queue[m]
              /\ submit'[j] = submit[j]
          BY <1>1, <1>3, <3>2 DEF OnCommit, Delay
        <4> QED BY <2>1, <3>2, <4>1, <4>2
      <3> QED BY <3>1, <3>2
    <2> QED BY <1>1, <2>1, <2>2, UntouchedKeepsCounts
  <1>4. ASSUME NEW i \in Jobs, OnCommitLost(i) PROVE CountsOK(j)'
    <2>1. UNCHANGED <<queue, held, at, broken>> /\ crashes' # 0
      BY <1>1, <1>4 DEF OnCommitLost, PublisherLost
    <2> QED BY <1>1, <2>1, UntouchedKeepsCounts
  <1>5. ASSUME NEW w \in Workers, Finish(w) PROVE CountsOK(j)'
    <2>1. /\ UNCHANGED <<queue, submit, crashes>> /\ held'[w] = NoMessage
          /\ \A v \in Workers : v # w => held'[v] = held[v] /\ at'[v] = at[v]
      BY <1>1, <1>5 DEF Finish, Acknowledge, Goto
    <2> QED BY <1>1, <2>1, UntouchedKeepsCounts
  <1>6. CASE PublisherLost /\ UNCHANGED <<submit, at, broken>>
    <2>1. UNCHANGED <<queue, held, at, submit>> /\ crashes' # 0
      BY <1>1, <1>6 DEF PublisherLost
    <2> QED BY <1>1, <2>1, UntouchedKeepsCounts
  <1> QED BY <1>2, <1>3, <1>4, <1>5, <1>6 DEF CommonMove

\* A request, a delivery that starts, a worker that dies.
LEMMA StartsKeepCounts ==
    ASSUME Base, CrawlInv, kind = "crawl", NEW j \in Jobs,
           \/ \E i \in Jobs : SubmitCrawl(i)
           \/ \E w \in Workers, m \in Messages : StartCrawl(w, m)
           \/ \E w \in Workers : WorkerDies(w) /\ Forget(w) /\ UNCHANGED <<crawl, links>>
    PROVE  CountsOK(j)'
  <1> USE DEF On, Unstarted, Working, JobOf
  <1>1. queue \in [Messages -> Nat] /\ held \in [Workers -> Messages \cup {NoMessage}]
        /\ at \in [Workers -> Places] /\ submit \in [Jobs -> Submissions] /\ crashes \in Nat
        /\ crawl \in [Jobs -> CrawlRow] /\ CountsOK(j)
        /\ progress \in [Workers -> [found : 0..MaxLinks, checked : 0..MaxLinks]]
    BY RetriesAssumption
       DEF Base, PlacesTypeOK, TaskTypeOK, QueueTypeOK, CrawlInv, CrawlTypeOK
  <1>2. ASSUME NEW i \in Jobs, SubmitCrawl(i) PROVE CountsOK(j)'
    <2>1. UNCHANGED <<queue, held, crashes, at, links, progress>> /\ submit[i] = "start"
          /\ submit' = [submit EXCEPT ![i] = "committed"]
          /\ crawl' = [crawl EXCEPT ![i].status = "pending"]
      BY <1>2 DEF SubmitCrawl, CommitSubmission, queueVars
    <2>2. Unstarted(j)' => Unstarted(j)
      BY <1>1, <2>1
    <2>3. CASE i # j
      BY <1>1, <2>1, <2>2, <2>3, UntouchedKeepsCounts
    <2>4. CASE i = j
      <3>1. crawl'[j].status = "pending" /\ crawl'[j].total_checked = crawl[j].total_checked
            /\ crawl'[j].total_links_found = crawl[j].total_links_found
        BY <1>1, <2>1, <2>4 DEF CrawlRow
      <3> QED BY <1>1, <2>1, <2>2, <3>1 DEF CountsOK
    <2> QED BY <2>3, <2>4
  <1>3. ASSUME NEW w \in Workers, NEW m \in Messages, StartCrawl(w, m) PROVE CountsOK(j)'
    <2>1. /\ UNCHANGED <<submit, crashes, links, progress>>
          /\ held[w] = NoMessage /\ queue[m] > 0
          /\ held'[w] = m /\ at'[w] = "crawling" /\ m # NoMessage
          /\ \A v \in Workers : v # w => held'[v] = held[v] /\ at'[v] = at[v]
          /\ \A n \in Messages : queue'[n] > 0 => queue[n] > 0
          /\ crawl' = [crawl EXCEPT ![m[1]].status = "crawling"]
      BY <1>1, <1>3, NoMessageAssumption DEF StartCrawl, Take, Deliver, Goto
    <2>2. Unstarted(j)' => Unstarted(j)
      BY <1>1, <2>1
    <2>3. CASE m[1] # j
      BY <1>1, <2>1, <2>2, <2>3, UntouchedKeepsCounts
    <2>4. CASE m[1] = j
      <3>1. crawl'[j].status = "crawling" /\ crawl'[j].total_checked = crawl[j].total_checked
            /\ crawl'[j].total_links_found = crawl[j].total_links_found
        BY <1>1, <2>1, <2>4 DEF CrawlRow
      <3>2. \A v \in Workers : v # w /\ held'[v] # NoMessage => JobOf(v)' # j
        BY <2>1, <2>4 DEF Base, OneAtATime, Busy
      <3>3. \A v \in Workers, spot \in {"checking", "saving"} : ~On(v, spot, j)'
        BY <2>1, <3>2
      <3> QED BY <1>1, <2>1, <2>2, <3>1, <3>3 DEF CountsOK
    <2> QED BY <2>3, <2>4
  <1>4. ASSUME NEW w \in Workers, WorkerDies(w), Forget(w), UNCHANGED <<crawl, links>>
        PROVE  CountsOK(j)'
    <2>1. /\ crashes' # 0 /\ held'[w] = NoMessage
          /\ \A v \in Workers : v # w => held'[v] = held[v] /\ at'[v] = at[v]
                                              /\ progress'[v] = progress[v]
      BY <1>1, <1>4 DEF WorkerDies, WorkerLost, Goto, Forget
    <2> QED BY <1>1, <1>4, <2>1, UntouchedKeepsCounts
  <1> QED BY <1>2, <1>3, <1>4

\* The steps of a delivery, of j or of another crawl.
LEMMA DeliveriesKeepCounts ==
    ASSUME Base, CrawlInv, kind = "crawl", NEW w \in Workers, CrawlStep(w), NEW j \in Jobs
    PROVE  CountsOK(j)'
  <1> USE DEF On, Unstarted, Working, JobOf
  <1>1. queue \in [Messages -> Nat] /\ held \in [Workers -> Messages \cup {NoMessage}]
        /\ at \in [Workers -> Places] /\ submit \in [Jobs -> Submissions] /\ crashes \in Nat
        /\ crawl \in [Jobs -> CrawlRow] /\ CountsOK(j) /\ links \in [Jobs -> Nat]
        /\ progress \in [Workers -> [found : 0..MaxLinks, checked : 0..MaxLinks]]
    BY RetriesAssumption
       DEF Base, PlacesTypeOK, TaskTypeOK, QueueTypeOK, CrawlInv, CrawlTypeOK
  <1>2. /\ UNCHANGED <<queue, held, crashes, submit>>
        /\ held[w] # NoMessage /\ at[w] \in CrawlPlaces /\ at'[w] # "crawling"
        /\ \A v \in Workers : v # w => at'[v] = at[v] /\ progress'[v] = progress[v]
        /\ \A i \in Jobs : i # JobOf(w) => crawl'[i] = crawl[i] /\ links'[i] = links[i]
    BY <1>1 DEF CrawlStep, SaveFound, CheckLink, InsertResults, SaveCrawl, CrawlFails,
       CrawlRaises, Continue, Raise, Goto, Forget, taskVars, queueVars, CrawlPlaces
  <1>3. Unstarted(j)' => Unstarted(j)
    BY <1>2
  <1>4. CASE JobOf(w) # j
    BY <1>1, <1>2, <1>3, <1>4, UntouchedKeepsCounts
  <1> SUFFICES ASSUME JobOf(w) = j PROVE CountsOK(j)'
    BY <1>4
  <1>5. \A v \in Workers : v # w /\ held[v] # NoMessage => JobOf(v) # j
    BY <1>2 DEF Base, OneAtATime, Busy
  <1>6. \A v \in Workers : v # w => \A spot \in CrawlPlaces : ~On(v, spot, j)'
    BY <1>2, <1>5
  <1>7. ~Unstarted(j)'
    <2>1. submit[j] = "queued"
      BY <1>2 DEF Base, Sent
    <2>2. \A m \in Messages : queue[m] > 0 => m[1] # j
      BY <1>2 DEF Base, OneAtATime, Busy
    <2> QED BY <1>2, <1>5, <2>1, <2>2
  <1>8. crawl[j].status # "completed" /\ {"checking", "saving"} \subseteq CrawlPlaces
    BY <1>1, <1>2 DEF CountsOK, CrawlPlaces
  <1>9. ASSUME NEW n \in 0..MaxLinks, SaveFound(w, n) PROVE CountsOK(j)'
    <2>1. /\ crawl'[j].status = "checking_links" /\ crawl'[j].total_links_found = n
          /\ crawl'[j].total_checked = crawl[j].total_checked /\ links' = links
          /\ at'[w] = "checking" /\ at[w] = "crawling" /\ progress'[w].found = n
          /\ progress'[w].checked = progress[w].checked
      BY <1>1, <1>9 DEF SaveFound, Continue, Goto, CrawlRow
    <2>2. progress[w].checked = 0
      BY <2>1 DEF CrawlInv, Nothing
    <2>3. crashes = 0 => links[j] = 0 /\ crawl[j].total_checked = 0
      BY <1>1, <1>2, <2>1 DEF CountsOK
    <2> QED BY <1>2, <1>6, <1>7, <1>8, <2>1, <2>2, <2>3 DEF CountsOK
  <1>10. ASSUME CheckLink(w) PROVE CountsOK(j)'
    <2>1. /\ at[w] = "checking" /\ at'[w] = "checking" /\ links' = links
          /\ progress[w].checked < progress[w].found
          /\ progress'[w].found = progress[w].found
          /\ progress'[w].checked = progress[w].checked + 1
          /\ crawl'[j].status = crawl[j].status
          /\ crawl'[j].total_links_found = crawl[j].total_links_found
          /\ crawl'[j].total_checked \in {crawl[j].total_checked, progress[w].checked + 1}
      BY <1>1, <1>10 DEF CheckLink, taskVars, CrawlRow
    <2>2. /\ crawl[j].total_links_found = progress[w].found
          /\ crashes = 0 => links[j] = 0 /\ crawl[j].total_checked <= progress[w].checked
      BY <1>1, <1>2, <2>1 DEF CountsOK
    <2>3. progress[w].checked \in Nat /\ progress[w].found \in Nat
          /\ crawl[j].total_checked \in Nat
      BY <1>1 DEF CrawlRow
    <2> QED BY <1>2, <1>6, <1>7, <1>8, <2>1, <2>2, <2>3 DEF CountsOK
  <1>11. ASSUME InsertResults(w) PROVE CountsOK(j)'
    <2>1. /\ at[w] = "checking" /\ at'[w] = "saving" /\ UNCHANGED <<crawl, progress>>
          /\ links'[j] = links[j] + progress[w].found
      BY <1>1, <1>11 DEF InsertResults, Continue, Goto
    <2>2. /\ crawl[j].total_links_found = progress[w].found
          /\ crashes = 0 => links[j] = 0
      BY <1>1, <1>2, <2>1 DEF CountsOK
    <2>3. links[j] \in Nat /\ progress[w].found \in Nat
      BY <1>1
    <2> QED BY <1>1, <1>2, <1>6, <1>7, <1>8, <2>1, <2>2, <2>3 DEF CountsOK
  <1>12. ASSUME SaveCrawl(w) PROVE CountsOK(j)'
    <2>1. /\ at[w] = "saving" /\ at'[w] = "finished" /\ links' = links
          /\ crawl'[j].total_links_found = progress[w].found
          /\ crawl'[j].total_checked = progress[w].found
      BY <1>1, <1>12 DEF SaveCrawl, Continue, Goto
    <2>2. /\ links[j] >= progress[w].found
          /\ crashes = 0 => links[j] = progress[w].found
      BY <1>1, <1>2, <2>1 DEF CountsOK
    <2>3. \A spot \in CrawlPlaces : ~On(w, spot, j)'
      BY <2>1 DEF CrawlPlaces
    <2>4. \A v \in Workers, spot \in CrawlPlaces : ~On(v, spot, j)'
      BY <1>6, <2>3
    <2>5. progress[w].found \in Nat
      BY <1>1
    <2> QED BY <1>2, <1>7, <1>8, <2>1, <2>2, <2>4, <2>5 DEF CountsOK
  <1>13. ASSUME CrawlFails(w) \/ CrawlRaises(w) PROVE CountsOK(j)'
    <2>1. /\ at'[w] = "finished" /\ links' = links /\ crawl'[j].status # "completed"
          /\ crawl'[j].total_links_found = crawl[j].total_links_found
          /\ crawl'[j].total_checked = crawl[j].total_checked
      BY <1>1, <1>8, <1>13 DEF CrawlFails, CrawlRaises, Continue, Raise, Goto, CrawlRow
    <2>2. \A v \in Workers, spot \in CrawlPlaces : ~On(v, spot, j)'
      BY <1>6, <2>1 DEF CrawlPlaces
    <2> QED BY <1>1, <1>2, <1>7, <1>8, <2>1, <2>2 DEF CountsOK
  <1> QED BY <1>9, <1>10, <1>11, <1>12, <1>13 DEF CrawlStep

\* Until its links are found a worker has checked none, whatever step is taken.
LEMMA NothingKept ==
    ASSUME Base, CrawlInv, kind = "crawl", CrawlMove, NEW w \in Workers
    PROVE  Nothing(w)'
  <1> USE DEF Nothing, Working
  <1>1. /\ held \in [Workers -> Messages \cup {NoMessage}] /\ at \in [Workers -> Places]
        /\ progress \in [Workers -> [found : 0..MaxLinks, checked : 0..MaxLinks]]
        /\ Nothing(w)
    BY DEF Base, PlacesTypeOK, TaskTypeOK, QueueTypeOK, CrawlInv, CrawlTypeOK
  <1>2. CASE CommonMove /\ UNCHANGED crawlVars
    BY <1>1, <1>2 DEF CommonMove, crawlVars, taskVars, queueVars, OnCommit, Delay, OnCommitLost,
       PublisherLost, Finish, Working, Acknowledge, Goto
  <1>3. ASSUME NEW j \in Jobs, SubmitCrawl(j) PROVE Nothing(w)'
    BY <1>1, <1>3 DEF SubmitCrawl, CommitSubmission, queueVars
  <1>4. ASSUME NEW v \in Workers, NEW m \in Messages, StartCrawl(v, m) PROVE Nothing(w)'
    BY <1>1, <1>4 DEF StartCrawl, Take, Deliver, Goto
  <1>5. ASSUME NEW v \in Workers, CrawlStep(v) PROVE Nothing(w)'
    <2>1. CASE v = w
      <3>1. ASSUME NEW n \in 0..MaxLinks, SaveFound(w, n) PROVE Nothing(w)'
        <4>1. held'[w] # NoMessage /\ at'[w] = "checking"
          BY <1>1, <3>1 DEF SaveFound, Continue, Goto, queueVars
        <4> QED BY <4>1
      <3>2. CheckLink(w) => Nothing(w)'
        BY <1>1 DEF CheckLink, taskVars, queueVars
      <3>3. InsertResults(w) => Nothing(w)'
        BY <1>1 DEF InsertResults, Continue, Goto, queueVars
      <3>4. SaveCrawl(w) \/ CrawlFails(w) \/ CrawlRaises(w) => Nothing(w)'
        BY <1>1 DEF SaveCrawl, CrawlFails, CrawlRaises, Forget, NoProgress
      <3> QED BY <1>5, <2>1, <3>1, <3>2, <3>3, <3>4 DEF CrawlStep
    <2>2. CASE v # w
      BY <1>1, <1>5, <2>2 DEF CrawlStep, SaveFound, CheckLink, InsertResults, SaveCrawl,
         CrawlFails, CrawlRaises, Continue, Raise, Goto, Forget, NoProgress, taskVars, queueVars
    <2> QED BY <2>1, <2>2
  <1>6. ASSUME NEW v \in Workers, WorkerDies(v), Forget(v) PROVE Nothing(w)'
    BY <1>1, <1>6 DEF WorkerDies, WorkerLost, Goto, Forget, NoProgress
  <1> QED BY <1>2, <1>3, <1>4, <1>5, <1>6 DEF CrawlMove

\* The invariant of crawls is inductive.
LEMMA CrawlKept == Base /\ CrawlInv /\ [Next]_vars => CrawlInv'
  <1> SUFFICES ASSUME Base, CrawlInv, [Next]_vars PROVE CrawlInv'
    OBVIOUS
  <1>1. RowMoves /\ kind' = kind
    BY RowsMoveByKind DEF Base, RowMoves
  <1>2. CrawlTypeOK'
    BY CrawlTypes DEF CrawlInv
  <1>3. CASE kind # "crawl"
    BY <1>1, <1>2, <1>3 DEF RowMoves, CrawlInv
  <1>4. CASE kind = "crawl"
    <2>1. CrawlMove
      BY <1>1, <1>4 DEF RowMoves
    <2>2. ASSUME NEW j \in Jobs PROVE CountsOK(j)'
      BY <1>4, <2>1, MessagesKeepCounts, StartsKeepCounts, DeliveriesKeepCounts DEF CrawlMove
    <2>3. ASSUME NEW w \in Workers PROVE Nothing(w)'
      BY <1>4, <2>1, NothingKept
    <2> QED BY <1>1, <1>2, <1>4, <2>2, <2>3 DEF CrawlInv
  <1> QED BY <1>3, <1>4

\* Rounding does not lift a share above the whole.
LEMMA PercentBounded ==
    ASSUME NEW c \in Nat, NEW t \in Nat \ {0}, c <= t
    PROVE  (2000 * c + t) \div (2 * t) <= 1000
  <1> DEFINE a == 2000 * c + t
             b == 2 * t
             q == a \div b
  <1>1. a \in Nat /\ b \in Nat \ {0} /\ a < 1001 * b
    OBVIOUS
  <1> HIDE DEF a, b
  <1>2. q \in Int /\ b * q <= a
    BY <1>1
  <1> HIDE DEF q
  <1>3. ASSUME q >= 1001 PROVE FALSE
    <2>1. b * q >= b * 1001
      BY <1>1, <1>2, <1>3
    <2> QED BY <1>1, <1>2, <2>1
  <1>4. q <= 1000
    BY <1>2, <1>3
  <1> QED BY <1>4 DEF q, a, b

\* A completed crawl counts the links it found, all checked, with a result row
\* for each, and exactly one while no process died; until then the progress it
\* shows stays within 100 percent (linkchecker/tasks.py: the progress writes,
\* bulk_create and job.save of one delivery after the other).
THEOREM CrawlsCorrect == Spec => []CrawlCountsAgree
  <1>1. Init => Base /\ CrawlInv
    BY BaseInit, CrawlInit
  <1>2. Base /\ CrawlInv /\ [Next]_vars => (Base /\ CrawlInv)'
    BY BaseStep, CrawlKept
  <1>3. CrawlInv => CrawlCountsAgree
    <2> SUFFICES ASSUME CrawlInv, NEW j \in Jobs
                 PROVE  /\ crawl[j].status = "completed" =>
                              /\ crawl[j].total_checked = crawl[j].total_links_found
                              /\ links[j] >= crawl[j].total_checked
                              /\ crashes = 0 => links[j] = crawl[j].total_checked
                        /\ crashes = 0 => percent(j) <= 1000
      BY DEF CrawlCountsAgree
    <2>1. crawl[j].total_checked \in Nat /\ crawl[j].total_links_found \in Nat
          /\ links[j] \in Nat
      BY DEF CrawlInv, CrawlTypeOK, CrawlRow
    <2>2. CASE kind # "crawl"
      BY <2>1, <2>2 DEF CrawlInv, percent
    <2>3. CASE kind = "crawl"
      <3>1. CountsOK(j)
        BY <2>3 DEF CrawlInv
      <3>2. crashes = 0 => percent(j) <= 1000
        <4>1. CASE crawl[j].total_links_found = 0
          BY <4>1 DEF percent
        <4>2. CASE crawl[j].total_links_found # 0
          <5>1. percent(j) = (2000 * crawl[j].total_checked + crawl[j].total_links_found)
                                \div (2 * crawl[j].total_links_found)
            BY <4>2 DEF percent
          <5>2. crashes = 0 => crawl[j].total_checked <= crawl[j].total_links_found
            BY <3>1 DEF CountsOK
          <5> QED BY <2>1, <4>2, <5>1, <5>2, PercentBounded
        <4> QED BY <4>1, <4>2
      <3> QED BY <3>1, <3>2 DEF CountsOK
    <2> QED BY <2>2, <2>3
  <1> QED BY <1>1, <1>2, <1>3, PTL DEF Spec
=============================================================================
