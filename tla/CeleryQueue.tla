---------------------------- MODULE CeleryQueue ----------------------------
(***************************************************************************)
(* The Celery broker and worker pool as every task of this project is      *)
(* configured (config/settings/base.py and the shared_task decorators):    *)
(* acks_late, reject_on_worker_lost, one message per worker process.       *)
(*                                                                         *)
(* A message names the job and how often it has been retried.  A worker    *)
(* keeps its message until the task function is over; when the process     *)
(* dies first, the broker delivers the same message again.  self.retry     *)
(* publishes a new message before the old one is acknowledged.             *)
(***************************************************************************)
EXTENDS Integers, FiniteSets

CONSTANTS
    Jobs,        \* what a message is about: a report
    Workers,     \* worker processes
    NoMessage,   \* what an idle worker holds
    MAX_RETRIES, \* the retries of one message chain
    MaxCrashes   \* bound: processes that die

ASSUME RetriesAssumption == MAX_RETRIES \in Nat /\ MaxCrashes \in Nat

Messages == Jobs \X (0..MAX_RETRIES)

ASSUME NoMessageAssumption == NoMessage \notin Messages

VARIABLES
    queue,       \* message -> copies of it that wait for a worker
    held,        \* worker -> the message it works on, not acknowledged
    crashes      \* processes that died so far

queueVars == <<queue, held, crashes>>

InitQueue == /\ queue = [m \in Messages |-> 0]
             /\ held = [w \in Workers |-> NoMessage]
             /\ crashes = 0

QueueTypeOK == /\ queue \in [Messages -> Nat]
               /\ held \in [Workers -> Messages \cup {NoMessage}]
               /\ crashes \in 0..MaxCrashes

JobOf(w) == held[w][1]

RetriesOf(w) == held[w][2]

\* The copies that wait of the messages about some jobs, numbered.
Copies(jobs) == UNION {{m} \X (1..queue[m]) : m \in {n \in Messages : n[1] \in jobs}}

\* task.delay(...): a message with no retries.
Delay(j) == /\ queue' = [queue EXCEPT ![<<j, 0>>] = @ + 1]
            /\ UNCHANGED <<held, crashes>>

\* An idle worker gets a message and keeps it unacknowledged.
Deliver(w, m) == /\ held[w] = NoMessage
                 /\ queue[m] > 0
                 /\ queue' = [queue EXCEPT ![m] = @ - 1]
                 /\ held' = [held EXCEPT ![w] = m]
                 /\ UNCHANGED crashes

\* Mutant: apply_async in place of self.retry: the count of retries is lost.
RetryUncounted(w) ==
    /\ queue' = [queue EXCEPT ![held[w]] = @ + 1]
    /\ UNCHANGED <<held, crashes>>

\* self.retry(...): the next message of the chain, beside the one still held.
Retry(w) == /\ RetriesOf(w) < MAX_RETRIES
            /\ queue' = [queue EXCEPT ![<<JobOf(w), RetriesOf(w) + 1>>] = @ + 1]
            /\ UNCHANGED <<held, crashes>>

\* The task function is over, with a value or an exception: acknowledged.
Acknowledge(w) == /\ held' = [held EXCEPT ![w] = NoMessage]
                  /\ UNCHANGED <<queue, crashes>>

\* The worker process dies: its message goes back to the queue.
WorkerLost(w) == /\ held[w] # NoMessage
                 /\ crashes < MaxCrashes
                 /\ crashes' = crashes + 1
                 /\ queue' = [queue EXCEPT ![held[w]] = @ + 1]
                 /\ held' = [held EXCEPT ![w] = NoMessage]

\* A web process dies between its commit and its message: nothing is queued.
PublisherLost == /\ crashes < MaxCrashes
                 /\ crashes' = crashes + 1
                 /\ UNCHANGED <<queue, held>>

\* No message about j waits or is being worked on.
NothingLeft(j) == /\ \A m \in Messages : m[1] = j => queue[m] = 0
                  /\ \A w \in Workers : held[w] # NoMessage => JobOf(w) # j
=============================================================================
