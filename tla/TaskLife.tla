------------------------------ MODULE TaskLife ------------------------------
(***************************************************************************)
(* What the tasks of linkchecker, validator, ssl_check and full_report     *)
(* share: the request that creates the row and queues the message after    *)
(* its commit, a worker that takes it, and how the task function ends.     *)
(***************************************************************************)
EXTENDS CeleryQueue

VARIABLES
    submit,      \* job -> how far the request that submits it is
    at,          \* worker -> where its task function is
    broken       \* jobs whose task raised where no except clause records it

taskVars == <<queueVars, submit, at, broken>>

Submissions == {"start", "committed", "queued", "unqueued"}

InitTask == /\ InitQueue
            /\ submit = [j \in Jobs |-> "start"]
            /\ at = [w \in Workers |-> "idle"]
            /\ broken = {}

TaskTypeOK == /\ QueueTypeOK
              /\ submit \in [Jobs -> Submissions]
              /\ broken \in SUBSET Jobs

Goto(w, place) == at' = [at EXCEPT ![w] = place]

Working(w, place) == held[w] # NoMessage /\ at[w] = place

\* The row is committed; the message is not published yet.
CommitSubmission(j) ==
    /\ submit[j] = "start"
    /\ submit' = [submit EXCEPT ![j] = "committed"]
    /\ UNCHANGED <<queueVars, at, broken>>

\* transaction.on_commit(lambda: task.delay(...))
OnCommit(j) ==
    /\ submit[j] = "committed"
    /\ submit' = [submit EXCEPT ![j] = "queued"]
    /\ Delay(j)
    /\ UNCHANGED <<at, broken>>

\* The web process dies, or the broker refuses, after the commit.
OnCommitLost(j) ==
    /\ submit[j] = "committed"
    /\ submit' = [submit EXCEPT ![j] = "unqueued"]
    /\ PublisherLost
    /\ UNCHANGED <<at, broken>>

Take(w, m, place) == /\ Deliver(w, m)
                     /\ Goto(w, place)
                     /\ UNCHANGED <<submit, broken>>

\* The task function goes on, or returns, without a call to the broker.
Continue(w, place) == /\ Goto(w, place)
                      /\ UNCHANGED <<queueVars, submit, broken>>

\* It raises: celery records the failure and acknowledges the message.
Raise(w) == /\ Goto(w, "finished")
            /\ broken' = broken \cup {JobOf(w)}
            /\ UNCHANGED <<queueVars, submit>>

PublishRetry(w) == /\ Retry(w)
                   /\ Goto(w, "finished")
                   /\ UNCHANGED <<submit, broken>>

Finish(w) == /\ Working(w, "finished")
             /\ Acknowledge(w)
             /\ Goto(w, "idle")
             /\ UNCHANGED <<submit, broken>>

WorkerDies(w) == /\ WorkerLost(w)
                 /\ Goto(w, "idle")
                 /\ UNCHANGED <<submit, broken>>
=============================================================================
