----------------------------- MODULE ReportLife -----------------------------
(***************************************************************************)
(* What anyone who polls a report may rely on, whichever task fills it in: *)
(* GTmetrixTask, AnalysisTask and the SSL scans of SiteJobs implement it,  *)
(* and SpeedTest is built from two of them.                                *)
(*                                                                         *)
(* A failed report may still complete (a retry), a completed one fails     *)
(* only if a process died: its message is delivered again and the attempt  *)
(* after it is recorded over the result.                                   *)
(***************************************************************************)
EXTENDS Naturals

CONSTANT Reports

VARIABLES
    status,      \* report -> the status column, "none" before the row is there
    lost         \* processes that died so far

lifeVars == <<status, lost>>

InitLife == /\ status = [r \in Reports |-> "none"]
            /\ lost = 0

Move(r, from, to) == /\ status[r] \in from
                     /\ status' = [status EXCEPT ![r] = to]
                     /\ UNCHANGED lost

Submit(r) == Move(r, {"none"}, "pending")

Complete(r) == Move(r, {"pending", "failed"}, "completed")

Fail(r) == Move(r, {"pending"} \cup (IF lost > 0 THEN {"completed"} ELSE {}), "failed")

ProcessLost == /\ lost' = lost + 1
               /\ UNCHANGED status

LifeNext == \/ \E r \in Reports : Submit(r) \/ Complete(r) \/ Fail(r)
            \/ ProcessLost

LifeSpec == InitLife /\ [][LifeNext]_lifeVars
=============================================================================
