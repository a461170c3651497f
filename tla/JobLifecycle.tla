---------------------------- MODULE JobLifecycle ----------------------------
(***************************************************************************)
(* What backend/app/services/job_runner.py promises about a row of the     *)
(* `jobs` table, with no process, queue or task in sight: a job is         *)
(* submitted once, is attempted one time after another while it is not     *)
(* finished, and a finished job is never touched again.  JobRunner         *)
(* implements this specification; ResearchSession is built on it.          *)
(***************************************************************************)
EXTENDS Naturals

CONSTANT Jobs           \* the ids of the jobs that may be submitted

VARIABLES
  row,                  \* row[j] is JobORM.status, "absent" before the insert
  attempts              \* attempts[j] is JobORM.attempts

jobVars == <<row, attempts>>

Unfinished == {"pending", "running"}
Finished   == {"completed", "failed"}
Status     == Unfinished \cup Finished \cup {"absent"}

Init ==
  /\ row      = [j \in Jobs |-> "absent"]
  /\ attempts = [j \in Jobs |-> 0]

Submit(j) ==
  /\ row[j] = "absent"
  /\ row' = [row EXCEPT ![j] = "pending"]
  /\ UNCHANGED attempts

\* A first attempt, or another one after a crash left the row `running`.
Attempt(j) ==
  /\ row[j] \in Unfinished
  /\ row'      = [row EXCEPT ![j] = "running"]
  /\ attempts' = [attempts EXCEPT ![j] = @ + 1]

Finish(j) ==
  /\ row[j] = "running"
  /\ \E outcome \in Finished : row' = [row EXCEPT ![j] = outcome]
  /\ UNCHANGED attempts

Next == \E j \in Jobs : Submit(j) \/ Attempt(j) \/ Finish(j)

Spec == Init /\ [][Next]_jobVars

=============================================================================
