------------------------------- MODULE JobIds -------------------------------
(***************************************************************************)
(* The numbering of jobs in lab9/tsh.c: the job list and nextjid under any *)
(* sequence of additions and deletions, whichever way the rest of the      *)
(* shell comes to make them.  addjob restarts nextjid at 1 once it exceeds *)
(* MAXJOBS, deletejob puts it after the largest ID in use.                 *)
(***************************************************************************)
EXTENDS JobList

CONSTANT AddBound  \* bound of the model: additions while the list is in use

ASSUME AddBoundAssumption == AddBound \in Nat

VARIABLES
  jobs, nextjid,
  adds  \* history: jobs added since the list was last empty

vars == <<jobs, nextjid, adds>>

TypeOK == jobs \in [Slot -> Job] /\ nextjid \in Nat /\ adds \in Nat

Listed == {i \in Slot : jobs[i].pid # NoPid}

Init == jobs = initjobs /\ nextjid = 1 /\ adds = 0

\* addjob for a child just forked: no job has its process ID.
Add(p) ==
  /\ adds < AddBound
  /\ getjobpid(jobs, p) = NoSlot
  /\ LET r == addjob(jobs, nextjid, p, "BG")
     IN jobs' = r.jobs /\ nextjid' = r.nextjid
  /\ adds' = IF FreeSlots(jobs) = {} THEN adds ELSE adds + 1

Delete(p) ==
  /\ getjobpid(jobs, p) # NoSlot
  /\ LET r == deletejob(jobs, nextjid, p)
     IN jobs' = r.jobs /\ nextjid' = r.nextjid
  /\ adds' = IF Listed \ {getjobpid(jobs, p)} = {} THEN 0 ELSE adds

Next == \E p \in Pids : Add(p) \/ Delete(p)

Spec == Init /\ [][Next]_vars

-----------------------------------------------------------------------------
FindsEach == \A i \in Listed : getjobjid(jobs, jobs[i].jid) = i

\* Up to MAXJOBS additions after the list was empty, "fg %j" and "bg %j"
\* find the very job that is shown as [j].
JidFindsJob == adds <= MaxJobs => FindsEach

\* No ID is ever larger than the number of jobs added since the list was
\* empty, although deletejob may push nextjid beyond MAXJOBS.
JidsBounded == nextjid <= adds + 1 /\ \A i \in Slot : jobs[i].jid <= adds
=============================================================================
