------------------------------- MODULE JobList -------------------------------
(***************************************************************************)
(* The job list of the tiny shell (lab9/tsh.c): the array jobs[MAXJOBS]    *)
(* and the helper routines that search and change it, as operators on a    *)
(* table t and the counter nextjid.  Every helper scans the array upwards  *)
(* and stops at the first match, hence the Min of a set of slots.  Command *)
(* lines are left out: nothing but printing reads them.                    *)
(***************************************************************************)
EXTENDS Integers, FiniteSetsExt

CONSTANTS
  MaxJobs,  \* MAXJOBS, the size of the array (16 in the source)
  Pids,     \* the process IDs the kernel can hand out
  NoPid     \* the pid field of a cleared slot (0 in the source)

ASSUME MaxJobsAssumption == MaxJobs \in Nat \ {0}
ASSUME PidAssumption == NoPid \notin Pids
ASSUME PidsFinite == IsFiniteSet(Pids)

Slot == 1 .. MaxJobs
NoSlot == 0  \* the NULL that a failed search returns

Job == [pid : Pids \union {NoPid}, jid : Nat,
        state : {"UNDEF", "FG", "BG", "ST"}]

clearjob == [pid |-> NoPid, jid |-> 0, state |-> "UNDEF"]
initjobs == [i \in Slot |-> clearjob]

-----------------------------------------------------------------------------
FirstOf(S) == IF S = {} THEN NoSlot ELSE Min(S)

FgSlots(t) == {i \in Slot : t[i].state = "FG"}
FreeSlots(t) == {i \in Slot : t[i].pid = NoPid}

getjobpid(t, p) == FirstOf({i \in Slot : p # NoPid /\ t[i].pid = p})
getjobjid(t, j) == FirstOf({i \in Slot : j >= 1 /\ t[i].jid = j})

\* Mutant: the test of the state dropped.
fgpidAnyState(t) ==
  IF \A i \in Slot : t[i].pid = NoPid THEN NoPid
  ELSE t[Min({i \in Slot : t[i].pid # NoPid})].pid

fgpid(t) == IF FgSlots(t) = {} THEN NoPid ELSE t[Min(FgSlots(t))].pid

maxjid(t) == Max({0} \union {t[i].jid : i \in Slot})

(***************************************************************************)
(* addjob and deletejob return the new table and the new nextjid.  addjob  *)
(* overwrites the first slot with no pid, whatever its other fields hold,  *)
(* and does nothing to a full table.  deletejob restarts the numbering     *)
(* after the largest jid left in the table.                                *)
(***************************************************************************)
\* Mutant: the return after the first free slot dropped.
addjobEverySlot(t, n, p, s) ==
  [jobs |-> [i \in Slot |->
     IF t[i].pid = NoPid THEN [pid |-> p, jid |-> n, state |-> s] ELSE t[i]],
   nextjid |-> IF n + 1 > MaxJobs THEN 1 ELSE n + 1]

addjob(t, n, p, s) ==
  IF p = NoPid \/ FreeSlots(t) = {} THEN [jobs |-> t, nextjid |-> n]
  ELSE [jobs |-> [t EXCEPT ![Min(FreeSlots(t))] =
                     [pid |-> p, jid |-> n, state |-> s]],
        nextjid |-> IF n + 1 > MaxJobs THEN 1 ELSE n + 1]

\* Mutant: nextjid taken back by one instead of computed.
deletejobDecrement(t, n, p) ==
  LET i == getjobpid(t, p)
  IN IF i = NoSlot THEN [jobs |-> t, nextjid |-> n]
     ELSE [jobs |-> [t EXCEPT ![i] = clearjob], nextjid |-> n - 1]

\* Mutant: the ID of the deleted job is the next one.
deletejobReuse(t, n, p) ==
  LET i == getjobpid(t, p)
  IN IF i = NoSlot THEN [jobs |-> t, nextjid |-> n]
     ELSE [jobs |-> [t EXCEPT ![i] = clearjob], nextjid |-> t[i].jid]

\* Mutant: maxjid computed before the slot is cleared.
deletejobEarlyMax(t, n, p) ==
  LET i == getjobpid(t, p)
  IN IF i = NoSlot THEN [jobs |-> t, nextjid |-> n]
     ELSE [jobs |-> [t EXCEPT ![i] = clearjob], nextjid |-> maxjid(t) + 1]

\* Mutant: only the pid of the slot is cleared.
deletejobPidOnly(t, n, p) ==
  LET i == getjobpid(t, p)
      u == [t EXCEPT ![i].pid = NoPid]
  IN IF i = NoSlot THEN [jobs |-> t, nextjid |-> n]
     ELSE [jobs |-> u, nextjid |-> maxjid(u) + 1]

deletejob(t, n, p) ==
  LET i == getjobpid(t, p)
      u == [t EXCEPT ![i] = clearjob]
  IN IF i = NoSlot THEN [jobs |-> t, nextjid |-> n]
     ELSE [jobs |-> u, nextjid |-> maxjid(u) + 1]
=============================================================================
