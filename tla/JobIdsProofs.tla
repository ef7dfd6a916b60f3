---------------------------- MODULE JobIdsProofs ----------------------------
(***************************************************************************)
(* Proofs about the numbering of jobs: the IDs are bounded by the number   *)
(* of jobs added, and "%j" finds the job shown as [j] until the numbering  *)
(* has been able to wrap.                                                  *)
(***************************************************************************)
EXTENDS JobIds, JobListProofs

\* A slot without a process has no ID, a listed job has one; until MAXJOBS
\* additions the IDs differ, and before that the next one is beyond them all.
Numbered ==
  /\ nextjid >= 1
  /\ \A i \in Slot : jobs[i].pid = NoPid <=> jobs[i].jid = 0
  /\ adds <= MaxJobs =>
       \A i, k \in Slot : i # k /\ jobs[i].jid = jobs[k].jid => jobs[i].jid = 0
  /\ adds < MaxJobs => \A i \in Slot : jobs[i].jid < nextjid

IInv == TypeOK /\ JidsBounded /\ Numbered

\* The empty job list of initjobs satisfies the inductive invariant.
LEMMA InitIInv == Init => IInv
<1> SUFFICES ASSUME Init PROVE IInv
  OBVIOUS
<1>1. clearjob \in Job
  BY DEF clearjob, Job
<1>2. TypeOK
  BY <1>1 DEF Init, TypeOK, initjobs
<1>3. \A i \in Slot : jobs[i] = clearjob
  BY DEF Init, initjobs
<1> QED
  BY <1>2, <1>3 DEF IInv, JidsBounded, Numbered, Init, clearjob

\* addjob keeps the invariant: it gives the first free slot an ID above
\* the bound on those in use, or leaves a full list alone.
LEMMA AddKeepsIInv ==
  ASSUME IInv, NEW p \in Pids, Add(p)
  PROVE  IInv'
<1> USE DEF IInv, TypeOK
<1> DEFINE r == addjob(jobs, nextjid, p, "BG")
<1>0. /\ MaxJobs \in Nat /\ p # NoPid /\ jobs \in Table
      /\ \A i \in Slot : jobs[i].jid \in Nat
  BY MaxJobsAssumption, PidAssumption DEF Table, Job
<1>1. jobs' = r.jobs /\ nextjid' = r.nextjid
  BY DEF Add
<1>2. Added(jobs, nextjid, p, "BG", jobs', nextjid')
  BY <1>0, <1>1, AddJobEffect
<1>3. TypeOK'
  BY <1>2 DEF Table, Add, Added
<1>4. CASE FreeSlots(jobs) = {} /\ jobs' = jobs /\ nextjid' = nextjid
  <2>1. adds' = adds
    BY <1>4 DEF Add
  <2> QED
    BY <1>3, <1>4, <2>1 DEF JidsBounded, Numbered
<1>5. ASSUME NEW i \in Slot, jobs[i].pid = NoPid,
             jobs'[i] = [pid |-> p, jid |-> nextjid, state |-> "BG"],
             \A k \in Slot \ {i} : jobs'[k] = jobs[k],
             nextjid' = IF nextjid + 1 > MaxJobs THEN 1 ELSE nextjid + 1
      PROVE  IInv'
  <2>1. jobs'[i].pid = p /\ jobs'[i].jid = nextjid
    BY <1>5
  <2>2. adds' = adds + 1
    BY <1>5 DEF Add, FreeSlots
  <2>3. nextjid' <= nextjid + 1 /\ nextjid' >= 1
    BY <1>5
  <2>4. JidsBounded'
    BY <1>0, <1>5, <2>1, <2>2, <2>3 DEF JidsBounded
  <2>5. \A k \in Slot : jobs'[k].pid = NoPid <=> jobs'[k].jid = 0
    BY <1>0, <1>5, <2>1 DEF Numbered
  <2>6. ASSUME adds' <= MaxJobs, NEW k \in Slot, NEW l \in Slot, k # l,
               jobs'[k].jid = jobs'[l].jid
        PROVE  jobs'[k].jid = 0
    <3>1. \A m \in Slot : jobs[m].jid < nextjid
      BY <1>0, <2>2, <2>6 DEF Numbered
    <3>2. k # i /\ l # i
      BY <1>0, <1>5, <2>1, <2>6, <3>1
    <3> QED
      BY <1>0, <1>5, <2>2, <2>6, <3>2 DEF Numbered
  <2>7. ASSUME adds' < MaxJobs, NEW k \in Slot
        PROVE  jobs'[k].jid < nextjid'
    <3>1. jobs[k].jid < nextjid
      BY <1>0, <2>2, <2>7 DEF Numbered
    <3>2. nextjid' = nextjid + 1
      BY <1>0, <1>5, <2>2, <2>7 DEF JidsBounded
    <3> QED
      BY <1>0, <1>5, <2>1, <3>1, <3>2
  <2> QED
    BY <1>3, <2>3, <2>4, <2>5, <2>6, <2>7 DEF Numbered
<1> QED
  BY <1>2, <1>4, <1>5 DEF Added

\* deletejob keeps the invariant: nextjid follows the largest ID left.
LEMMA DeleteKeepsIInv ==
  ASSUME IInv, NEW p \in Pids, Delete(p)
  PROVE  IInv'
<1> USE DEF IInv, TypeOK
<1> DEFINE r == deletejob(jobs, nextjid, p)
           i == getjobpid(jobs, p)
<1>0. /\ p # NoPid /\ jobs \in Table
      /\ \A k \in Slot : jobs[k].jid \in Nat
  BY PidAssumption DEF Table, Job
<1>1. jobs' = r.jobs /\ nextjid' = r.nextjid
  BY DEF Delete
<1>2. i \in Slot /\ jobs[i].pid = p
  BY GetJobPid DEF Delete
<1>3. jobs' = [jobs EXCEPT ![i] = clearjob] /\ nextjid' = maxjid(jobs') + 1
  BY <1>1 DEF Delete, deletejob
<1>4. clearjob \in Job
  BY DEF clearjob, Job
<1>5. adds' = IF Listed \ {i} = {} THEN 0 ELSE adds
  BY DEF Delete
<1> HIDE DEF i, r
<1>6. /\ jobs' \in Table /\ jobs'[i] = clearjob
      /\ \A k \in Slot \ {i} : jobs'[k] = jobs[k]
  BY <1>0, <1>2, <1>3, <1>4, SlotWritten
<1>7. /\ maxjid(jobs') \in Nat
      /\ \A k \in Slot : jobs'[k].jid <= maxjid(jobs')
      /\ maxjid(jobs') = 0 \/ \E k \in Slot : jobs'[k].jid = maxjid(jobs')
  BY <1>6, MaxJid
<1>8. TypeOK'
  BY <1>3, <1>5, <1>6, <1>7 DEF Table
<1>9. jobs'[i].pid = NoPid /\ jobs'[i].jid = 0
  BY <1>6 DEF clearjob
<1>10. \A k \in Slot : jobs'[k].pid = NoPid <=> jobs'[k].jid = 0
  BY <1>6, <1>9 DEF Numbered
<1>11. \A k \in Slot : jobs'[k].jid \in Nat /\ jobs'[k].jid <= adds'
  <2>1. CASE Listed \ {i} = {}
    <3>1. \A k \in Slot \ {i} : jobs[k].pid = NoPid
      BY <2>1 DEF Listed
    <3>2. \A k \in Slot : jobs'[k].jid = 0
      BY <1>6, <1>9, <3>1 DEF Numbered
    <3> QED
      BY <1>5, <2>1, <3>2
  <2>2. CASE Listed \ {i} # {}
    BY <1>0, <1>5, <1>6, <1>9, <2>2 DEF JidsBounded
  <2> QED
    BY <2>1, <2>2
<1>12. JidsBounded'
  <2>1. maxjid(jobs') <= adds' /\ adds' \in Nat
    BY <1>7, <1>8, <1>11
  <2>2. nextjid' <= adds' + 1
    BY <1>3, <1>7, <2>1
  <2> QED
    BY <1>11, <2>2 DEF JidsBounded
<1>13. ASSUME adds' <= MaxJobs, NEW k \in Slot, NEW l \in Slot, k # l,
              jobs'[k].jid = jobs'[l].jid
       PROVE  jobs'[k].jid = 0
  <2>1. CASE k = i \/ l = i
    BY <1>9, <1>13, <2>1
  <2>2. CASE k # i /\ l # i
    <3>1. jobs'[k].jid = jobs[k].jid /\ jobs'[l].jid = jobs[l].jid
      BY <1>6, <2>2
    <3>2. CASE adds' = adds
      BY <1>13, <3>1, <3>2 DEF Numbered
    <3>3. CASE adds' = 0
      BY <1>11, <3>3
    <3> QED
      BY <1>5, <3>2, <3>3
  <2> QED
    BY <2>1, <2>2
<1>14. nextjid' >= 1 /\ \A k \in Slot : jobs'[k].jid < nextjid'
  <2> DEFINE m == maxjid(jobs')
  <2>1. m \in Nat /\ nextjid' = m + 1 /\ \A k \in Slot : jobs'[k].jid <= m
    BY <1>3, <1>7
  <2> HIDE DEF m
  <2> QED
    BY <1>11, <2>1
<1> QED
  BY <1>8, <1>10, <1>12, <1>13, <1>14 DEF Numbered

\* Every step of the numbering keeps the invariant.
LEMMA NextIInv == IInv /\ [Next]_vars => IInv'
<1> SUFFICES ASSUME IInv, [Next]_vars PROVE IInv'
  OBVIOUS
<1>1. ASSUME NEW p \in Pids, Add(p) PROVE IInv'
  BY <1>1, AddKeepsIInv
<1>2. ASSUME NEW p \in Pids, Delete(p) PROVE IInv'
  BY <1>2, DeleteKeepsIInv
<1>3. CASE UNCHANGED vars
  BY <1>3 DEF vars, IInv, TypeOK, JidsBounded, Numbered
<1> QED
  BY <1>1, <1>2, <1>3 DEF Next

\* The strengthened invariant of the numbering (types, the bound on IDs, and
\* distinct IDs below nextjid until MAXJOBS additions) always holds.
THEOREM Invariance == Spec => []IInv
BY InitIInv, NextIInv, PTL DEF Spec

\* The numbering is well typed: nextjid and every ID stay natural numbers.
THEOREM TypeCorrect == Spec => []TypeOK
<1>1. IInv => TypeOK
  BY DEF IInv
<1> QED
  BY <1>1, Invariance, PTL

\* Job IDs never exceed the number of jobs added since the list was empty
\* (addjob, deletejob), for every size of the list.
THEOREM JidsAreBounded == Spec => []JidsBounded
<1>1. IInv => JidsBounded
  BY DEF IInv
<1> QED
  BY <1>1, Invariance, PTL

\* Until MAXJOBS additions after the list was empty, getjobjid finds every
\* job by the ID it is shown with, for every size of the list.
THEOREM JidsFindJobs == Spec => []JidFindsJob
<1>1. ASSUME IInv, adds <= MaxJobs, NEW i \in Listed
      PROVE  getjobjid(jobs, jobs[i].jid) = i
  <2> DEFINE j == jobs[i].jid
             k == getjobjid(jobs, j)
  <2>1. i \in Slot /\ j \in Nat /\ j # 0
    BY <1>1 DEF IInv, TypeOK, Job, Numbered, Listed
  <2>2. k \in Slot /\ jobs[k].jid = j
    BY <2>1, GetJobJid
  <2> HIDE DEF k
  <2>3. k = i
    BY <1>1, <2>1, <2>2 DEF IInv, Numbered
  <2> QED
    BY <2>3 DEF k
<1>2. IInv => JidFindsJob
  BY <1>1 DEF JidFindsJob, FindsEach
<1> QED
  BY <1>2, Invariance, PTL
=============================================================================
