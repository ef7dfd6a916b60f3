---------------------------- MODULE JobListProofs ----------------------------
(***************************************************************************)
(* Lemmas about the helpers of the job list: what the searches return, and *)
(* that addjob and deletejob keep a table a table.                         *)
(***************************************************************************)
EXTENDS JobList, FiniteSetTheorems, WellFoundedInduction, TLAPS

\* A nonempty set of naturals has a least member.
LEMMA LeastNat ==
  ASSUME NEW S \in SUBSET Nat, S # {}
  PROVE  \E x \in S : \A y \in S : x <= y
<1> DEFINE R == {ss \in Nat \X Nat : ss[1] < ss[2]}
<1>1. IsWellFoundedOn(R, Nat)
  BY NatLessThanWellFounded, Zenon DEF OpToRel
<1> HIDE DEF R
<1>2. PICK x \in S : \A y \in S : ~(<<y, x>> \in R)
  <2>1. S \subseteq Nat
    OBVIOUS
  <2> QED
    BY <1>1, <2>1, WFMin, Zenon
<1>3. ASSUME NEW y \in S PROVE x <= y
  <2>1. x \in Nat /\ y \in Nat
    OBVIOUS
  <2>2. y < x => <<y, x>> \in R
    BY <2>1 DEF R
  <2> QED
    BY <1>2, <2>1, <2>2
<1> QED
  BY <1>3

\* The Min of a nonempty set of slots is its first one: what a scan finds.
LEMMA MinOfSlots ==
  ASSUME NEW S \in SUBSET Slot, S # {}
  PROVE  Min(S) \in S /\ \A i \in S : Min(S) <= i
<1>1. \E x \in S : \A y \in S : x <= y
  BY LeastNat, MaxJobsAssumption DEF Slot
<1> QED
  BY <1>1, Zenon DEF Min

Table == [Slot -> Job]

\* The IDs of a table have an upper bound: otherwise there is a least k such
\* that those of the first k slots have none.
LEMMA JidsHaveBound ==
  ASSUME NEW t \in Table
  PROVE  \E n \in Nat : \A i \in Slot : t[i].jid <= n
<1> DEFINE B == {k \in 0 .. MaxJobs :
                   \A n \in Nat : \E i \in 1 .. k : ~(t[i].jid <= n)}
<1>0. MaxJobs \in Nat /\ \A i \in Slot : t[i].jid \in Nat
  BY MaxJobsAssumption DEF Table, Job
<1>1. SUFFICES B = {}
  BY <1>0 DEF Slot
<1>2. SUFFICES ASSUME B # {} PROVE FALSE
  OBVIOUS
<1> B \in SUBSET Nat
  BY <1>0
<1> HIDE DEF B
<1>3. PICK k \in B : \A l \in B : k <= l
  BY <1>2, LeastNat
<1>4. k \in 0 .. MaxJobs /\ k # 0
  BY DEF B
<1>5. k - 1 \in 0 .. MaxJobs /\ k - 1 \notin B
  <2>1. k - 1 \in 0 .. MaxJobs /\ ~(k <= k - 1)
    BY <1>0, <1>4
  <2> QED
    BY <1>3, <2>1
<1>6. PICK n \in Nat : \A i \in 1 .. (k - 1) : t[i].jid <= n
  BY <1>5 DEF B
<1>7. t[k].jid \in Nat
  BY <1>0, <1>4 DEF Slot
<1> DEFINE m == n + t[k].jid
<1>8. m \in Nat /\ n <= m /\ t[k].jid <= m
  BY <1>7
<1>9. \A i \in 1 .. k : t[i].jid <= m
  <2> SUFFICES ASSUME NEW i \in 1 .. k PROVE t[i].jid <= m
    OBVIOUS
  <2>1. CASE i = k
    BY <1>8, <2>1
  <2>2. CASE i # k
    <3>1. i \in 1 .. (k - 1) /\ i \in Slot
      BY <1>0, <1>4, <2>2 DEF Slot
    <3>2. t[i].jid <= n /\ t[i].jid \in Nat
      BY <1>0, <1>6, <3>1
    <3> QED
      BY <1>8, <3>2
  <2> QED
    BY <2>1, <2>2
<1> QED
  BY <1>8, <1>9 DEF B

\* maxjid returns 0 or an ID of the table, and none is larger.
LEMMA MaxJid ==
  ASSUME NEW t \in Table
  PROVE  /\ maxjid(t) \in Nat
         /\ \A i \in Slot : t[i].jid <= maxjid(t)
         /\ maxjid(t) = 0 \/ \E i \in Slot : t[i].jid = maxjid(t)
<1> DEFINE J == {0} \union {t[i].jid : i \in Slot}
           U == {n \in Nat : \A i \in Slot : t[i].jid <= n}
<1>1. J \in SUBSET Nat
  BY DEF Table, Job
<1>2. PICK n \in U : \A u \in U : n <= u
  BY JidsHaveBound, LeastNat
<1>3. n \in J
  <2>1. CASE n = 0
    BY <2>1
  <2>2. CASE n # 0
    <3>1. n - 1 \in Nat /\ n - 1 \notin U
      BY <1>2, <2>2
    <3>2. PICK i \in Slot : ~(t[i].jid <= n - 1)
      BY <3>1
    <3>3. t[i].jid \in Nat /\ t[i].jid <= n
      BY <1>1
    <3> QED
      BY <3>2, <3>3
  <2> QED
    BY <2>1, <2>2
<1>4. \A j \in J : n >= j
  BY <1>1
<1>5. \E x \in J : \A y \in J : x >= y
  BY <1>3, <1>4
<1>6. Max(J) \in J /\ \A y \in J : Max(J) >= y
  BY <1>5, Zenon DEF Max
<1>7. maxjid(t) = Max(J)
  BY DEF maxjid
<1> HIDE DEF J
<1>8. Max(J) \in Nat
  BY <1>1, <1>6
<1>9. \A i \in Slot : t[i].jid \in J
  BY DEF J
<1>10. \A i \in Slot : t[i].jid <= Max(J)
  BY <1>1, <1>6, <1>8, <1>9
<1>11. Max(J) = 0 \/ \E i \in Slot : t[i].jid = Max(J)
  BY <1>6 DEF J
<1> QED
  BY <1>7, <1>8, <1>10, <1>11

-----------------------------------------------------------------------------
\* The NULL of a failed search is no slot.
LEMMA NoSlotOutside == NoSlot \notin Slot
BY MaxJobsAssumption DEF Slot, NoSlot

\* FirstOf returns a member of a set of slots, or NoSlot if there is none.
LEMMA FirstOfSlots ==
  ASSUME NEW S \in SUBSET Slot
  PROVE  /\ FirstOf(S) \in Slot => FirstOf(S) \in S
         /\ S # {} => FirstOf(S) \in S
         /\ S = {} => FirstOf(S) = NoSlot
<1>1. CASE S = {}
  BY <1>1, NoSlotOutside DEF FirstOf
<1>2. CASE S # {}
  BY <1>2, MinOfSlots DEF FirstOf
<1> QED
  BY <1>1, <1>2

\* A search by process ID finds a slot of that process, or there is none.
LEMMA GetJobPid ==
  ASSUME NEW t, NEW p
  PROVE  \/ /\ getjobpid(t, p) \in Slot
            /\ p # NoPid /\ t[getjobpid(t, p)].pid = p
         \/ /\ getjobpid(t, p) = NoSlot
            /\ p # NoPid => \A i \in Slot : t[i].pid # p
<1> DEFINE S == {i \in Slot : p # NoPid /\ t[i].pid = p}
<1>1. getjobpid(t, p) = FirstOf(S)
  BY DEF getjobpid
<1>2. CASE S = {}
  BY <1>1, <1>2, FirstOfSlots
<1>3. CASE S # {}
  <2>1. FirstOf(S) \in S
    BY <1>3, FirstOfSlots
  <2> QED
    BY <1>1, <2>1
<1> QED
  BY <1>2, <1>3

\* A search by job ID finds a slot with that ID.
LEMMA GetJobJid ==
  ASSUME NEW t, NEW j
  PROVE  \/ /\ getjobjid(t, j) \in Slot
            /\ j >= 1 /\ t[getjobjid(t, j)].jid = j
         \/ /\ getjobjid(t, j) = NoSlot
            /\ j >= 1 => \A i \in Slot : t[i].jid # j
<1> DEFINE S == {i \in Slot : j >= 1 /\ t[i].jid = j}
<1>1. getjobjid(t, j) = FirstOf(S)
  BY DEF getjobjid
<1>2. CASE S = {}
  BY <1>1, <1>2, FirstOfSlots
<1>3. CASE S # {}
  <2>1. FirstOf(S) \in S
    BY <1>3, FirstOfSlots
  <2> QED
    BY <1>1, <2>1
<1> QED
  BY <1>2, <1>3

\* fgpid returns the pid of a slot in state FG, or there is none.
LEMMA FgPid ==
  ASSUME NEW t
  PROVE  \/ \E i \in Slot : t[i].state = "FG" /\ fgpid(t) = t[i].pid
         \/ FgSlots(t) = {} /\ fgpid(t) = NoPid
<1>1. FgSlots(t) \in SUBSET Slot
  BY DEF FgSlots
<1> QED
  BY <1>1, MinOfSlots DEF fgpid, FgSlots

\* Writing one slot of a table gives a table.
LEMMA SlotWritten ==
  ASSUME NEW t \in Table, NEW i \in Slot, NEW e \in Job
  PROVE  /\ [t EXCEPT ![i] = e] \in Table
         /\ [t EXCEPT ![i] = e][i] = e
         /\ \A k \in Slot \ {i} : [t EXCEPT ![i] = e][k] = t[k]
BY DEF Table

\* Writing the state of a slot changes nothing else: what u is to t.
StateSet(t, i, v, u) ==
  /\ u \in Table
  /\ u[i].state = v /\ u[i].pid = t[i].pid /\ u[i].jid = t[i].jid
  /\ \A k \in Slot \ {i} : u[k] = t[k]

\* Writing the state of one slot changes nothing else in the table.
LEMMA StateWritten ==
  ASSUME NEW t \in Table, NEW i \in Slot, NEW v \in {"FG", "BG", "ST"}
  PROVE  StateSet(t, i, v, [t EXCEPT ![i].state = v])
<1> DEFINE e == [t[i] EXCEPT !.state = v]
<1>1. /\ t[i] \in Job
      /\ [t EXCEPT ![i].state = v] = [t EXCEPT ![i] = e]
  BY DEF Table
<1>2. e \in Job /\ e.state = v /\ e.pid = t[i].pid /\ e.jid = t[i].jid
  BY <1>1 DEF Job
<1> HIDE DEF e
<1> DEFINE u == [t EXCEPT ![i] = e]
<1>3. u \in Table /\ u[i] = e /\ \A k \in Slot \ {i} : u[k] = t[k]
  BY <1>2, SlotWritten
<1> HIDE DEF u
<1>4. StateSet(t, i, v, u)
  BY <1>2, <1>3 DEF StateSet
<1> QED
  BY <1>1, <1>4 DEF u

\* addjob writes one slot that had no pid, or the table is full: what u and
\* m are to t and n.
Added(t, n, p, s, u, m) ==
  /\ u \in Table /\ m \in Nat
  /\ \/ FreeSlots(t) = {} /\ u = t /\ m = n
     \/ \E i \in Slot :
          /\ t[i].pid = NoPid
          /\ u[i] = [pid |-> p, jid |-> n, state |-> s]
          /\ \A k \in Slot \ {i} : u[k] = t[k]
          /\ m = IF n + 1 > MaxJobs THEN 1 ELSE n + 1

\* addjob leaves a full table alone, or fills one free slot.
LEMMA AddJobEffect ==
  ASSUME NEW t \in Table, NEW n \in Nat, NEW p \in Pids,
         NEW s \in {"FG", "BG"}
  PROVE  Added(t, n, p, s, addjob(t, n, p, s).jobs, addjob(t, n, p, s).nextjid)
<1> DEFINE e == [pid |-> p, jid |-> n, state |-> s]
           r == addjob(t, n, p, s)
<1>1. p # NoPid /\ FreeSlots(t) \in SUBSET Slot
  BY PidAssumption DEF FreeSlots
<1>2. CASE FreeSlots(t) = {}
  BY <1>2 DEF addjob, Added
<1>3. CASE FreeSlots(t) # {}
  <2> DEFINE i == Min(FreeSlots(t))
  <2>1. i \in Slot /\ t[i].pid = NoPid
    BY <1>1, <1>3, MinOfSlots DEF FreeSlots
  <2>2. e \in Job
    BY DEF Job
  <2>3. /\ r.jobs = [t EXCEPT ![i] = e]
        /\ r.nextjid = IF n + 1 > MaxJobs THEN 1 ELSE n + 1
    BY <1>1, <1>3 DEF addjob
  <2> HIDE DEF i, e, r
  <2>4. /\ r.jobs \in Table /\ r.jobs[i] = e
        /\ \A k \in Slot \ {i} : r.jobs[k] = t[k]
    BY <2>1, <2>2, <2>3, SlotWritten
  <2>5. r.nextjid \in Nat
    BY <2>3
  <2>6. Added(t, n, p, s, r.jobs, r.nextjid)
    BY <2>1, <2>3, <2>4, <2>5 DEF e, Added
  <2> QED
    BY <2>6 DEF r
<1> QED
  BY <1>2, <1>3

\* deletejob clears the slot of the process and puts nextjid after the
\* largest ID left, or the process is not listed.
Deleted(t, n, p, u, m) ==
  /\ u \in Table /\ m \in Nat
  /\ \/ /\ p # NoPid => \A i \in Slot : t[i].pid # p
        /\ u = t /\ m = n
     \/ \E i \in Slot :
          /\ p # NoPid /\ t[i].pid = p
          /\ u[i] = clearjob
          /\ \A k \in Slot \ {i} : u[k] = t[k]
          /\ m = maxjid(u) + 1

\* deletejob leaves the table alone, or clears one slot of the process and
\* puts nextjid after the IDs left.
LEMMA DeleteJobEffect ==
  ASSUME NEW t \in Table, NEW n \in Nat, NEW p
  PROVE  Deleted(t, n, p, deletejob(t, n, p).jobs, deletejob(t, n, p).nextjid)
<1> DEFINE i == getjobpid(t, p)
           r == deletejob(t, n, p)
<1>1. CASE i = NoSlot
  <2>1. p # NoPid => \A k \in Slot : t[k].pid # p
    BY <1>1, GetJobPid, NoSlotOutside
  <2>2. r.jobs = t /\ r.nextjid = n
    BY <1>1 DEF deletejob
  <2> QED
    BY <2>1, <2>2 DEF Deleted
<1>2. CASE i # NoSlot
  <2>1. i \in Slot /\ p # NoPid /\ t[i].pid = p
    BY <1>2, GetJobPid
  <2>2. clearjob \in Job
    BY DEF clearjob, Job
  <2>3. r.jobs = [t EXCEPT ![i] = clearjob] /\ r.nextjid = maxjid(r.jobs) + 1
    BY <1>2 DEF deletejob
  <2> HIDE DEF i, r
  <2>4. /\ r.jobs \in Table /\ r.jobs[i] = clearjob
        /\ \A k \in Slot \ {i} : r.jobs[k] = t[k]
    BY <2>1, <2>2, <2>3, SlotWritten
  <2>5. r.nextjid \in Nat
    BY <2>3, <2>4, MaxJid
  <2>6. Deleted(t, n, p, r.jobs, r.nextjid)
    BY <2>1, <2>3, <2>4, <2>5 DEF Deleted
  <2> QED
    BY <2>6 DEF r
<1> QED
  BY <1>1, <1>2

\* The processes of a table in which none has two slots fill as many slots
\* as there are of them: fewer than all while one is free.
LEMMA SlotsCounted ==
  ASSUME NEW t \in Table,
         \A i, k \in Slot : t[i].pid = t[k].pid /\ t[i].pid # NoPid => i = k
  PROVE  LET L == {p \in Pids : \E i \in Slot : t[i].pid = p}
         IN  /\ IsFiniteSet(L) /\ Cardinality(L) \in Nat
             /\ Cardinality(L) < MaxJobs <=> FreeSlots(t) # {}
             /\ Cardinality(L) <= MaxJobs
<1> DEFINE L == {p \in Pids : \E i \in Slot : t[i].pid = p}
           S == Slot \ FreeSlots(t)
           f == [i \in S |-> t[i].pid]
<1>1. IsFiniteSet(Slot) /\ Cardinality(Slot) = MaxJobs
  BY FS_Interval, MaxJobsAssumption DEF Slot
<1>2. /\ IsFiniteSet(S) /\ Cardinality(S) <= MaxJobs
      /\ Cardinality(S) = MaxJobs => S = Slot
  BY <1>1, FS_Subset
<1>3. \A i \in Slot : i \in S <=> t[i].pid # NoPid
  BY DEF FreeSlots
<1>4. f \in Bijection(S, L)
  <2>1. f \in [S -> L]
    BY <1>3 DEF Table, Job
  <2>2. \A a, b \in S : f[a] = f[b] => a = b
    BY <1>3
  <2>3. \A p \in L : \E a \in S : f[a] = p
    BY <1>3, PidAssumption
  <2> QED
    BY <2>1, <2>2, <2>3 DEF Bijection, Injection, Surjection, IsInjective
<1>5. IsFiniteSet(L) /\ Cardinality(L) = Cardinality(S)
  <2>1. ExistsBijection(S, L)
    BY <1>4 DEF ExistsBijection
  <2> QED
    BY <1>2, <2>1, FS_Bijection
<1>6. Cardinality(L) \in Nat
  BY <1>5, FS_CardinalityType
<1>7. S = Slot <=> FreeSlots(t) = {}
  BY DEF FreeSlots
<1>8. Cardinality(L) < MaxJobs <=> FreeSlots(t) # {}
  <2> HIDE DEF L, S
  <2>1. Cardinality(S) \in Nat
    BY <1>2, FS_CardinalityType
  <2> QED
    BY <1>1, <1>2, <1>5, <1>7, <2>1, MaxJobsAssumption
<1> QED
  BY <1>2, <1>5, <1>6, <1>8
=============================================================================
