--------------------------------- MODULE Tsh ---------------------------------
(***************************************************************************)
(* The tiny shell of lab9/tsh.c: eval, do_bgfg and waitfg running as the   *)
(* main flow, the SIGCHLD, SIGINT and SIGTSTP handlers that interrupt it   *)
(* (and one another) between any two of its steps, the keyboard, and the   *)
(* child processes with the part of the kernel that starts, signals,       *)
(* stops and reaps them.                                                   *)
(*                                                                         *)
(* One step is one access to state that the other side of an interrupt can *)
(* touch.  A scan of the job list is one step: main and SIGCHLD write it,  *)
(* never both at once, and the keyboard handlers only read one slot of it. *)
(* Every job is a single process, the leader of its own process group.     *)
(***************************************************************************)
EXTENDS JobList, Sequences, SequencesExt, FiniteSets

CONSTANTS
  Builtins,  \* which of the builtin commands "fg" and "bg" the user types
  Typed,     \* which of ctrl-c ("INT") and ctrl-z ("TSTP") the user types
  JidBound   \* bound of the model: no launch once nextjid exceeds it

ASSUME BuiltinsAssumption == Builtins \subseteq {"fg", "bg"}
ASSUME TypedAssumption == Typed \subseteq {"INT", "TSTP"}
ASSUME JidBoundAssumption == JidBound \in Nat

Keyboard == {"INT", "TSTP"}
Signal == Keyboard \union {"CHLD"}

VARIABLES
  jobs, nextjid,   \* the job list and the next job ID
  pc,              \* where main is; it runs only while no handler does
  cmd,             \* the command being evaluated
  pid, job,        \* the locals of eval and do_bgfg (job is a slot)
  masked,          \* whether eval has SIGCHLD blocked
  pending,         \* signals generated for the shell, not yet delivered
  stack,           \* the handlers in progress, the running one last
  hpc, hpid,       \* each handler's program counter and local pid
  proc,            \* the state of each process
  unreported,      \* children whose stop waitpid has not returned yet
  psig,            \* keyboard signals sent to a child, not yet acted on
  status           \* "up", or how the shell ended

table == <<jobs, nextjid>>
flow == <<pc, cmd, pid, job>>
handling == <<stack, hpc, hpid>>
procs == <<proc, unreported, psig>>
vars == <<table, flow, masked, pending, handling, procs, status>>

Jobs == [Slot -> Job]
PcVal == {"read", "fork", "addjob", "unblock", "announce", "waitfg",
          "jobpid", "kill", "setstate"}
HandlerPc == {"off", "fgpid", "kill", "waitpid", "delete", "mark"}
ProcState == {"free", "forked", "grouped", "running", "stopped", "zombie"}

TypeOK ==
  /\ jobs \in Jobs /\ nextjid \in Nat
  /\ pc \in PcVal
  /\ cmd \in {"none", "FG", "BG", "fg", "bg"}
  /\ pid \in Pids \union {NoPid} /\ job \in Slot \union {NoSlot}
  /\ masked \in BOOLEAN /\ pending \subseteq Signal
  /\ stack \in Seq(Signal)
  /\ hpc \in [Signal -> HandlerPc]
  /\ hpid \in [Signal -> Pids \union {NoPid}]
  /\ proc \in [Pids -> ProcState]
  /\ unreported \subseteq Pids
  /\ psig \in [Pids -> SUBSET Keyboard]
  /\ status \in {"up", "exit", "forkerr", "killerr", "segv"}

Init ==
  /\ jobs = initjobs /\ nextjid = 1
  /\ pc = "read" /\ cmd = "none" /\ pid = NoPid /\ job = NoSlot
  /\ masked = FALSE /\ pending = {}
  /\ stack = <<>>
  /\ hpc = [s \in Signal |-> "off"]
  /\ hpid = [s \in Signal |-> NoPid]
  /\ proc = [p \in Pids |-> "free"]
  /\ unreported = {}
  /\ psig = [p \in Pids |-> {}]
  /\ status = "up"

-----------------------------------------------------------------------------
(***************************************************************************)
(* The kernel's side of kill(-p, sig).  A group exists from the child's    *)
(* own setpgid until the child is reaped; kill on any other group fails    *)
(* with ESRCH.  SIGCONT discards a pending SIGTSTP and a stop report.      *)
(***************************************************************************)
GroupExists(p) == proc[p] \notin {"free", "forked"}

SendKeyboard(p, s) ==
  /\ psig' = IF proc[p] = "zombie" THEN psig
             ELSE [psig EXCEPT ![p] = @ \union {s}]
  /\ UNCHANGED <<proc, unreported>>

SendCont(p) ==
  /\ proc' = [proc EXCEPT ![p] = IF @ = "stopped" THEN "running" ELSE @]
  /\ unreported' = unreported \ {p}
  /\ psig' = [psig EXCEPT ![p] = @ \ {"TSTP"}]

Die(p) ==
  /\ proc' = [proc EXCEPT ![p] = "zombie"]
  /\ unreported' = unreported \ {p}
  /\ psig' = [psig EXCEPT ![p] = {}]

StopNow(p) ==
  /\ proc' = [proc EXCEPT ![p] = "stopped"]
  /\ unreported' = unreported \union {p}
  /\ psig' = [psig EXCEPT ![p] = @ \ {"TSTP"}]

-----------------------------------------------------------------------------
(***************************************************************************)
(* main, eval, do_bgfg and waitfg.                                         *)
(***************************************************************************)
Main(at) == status = "up" /\ stack = <<>> /\ pc = at

Return ==  \* back to the prompt
  /\ pc' = "read" /\ cmd' = "none" /\ pid' = NoPid /\ job' = NoSlot

Goto(at) == pc' = at /\ UNCHANGED <<cmd, pid, job>>

\* Mutant: SIGCHLD is not blocked before fork.
LaunchUnblocked(s) ==
  /\ Main("read")
  /\ nextjid <= JidBound
  /\ pc' = "fork" /\ cmd' = s
  /\ UNCHANGED <<table, pid, job, masked, pending, handling, procs, status>>

\* A command line that is no builtin; s is "BG" when it ends in '&'.
Launch(s) ==
  /\ Main("read")
  /\ nextjid <= JidBound
  /\ pc' = "fork" /\ cmd' = s /\ masked' = TRUE
  /\ UNCHANGED <<table, pid, job, pending, handling, procs, status>>

Fork(p) ==
  /\ Main("fork")
  /\ proc[p] = "free"
  /\ proc' = [proc EXCEPT ![p] = "forked"]
  /\ pc' = "addjob" /\ pid' = p
  /\ UNCHANGED <<table, cmd, job, masked, pending, handling, unreported,
                 psig, status>>

ForkFails ==
  /\ Main("fork")
  /\ status' = "forkerr"
  /\ UNCHANGED <<table, flow, masked, pending, handling, procs>>

AddJob ==
  /\ Main("addjob")
  /\ LET r == addjob(jobs, nextjid, pid, cmd)
     IN jobs' = r.jobs /\ nextjid' = r.nextjid
  /\ Goto("unblock")
  /\ UNCHANGED <<masked, pending, handling, procs, status>>

Unblock ==
  /\ Main("unblock")
  /\ masked' = FALSE
  /\ Goto(IF cmd = "BG" THEN "announce" ELSE "waitfg")
  /\ UNCHANGED <<table, pending, handling, procs, status>>

\* eval prints job->jid of whatever getjobpid finds now.
Announce ==
  /\ Main("announce")
  /\ getjobpid(jobs, pid) # NoSlot
  /\ Return
  /\ UNCHANGED <<table, masked, pending, handling, procs, status>>

AnnounceNull ==
  /\ Main("announce")
  /\ getjobpid(jobs, pid) = NoSlot
  /\ status' = "segv"
  /\ UNCHANGED <<table, flow, masked, pending, handling, procs>>

\* Mutant: waitfg does not wait.
WaitfgReturnsAtOnce ==
  /\ Main("waitfg")
  /\ Return
  /\ UNCHANGED <<table, masked, pending, handling, procs, status>>

\* A round of waitfg that finds pid still in the foreground changes nothing.
WaitfgReturns ==
  /\ Main("waitfg")
  /\ pid # fgpid(jobs)
  /\ Return
  /\ UNCHANGED <<table, masked, pending, handling, procs, status>>

\* "fg %j" or "bg %j": the job is found now, its pid is read a step later.
BgFgByJid(c, j) ==
  /\ Main("read")
  /\ getjobjid(jobs, j) # NoSlot
  /\ pc' = "jobpid" /\ cmd' = c /\ job' = getjobjid(jobs, j)
  /\ UNCHANGED <<table, pid, masked, pending, handling, procs, status>>

ReadJobPid ==
  /\ Main("jobpid")
  /\ pc' = "kill" /\ pid' = jobs[job].pid
  /\ UNCHANGED <<table, cmd, job, masked, pending, handling, procs, status>>

BgFgByPid(c, p) ==
  /\ Main("read")
  /\ getjobpid(jobs, p) # NoSlot
  /\ pc' = "kill" /\ cmd' = c /\ pid' = p /\ job' = getjobpid(jobs, p)
  /\ UNCHANGED <<table, masked, pending, handling, procs, status>>

\* kill(-pid, SIGCONT).  With pid 0 the signal goes to the shell's own
\* group, in which nothing is stopped.
KillCont ==
  /\ Main("kill")
  /\ IF pid = NoPid THEN UNCHANGED procs
     ELSE GroupExists(pid) /\ SendCont(pid)
  /\ Goto("setstate")
  /\ UNCHANGED <<table, masked, pending, handling, status>>

KillContFails ==
  /\ Main("kill")
  /\ pid # NoPid /\ ~GroupExists(pid)
  /\ status' = "killerr"
  /\ UNCHANGED <<table, flow, masked, pending, handling, procs>>

SetFg ==
  /\ Main("setstate") /\ cmd = "fg"
  /\ jobs' = [jobs EXCEPT ![job].state = "FG"]
  /\ Goto("waitfg")
  /\ UNCHANGED <<nextjid, masked, pending, handling, procs, status>>

\* Mutant: the "bg" command leaves the state of the job alone.
SetBgForgets ==
  /\ Main("setstate") /\ cmd = "bg"
  /\ Return
  /\ UNCHANGED <<table, masked, pending, handling, procs, status>>

SetBg ==
  /\ Main("setstate") /\ cmd = "bg"
  /\ jobs' = [jobs EXCEPT ![job].state = "BG"]
  /\ Return
  /\ UNCHANGED <<nextjid, masked, pending, handling, procs, status>>

\* "quit", end of file, or SIGQUIT from the driver.
Quit ==
  /\ status = "up"
  /\ status' = "exit"
  /\ UNCHANGED <<table, flow, masked, pending, handling, procs>>

-----------------------------------------------------------------------------
(***************************************************************************)
(* The signal handlers.  sa_mask is empty: a handler blocks only its own   *)
(* signal, so any other one can interrupt it.                              *)
(***************************************************************************)
Handler(s, at) ==
  /\ status = "up"
  /\ stack # <<>> /\ Last(stack) = s
  /\ hpc[s] = at

Deliver(s) ==
  /\ status = "up"
  /\ s \in pending
  /\ hpc[s] = "off"
  /\ ~(s = "CHLD" /\ masked)
  /\ pending' = pending \ {s}
  /\ stack' = Append(stack, s)
  /\ hpc' = [hpc EXCEPT ![s] = IF s = "CHLD" THEN "waitpid" ELSE "fgpid"]
  /\ UNCHANGED <<table, flow, masked, hpid, procs, status>>

HandlerReturn(s) ==
  /\ stack' = Front(stack)
  /\ hpc' = [hpc EXCEPT ![s] = "off"]
  /\ hpid' = [hpid EXCEPT ![s] = NoPid]

HandlerGoto(s, at, p) ==
  /\ hpc' = [hpc EXCEPT ![s] = at]
  /\ hpid' = [hpid EXCEPT ![s] = p]
  /\ UNCHANGED stack

\* sigint_handler and sigtstp_handler.
FindFg(s) ==
  /\ Handler(s, "fgpid")
  /\ IF fgpid(jobs) = NoPid THEN HandlerReturn(s)
     ELSE HandlerGoto(s, "kill", fgpid(jobs))
  /\ UNCHANGED <<table, flow, masked, pending, procs, status>>

Forward(s) ==
  /\ Handler(s, "kill")
  /\ GroupExists(hpid[s])
  /\ SendKeyboard(hpid[s], s)
  /\ HandlerReturn(s)
  /\ UNCHANGED <<table, flow, masked, pending, status>>

ForwardFails(s) ==
  /\ Handler(s, "kill")
  /\ ~GroupExists(hpid[s])
  /\ status' = "killerr"
  /\ UNCHANGED <<table, flow, masked, pending, handling, procs>>

\* sigchld_handler: one call of waitpid, which returns any child with news.
WaitpidZombie(p) ==
  /\ Handler("CHLD", "waitpid")
  /\ proc[p] = "zombie"
  /\ proc' = [proc EXCEPT ![p] = "free"]
  /\ HandlerGoto("CHLD", "delete", p)
  /\ UNCHANGED <<table, flow, masked, pending, unreported, psig, status>>

WaitpidStopped(p) ==
  /\ Handler("CHLD", "waitpid")
  /\ p \in unreported
  /\ unreported' = unreported \ {p}
  /\ HandlerGoto("CHLD", "mark", p)
  /\ UNCHANGED <<table, flow, masked, pending, proc, psig, status>>

WaitpidNone ==
  /\ Handler("CHLD", "waitpid")
  /\ unreported = {} /\ \A p \in Pids : proc[p] # "zombie"
  /\ HandlerReturn("CHLD")
  /\ UNCHANGED <<table, flow, masked, pending, procs, status>>

\* Mutant: one waitpid for each SIGCHLD ("if" for "while").
DeleteJobOnce ==
  /\ Handler("CHLD", "delete")
  /\ LET r == deletejob(jobs, nextjid, hpid["CHLD"])
     IN jobs' = r.jobs /\ nextjid' = r.nextjid
  /\ HandlerReturn("CHLD")
  /\ UNCHANGED <<flow, masked, pending, procs, status>>

DeleteJob ==
  /\ Handler("CHLD", "delete")
  /\ LET r == deletejob(jobs, nextjid, hpid["CHLD"])
     IN jobs' = r.jobs /\ nextjid' = r.nextjid
  /\ HandlerGoto("CHLD", "waitpid", NoPid)
  /\ UNCHANGED <<flow, masked, pending, procs, status>>

\* Mutant: a stopped child is treated as one that ended.
MarkStoppedDeletes ==
  /\ Handler("CHLD", "mark")
  /\ LET r == deletejob(jobs, nextjid, hpid["CHLD"])
     IN jobs' = r.jobs /\ nextjid' = r.nextjid
  /\ HandlerGoto("CHLD", "waitpid", NoPid)
  /\ UNCHANGED <<flow, masked, pending, procs, status>>

\* Mutant: the stop is printed and not recorded.
MarkStoppedUnrecorded ==
  /\ Handler("CHLD", "mark")
  /\ getjobpid(jobs, hpid["CHLD"]) # NoSlot
  /\ HandlerGoto("CHLD", "waitpid", NoPid)
  /\ UNCHANGED <<table, flow, masked, pending, procs, status>>

MarkStopped ==
  /\ Handler("CHLD", "mark")
  /\ LET i == getjobpid(jobs, hpid["CHLD"])
     IN i # NoSlot /\ jobs' = [jobs EXCEPT ![i].state = "ST"]
  /\ HandlerGoto("CHLD", "waitpid", NoPid)
  /\ UNCHANGED <<nextjid, flow, masked, pending, procs, status>>

MarkNull ==
  /\ Handler("CHLD", "mark")
  /\ getjobpid(jobs, hpid["CHLD"]) = NoSlot
  /\ status' = "segv"
  /\ UNCHANGED <<table, flow, masked, pending, handling, procs>>

-----------------------------------------------------------------------------
(***************************************************************************)
(* The environment: ctrl-c and ctrl-z, and the children.  A child is       *)
(* "forked" before its setpgid, "grouped" until its execve and "running"   *)
(* after it.  Until execve it still has the shell's handlers, which find   *)
(* no foreground job in its copy of the job list and swallow the signal.   *)
(***************************************************************************)
Type(s) ==
  /\ status = "up"
  /\ pending' = pending \union {s}
  /\ UNCHANGED <<table, flow, masked, handling, procs, status>>

ChildAdvances(p, from, to) ==
  /\ status = "up"
  /\ proc[p] = from
  /\ proc' = [proc EXCEPT ![p] = to]
  /\ UNCHANGED <<table, flow, masked, pending, handling, unreported, psig,
                 status>>

Setpgid(p) == ChildAdvances(p, "forked", "grouped")
Exec(p) == ChildAdvances(p, "grouped", "running")

ChildSwallows(p, s) ==
  /\ status = "up"
  /\ proc[p] = "grouped" /\ s \in psig[p]
  /\ psig' = [psig EXCEPT ![p] = @ \ {s}]
  /\ UNCHANGED <<table, flow, masked, pending, handling, proc, unreported,
                 status>>

\* A running child acts on SIGINT, or ends by itself (or by a failed execve).
ChildDies(p) ==
  /\ status = "up"
  /\ proc[p] \in {"grouped", "running"}
  /\ Die(p)
  /\ pending' = pending \union {"CHLD"}
  /\ UNCHANGED <<table, flow, masked, handling, status>>

\* A running child acts on SIGTSTP, or stops itself as mystop.c does.
ChildStops(p) ==
  /\ status = "up"
  /\ proc[p] = "running"
  /\ StopNow(p)
  /\ pending' = pending \union {"CHLD"}
  /\ UNCHANGED <<table, flow, masked, handling, status>>

-----------------------------------------------------------------------------
MainStep ==
  \/ \E p \in Pids : Fork(p)
  \/ ForkFails \/ AddJob \/ Unblock \/ Announce \/ AnnounceNull
  \/ WaitfgReturns \/ ReadJobPid \/ KillCont \/ KillContFails
  \/ SetFg \/ SetBg

Command ==
  \/ \E s \in {"FG", "BG"} : Launch(s)
  \/ \E c \in Builtins, j \in 1 .. JidBound : BgFgByJid(c, j)
  \/ \E c \in Builtins, p \in Pids : BgFgByPid(c, p)
  \/ Quit

KeyboardHandler(s) == FindFg(s) \/ Forward(s) \/ ForwardFails(s)

ChildHandler ==
  \/ \E p \in Pids : WaitpidZombie(p) \/ WaitpidStopped(p)
  \/ WaitpidNone \/ DeleteJob \/ MarkStopped \/ MarkNull

HandlerStep == ChildHandler \/ \E s \in Keyboard : KeyboardHandler(s)

Child(p) ==
  \/ Setpgid(p) \/ Exec(p) \/ ChildDies(p) \/ ChildStops(p)
  \/ \E s \in Keyboard : ChildSwallows(p, s)

Terminated == status # "up" /\ UNCHANGED vars

Next ==
  \/ MainStep \/ Command \/ HandlerStep
  \/ \E s \in Signal : Deliver(s)
  \/ \E s \in Typed : Type(s)
  \/ \E p \in Pids : Child(p)
  \/ Terminated

Spec == Init /\ [][Next]_vars

(***************************************************************************)
(* The same shell on which no SIGCHLD is delivered in the middle of an     *)
(* "fg" or "bg" command: the block that eval puts round fork and addjob    *)
(* and do_bgfg does not put round its own steps.                           *)
(***************************************************************************)
InBgFg == pc \in {"jobpid", "kill", "setstate"}

NextHeld ==
  \/ MainStep \/ Command \/ HandlerStep
  \/ \E s \in Signal : ~(s = "CHLD" /\ InBgFg) /\ Deliver(s)
  \/ \E s \in Typed : Type(s)
  \/ \E p \in Pids : Child(p)
  \/ Terminated

SpecHeld == Init /\ [][NextHeld]_vars

(***************************************************************************)
(* Main, each handler and the delivery of each signal get to run again and *)
(* again, however fast keys are typed or children change: a keystroke      *)
(* costs the kernel and the user more than a handler's few instructions.   *)
(* Nothing is asked of the user or of the children.                        *)
(***************************************************************************)
Fairness ==
  /\ SF_vars(MainStep)
  /\ SF_vars(ChildHandler)
  /\ \A s \in Keyboard : SF_vars(KeyboardHandler(s))
  /\ \A s \in Signal : SF_vars(Deliver(s))

FairSpec == Spec /\ Fairness
FairSpecHeld == SpecHeld /\ Fairness

-----------------------------------------------------------------------------
(***************************************************************************)
(* What the table says and what is so.                                     *)
(***************************************************************************)
SlotsOf(p) == {i \in Slot : jobs[i].pid = p}
Listed(p) == SlotsOf(p) # {}
Live(p) == proc[p] # "free"
BeingMarked(p) == hpc["CHLD"] = "mark" /\ hpid["CHLD"] = p

\* Every process on the job list is a child the shell has not reaped, but
\* for the one sigchld_handler is about to delete: the SIGCHLD block of
\* eval keeps addjob from listing a child that is already gone.
ListedAlive ==
  \A p \in Pids :
    Listed(p) => Live(p) \/ (hpc["CHLD"] = "delete" /\ hpid["CHLD"] = p)

\* No process has two slots, and listjobs never meets a listed job without
\* a state (its "Internal error").
ListedOnce ==
  \A i \in Slot : jobs[i].pid # NoPid =>
    SlotsOf(jobs[i].pid) = {i} /\ jobs[i].state # "UNDEF"

\* While every process fits the list no child is lost: one that is not
\* reaped is listed, or addjob is about to list it, so that "fg", "bg" and
\* the handlers can find it.
Tracked ==
  Cardinality(Pids) <= MaxJobs =>
    \A p \in Pids :
      Live(p) => Listed(p) \/ (pc = "addjob" /\ pid = p)

\* A job shown as Stopped does not run, except between the kill and the
\* state change of the do_bgfg that restarts it.
StoppedIsStopped ==
  \A i \in Slot :
    /\ jobs[i].state = "ST" /\ jobs[i].pid # NoPid
    /\ proc[jobs[i].pid] \in {"forked", "grouped", "running"}
    => pc = "setstate" /\ job = i

\* Once waitpid has reported the stop of a job and sigchld_handler has
\* recorded it, the job is shown as Stopped for as long as it is.
StopsShown ==
  \A p \in Pids :
    proc[p] = "stopped" /\ p \notin unreported /\ ~BeingMarked(p)
    => \A i \in SlotsOf(p) : jobs[i].state = "ST"

\* At most one job is in the foreground.
AtMostOneFG == Cardinality(FgSlots(jobs)) <= 1

\* The shell is at its prompt only when no job is in the foreground, and
\* waits only for the job that is.
PromptFree ==
  /\ pc = "read" => FgSlots(jobs) = {}
  /\ pc = "waitfg" => \A i \in FgSlots(jobs) : jobs[i].pid = pid

\* ctrl-c and ctrl-z never reach a background job, although handlers nest
\* and may act on what an interrupted one has read.
BackgroundSpared ==
  [][\A i \in Slot : jobs[i].state = "BG" /\ jobs[i].pid # NoPid =>
       psig'[jobs[i].pid] \subseteq psig[jobs[i].pid]]_vars

\* Signals are not counted and may be held back, and yet sigchld_handler
\* gets round to every child that has ended or stopped.
NewsHandled ==
  \A p \in Pids :
    proc[p] = "zombie" \/ p \in unreported
    ~> (proc[p] # "zombie" /\ p \notin unreported) \/ status # "up"

\* waitfg does not wait for a job that has ended or stopped.
WaitReturns ==
  pc = "waitfg" /\ (pid = NoPid \/ ~(proc[pid] \in {"forked", "grouped", "running"}))
  ~> pc # "waitfg" \/ status # "up"

(***************************************************************************)
(* The job list, read as the states that JobControl speaks of.             *)
(***************************************************************************)
modeOf == [p \in Pids |->
             IF Listed(p) THEN jobs[getjobpid(jobs, p)].state ELSE "none"]

JC == INSTANCE JobControl WITH
        Room <- MaxJobs, mode <- modeOf, prompt <- pc = "read"

\* With SIGCHLD held back over "fg" and "bg", every step of the shell is a
\* transition of the table at the head of the source, or none.
Promise == JC!Spec
=============================================================================
