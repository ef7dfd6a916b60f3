------------------------------ MODULE TshProofs ------------------------------
(***************************************************************************)
(* Proofs about the tiny shell: its state is well typed, and the job list  *)
(* holds live children only, each once, whatever the number of processes,  *)
(* the size of the list and the interleaving of handlers.                  *)
(***************************************************************************)
EXTENDS Tsh, JobListProofs, SequenceTheorems

(***************************************************************************)
(* The handlers in progress are the elements of the stack, each once.      *)
(***************************************************************************)
StackOK(stk, h) ==
  /\ stk \in Seq(Signal)
  /\ h \in [Signal -> HandlerPc]
  /\ \A s \in Signal : h[s] # "off" <=> \E i \in 1 .. Len(stk) : stk[i] = s
  /\ \A i, j \in 1 .. Len(stk) : stk[i] = stk[j] => i = j

\* With no handler on the stack every handler is off.
LEMMA EmptyStack ==
  ASSUME NEW h, StackOK(<<>>, h)
  PROVE  \A s \in Signal : h[s] = "off"
BY DEF StackOK

\* Delivering a signal whose handler is off keeps the stack a list of distinct
\* handlers, those in progress.
LEMMA Push ==
  ASSUME NEW stk, NEW h, StackOK(stk, h), NEW s \in Signal, h[s] = "off",
         NEW v \in HandlerPc \ {"off"}
  PROVE  StackOK(Append(stk, s), [h EXCEPT ![s] = v])
<1> DEFINE t == Append(stk, s)
           g == [h EXCEPT ![s] = v]
<1>1. /\ t \in Seq(Signal) /\ Len(t) = Len(stk) + 1
      /\ \A i \in 1 .. Len(stk) : t[i] = stk[i]
      /\ t[Len(stk) + 1] = s
  BY AppendProperties DEF StackOK
<1>2. g \in [Signal -> HandlerPc]
  BY DEF StackOK
<1>3. g[s] = v /\ \A r \in Signal \ {s} : g[r] = h[r]
  BY DEF StackOK
<1>4. Len(stk) \in Nat
  BY DEF StackOK
<1> HIDE DEF t, g
<1>5. \A i \in 1 .. Len(stk) : stk[i] # s
  BY DEF StackOK
<1>6. ASSUME NEW r \in Signal
      PROVE  g[r] # "off" <=> \E i \in 1 .. Len(t) : t[i] = r
  <2>1. CASE r = s
    <3>1. Len(t) \in 1 .. Len(t) /\ t[Len(t)] = r
      BY <1>1, <1>4, <2>1
    <3>2. g[r] # "off"
      BY <1>3, <2>1
    <3> QED
      BY <3>1, <3>2
  <2>2. CASE r # s
    <3>1. (\E i \in 1 .. Len(t) : t[i] = r) <=> \E i \in 1 .. Len(stk) : stk[i] = r
      BY <1>1, <1>4, <2>2
    <3>2. g[r] = h[r]
      BY <1>3, <2>2
    <3> QED
      BY <3>1, <3>2 DEF StackOK
  <2> QED
    BY <2>1, <2>2
<1>7. ASSUME NEW i \in 1 .. Len(t), NEW j \in 1 .. Len(t), t[i] = t[j]
      PROVE  i = j
  <2>1. CASE i \in 1 .. Len(stk) /\ j \in 1 .. Len(stk)
    <3>1. stk[i] = stk[j]
      BY <1>1, <1>7, <2>1
    <3> QED
      BY <2>1, <3>1 DEF StackOK
  <2>2. CASE i = Len(stk) + 1 \/ j = Len(stk) + 1
    BY <1>1, <1>4, <1>5, <1>7, <2>2
  <2> QED
    BY <1>1, <1>4, <2>1, <2>2
<1>8. StackOK(t, g)
  BY <1>1, <1>2, <1>6, <1>7 DEF StackOK
<1> QED
  BY <1>8 DEF t, g

\* The return of the running handler keeps it so.
LEMMA Pop ==
  ASSUME NEW stk, NEW h, StackOK(stk, h), stk # <<>>, NEW s, Last(stk) = s
  PROVE  StackOK(Front(stk), [h EXCEPT ![s] = "off"]) /\ s \in Signal
<1> DEFINE t == Front(stk)
           g == [h EXCEPT ![s] = "off"]
           n == Len(stk)
<1>1. n \in Nat /\ n # 0 /\ stk[n] = s
  BY EmptySeq DEF StackOK, Last
<1>2. s \in Signal /\ \A i \in 1 .. n : stk[i] \in Signal
  BY <1>1 DEF StackOK
<1>3. /\ t \in Seq(Signal) /\ Len(t) = n - 1
      /\ \A i \in 1 .. (n - 1) : t[i] = stk[i]
  <2>1. \A i \in 1 .. (n - 1) : stk[i] \in Signal
    BY <1>1, <1>2
  <2> HIDE DEF n
  <2>0. t = SubSeq(stk, 1, n - 1)
    BY DEF Front, n
  <2>2. /\ n - 1 \in Nat
        /\ \A i \in 1 .. (n - 1) : 1 + i - 1 = i
        /\ n - 1 - 1 + 1 = n - 1
        /\ (IF 1 <= n - 1 THEN n - 1 - 1 + 1 ELSE 0) = n - 1
    BY <1>1
  <2> HIDE DEF t
  <2>3. /\ t \in Seq(Signal)
        /\ Len(t) = IF 1 <= n - 1 THEN n - 1 - 1 + 1 ELSE 0
        /\ \A i \in 1 .. (n - 1 - 1 + 1) : t[i] = stk[1 + i - 1]
    BY <2>0, <2>1, <2>2, SubSeqProperties
  <2> QED
    BY <2>2, <2>3
<1>4. /\ g \in [Signal -> HandlerPc]
      /\ g[s] = "off" /\ \A r \in Signal \ {s} : g[r] = h[r]
  BY <1>2 DEF StackOK, HandlerPc
<1> HIDE DEF t, g, n
<1>5. \A i \in 1 .. (n - 1) : stk[i] # s
  BY <1>1 DEF StackOK, n
<1>6. ASSUME NEW r \in Signal
      PROVE  g[r] # "off" <=> \E i \in 1 .. Len(t) : t[i] = r
  <2>1. CASE r = s
    BY <1>3, <1>4, <1>5, <2>1
  <2>2. CASE r # s
    <3>1. (\E i \in 1 .. Len(t) : t[i] = r) <=> \E i \in 1 .. n : stk[i] = r
      BY <1>1, <1>3, <2>2
    <3> QED
      BY <1>4, <2>2, <3>1 DEF StackOK, n
  <2> QED
    BY <2>1, <2>2
<1>7. \A i, j \in 1 .. Len(t) : t[i] = t[j] => i = j
  BY <1>1, <1>3 DEF StackOK, n
<1>8. StackOK(t, g)
  BY <1>3, <1>4, <1>6, <1>7 DEF StackOK
<1> QED
  BY <1>2, <1>8 DEF t, g

\* A step of the running handler to another of its points keeps it so.
LEMMA Move ==
  ASSUME NEW stk, NEW h, StackOK(stk, h), stk # <<>>, NEW s, Last(stk) = s,
         NEW v \in HandlerPc \ {"off"}
  PROVE  StackOK(stk, [h EXCEPT ![s] = v]) /\ s \in Signal
<1> DEFINE g == [h EXCEPT ![s] = v]
           n == Len(stk)
<1>1. n \in Nat /\ n # 0 /\ stk[n] = s
  BY EmptySeq DEF StackOK, Last
<1>2. s \in Signal /\ h[s] # "off"
  BY <1>1 DEF StackOK
<1>3. g \in [Signal -> HandlerPc] /\ \A r \in Signal : g[r] # "off" <=> h[r] # "off"
  BY <1>2 DEF StackOK
<1> HIDE DEF g
<1>4. StackOK(stk, g)
  BY <1>3 DEF StackOK
<1> QED
  BY <1>2, <1>4 DEF g

-----------------------------------------------------------------------------
(***************************************************************************)
(* What main and the handlers know of their own progress.                  *)
(***************************************************************************)
Control ==
  /\ masked <=> pc \in {"fork", "addjob", "unblock"}
  /\ masked => cmd \in {"FG", "BG"}
  /\ pc = "addjob" => pid \in Pids
  /\ InBgFg => job \in Slot

Handlers ==
  /\ StackOK(stack, hpc)
  /\ hpc["CHLD"] \in {"off", "waitpid", "delete", "mark"}
  /\ masked => hpc["CHLD"] = "off"

Base == TypeOK /\ Control /\ Handlers

\* The shell starts in a state that satisfies Base.
LEMMA InitBase == Init => Base
<1> SUFFICES ASSUME Init PROVE Base
  OBVIOUS
<1>1. clearjob \in Job
  BY DEF clearjob, Job
<1>2. stack \in Seq(Signal) /\ Len(stack) = 0
  BY EmptySeq DEF Init
<1>3. TypeOK
  BY <1>1, <1>2 DEF Init, TypeOK, Jobs, initjobs, PcVal, HandlerPc, ProcState
<1>4. Control
  BY DEF Init, Control, InBgFg
<1>5. Handlers
  BY <1>2 DEF Init, Handlers, StackOK, HandlerPc, Signal, Keyboard
<1> QED
  BY <1>3, <1>4, <1>5 DEF Base

\* Handlers depends on nothing but the stack and the program counters.
LEMMA HandlersStay ==
  ASSUME Handlers, UNCHANGED handling, masked' => masked
  PROVE  Handlers'
BY DEF Handlers, handling

\* With no handler in progress SIGCHLD's is off.
LEMMA ChldOff ==
  ASSUME Handlers, stack = <<>>
  PROVE  hpc["CHLD"] = "off"
BY EmptyStack DEF Handlers, Signal

\* Reading the command line of a job keeps Base.
LEMMA LaunchKeepsBase ==
  ASSUME Base, NEW s \in {"FG", "BG"}, Launch(s)
  PROVE  Base'
<1>1. TypeOK' /\ Control'
  BY DEF Base, TypeOK, Control, Launch, InBgFg, PcVal, table, handling, procs
<1>2. Handlers'
  BY ChldOff DEF Base, Handlers, Launch, Main, handling
<1> QED
  BY <1>1, <1>2 DEF Base

\* The steps of eval, do_bgfg and waitfg keep Base.
LEMMA MainKeepsBase ==
  ASSUME Base, MainStep
  PROVE  Base'
<1> USE DEF TypeOK, Control, InBgFg, PcVal, table, flow, handling, procs,
            Main, Return, Goto
<1>0. TypeOK /\ Control /\ Handlers
  BY DEF Base
<1>1. ASSUME NEW p \in Pids, Fork(p) PROVE TypeOK' /\ Control'
  <2>1. proc' \in [Pids -> ProcState]
    BY <1>0, <1>1 DEF Fork, ProcState
  <2>2. TypeOK'
    BY <1>0, <1>1, <2>1 DEF Fork
  <2>3. Control'
    BY <1>0, <1>1 DEF Fork
  <2> QED
    BY <2>2, <2>3
<1>2. ASSUME ForkFails PROVE TypeOK' /\ Control'
  BY <1>0, <1>2 DEF ForkFails
<1>3. ASSUME AddJob PROVE TypeOK' /\ Control'
  <2>1. Added(jobs, nextjid, pid, cmd, jobs', nextjid')
    BY <1>0, <1>3, AddJobEffect DEF AddJob, Jobs, Table
  <2>2. TypeOK'
    BY <1>0, <1>3, <2>1 DEF AddJob, Added, Jobs, Table
  <2>3. Control'
    BY <1>0, <1>3 DEF AddJob
  <2> QED
    BY <2>2, <2>3
<1>4. ASSUME Unblock PROVE TypeOK' /\ Control'
  BY <1>0, <1>4 DEF Unblock
<1>5. ASSUME Announce PROVE TypeOK' /\ Control'
  BY <1>0, <1>5 DEF Announce
<1>6. ASSUME AnnounceNull PROVE TypeOK' /\ Control'
  BY <1>0, <1>6 DEF AnnounceNull
<1>7. ASSUME WaitfgReturns PROVE TypeOK' /\ Control'
  BY <1>0, <1>7 DEF WaitfgReturns
<1>8. ASSUME ReadJobPid PROVE TypeOK' /\ Control'
  <2>1. jobs[job].pid \in Pids \union {NoPid}
    BY <1>0, <1>8 DEF ReadJobPid, Jobs, Job
  <2> QED
    BY <1>0, <1>8, <2>1 DEF ReadJobPid
<1>9. ASSUME KillCont PROVE TypeOK' /\ Control'
  <2>1. /\ proc' \in [Pids -> ProcState] /\ unreported' \subseteq Pids
        /\ psig' \in [Pids -> SUBSET Keyboard]
    <3>1. CASE UNCHANGED procs
      BY <1>0, <3>1
    <3>2. CASE pid \in Pids /\ SendCont(pid)
      <4>1. proc' \in [Pids -> ProcState]
        BY <1>0, <3>2 DEF SendCont, ProcState
      <4>2. psig' \in [Pids -> SUBSET Keyboard]
        BY <1>0, <3>2 DEF SendCont
      <4> QED
        BY <1>0, <3>2, <4>1, <4>2 DEF SendCont
    <3> QED
      BY <1>0, <1>9, <3>1, <3>2 DEF KillCont
  <2>2. TypeOK'
    BY <1>0, <1>9, <2>1 DEF KillCont
  <2>3. Control'
    BY <1>0, <1>9 DEF KillCont
  <2> QED
    BY <2>2, <2>3
<1>10. ASSUME KillContFails PROVE TypeOK' /\ Control'
  BY <1>0, <1>10 DEF KillContFails
<1>11. ASSUME SetFg \/ SetBg PROVE TypeOK' /\ Control'
  <2>1. jobs' \in Jobs
    <3>1. \E v \in {"FG", "BG", "ST"} : StateSet(jobs, job, v, jobs')
      BY <1>0, <1>11, StateWritten DEF SetFg, SetBg, Jobs, Table
    <3> QED
      BY <3>1 DEF StateSet, Jobs, Table
  <2>2. TypeOK'
    BY <1>0, <1>11, <2>1 DEF SetFg, SetBg
  <2>3. Control'
    BY <1>0, <1>11 DEF SetFg, SetBg
  <2> QED
    BY <2>2, <2>3
<1>12. TypeOK' /\ Control'
  BY <1>1, <1>2, <1>3, <1>4, <1>5, <1>6, <1>7, <1>8, <1>9, <1>10, <1>11
     DEF MainStep
<1>13. UNCHANGED handling /\ (masked' => masked)
  BY DEF MainStep, Fork, ForkFails, AddJob, Unblock, Announce, AnnounceNull,
         WaitfgReturns, ReadJobPid, KillCont, KillContFails, SetFg, SetBg
<1> QED
  BY <1>0, <1>12, <1>13, HandlersStay DEF Base

\* Reading any command keeps Base.
LEMMA CommandKeepsBase ==
  ASSUME Base, Command
  PROVE  Base'
<1> USE DEF TypeOK, Control, InBgFg, PcVal, table, handling, procs, Main
<1>0. TypeOK /\ Control /\ Handlers
  BY DEF Base
<1>1. ASSUME NEW c \in Builtins, NEW j \in 1 .. JidBound, BgFgByJid(c, j)
      PROVE  Base'
  <2>1. getjobjid(jobs, j) \in Slot
    BY <1>1, GetJobJid DEF BgFgByJid
  <2>2. c \in {"fg", "bg"}
    BY BuiltinsAssumption
  <2>3. TypeOK' /\ Control'
    BY <1>0, <1>1, <2>1, <2>2 DEF BgFgByJid
  <2>4. Handlers'
    BY <1>0, <1>1, HandlersStay DEF BgFgByJid
  <2> QED
    BY <2>3, <2>4 DEF Base
<1>2. ASSUME NEW c \in Builtins, NEW p \in Pids, BgFgByPid(c, p)
      PROVE  Base'
  <2>1. getjobpid(jobs, p) \in Slot
    BY <1>2, GetJobPid DEF BgFgByPid
  <2>2. c \in {"fg", "bg"}
    BY BuiltinsAssumption
  <2>3. TypeOK' /\ Control'
    BY <1>0, <1>2, <2>1, <2>2 DEF BgFgByPid
  <2>4. Handlers'
    BY <1>0, <1>2, HandlersStay DEF BgFgByPid
  <2> QED
    BY <2>3, <2>4 DEF Base
<1>3. ASSUME Quit PROVE Base'
  <2>1. TypeOK' /\ Control'
    BY <1>0, <1>3 DEF Quit, flow
  <2>2. Handlers'
    BY <1>0, <1>3, HandlersStay DEF Quit
  <2> QED
    BY <2>1, <2>2 DEF Base
<1> QED
  BY <1>1, <1>2, <1>3, LaunchKeepsBase DEF Command

(***************************************************************************)
(* The two ways a handler's step changes the stack, and SIGCHLD's program  *)
(* counter when the handler is another's.                                  *)
(***************************************************************************)
LEMMA ReturnKeepsHandlers ==
  ASSUME Handlers, NEW s \in Signal, NEW at, Handler(s, at), HandlerReturn(s)
  PROVE  StackOK(stack', hpc') /\ hpc'["CHLD"] \in {"off", hpc["CHLD"]}
<1>1. StackOK(stack', hpc')
  BY Pop DEF Handlers, Handler, HandlerReturn
<1>2. hpc \in [Signal -> HandlerPc]
  BY DEF Handlers, StackOK
<1>3. hpc'["CHLD"] \in {"off", hpc["CHLD"]}
  BY <1>2 DEF HandlerReturn, Signal
<1> QED
  BY <1>1, <1>3

\* A move of a handler, as HandlerGoto states it, keeps Handlers.
LEMMA GotoKeepsHandlers ==
  ASSUME Handlers, NEW s \in Signal, NEW at, Handler(s, at),
         NEW to \in HandlerPc \ {"off"}, NEW p, HandlerGoto(s, to, p)
  PROVE  StackOK(stack', hpc') /\ hpc'["CHLD"] = IF s = "CHLD" THEN to ELSE hpc["CHLD"]
<1>1. StackOK(stack', hpc')
  BY Move DEF Handlers, Handler, HandlerGoto
<1>2. hpc \in [Signal -> HandlerPc]
  BY DEF Handlers, StackOK
<1>3. hpc'["CHLD"] = IF s = "CHLD" THEN to ELSE hpc["CHLD"]
  BY <1>2 DEF HandlerGoto, Signal
<1> QED
  BY <1>1, <1>3

\* sigint_handler and sigtstp_handler keep Base.
LEMMA KeyboardKeepsBase ==
  ASSUME Base, NEW s \in Keyboard, KeyboardHandler(s)
  PROVE  Base'
<1>0. TypeOK /\ Control /\ Handlers /\ s \in Signal /\ s # "CHLD"
  BY DEF Base, Signal, Keyboard
<1>1. ASSUME FindFg(s) PROVE Base'
  <2>1. fgpid(jobs) \in Pids \union {NoPid}
    BY <1>0, FgPid DEF TypeOK, Jobs, Job
  <2>2. CASE HandlerReturn(s)
    <3>1. StackOK(stack', hpc') /\ hpc'["CHLD"] \in {"off", hpc["CHLD"]}
      BY <1>0, <1>1, <2>2, ReturnKeepsHandlers DEF FindFg
    <3>2. hpid' \in [Signal -> Pids \union {NoPid}]
      BY <1>0, <2>2 DEF HandlerReturn, TypeOK
    <3>3. TypeOK'
      BY <1>0, <1>1, <3>1, <3>2 DEF TypeOK, FindFg, StackOK, table, flow, procs
    <3>4. Control'
      BY <1>0, <1>1 DEF Control, InBgFg, FindFg, flow
    <3>5. Handlers'
      BY <1>0, <1>1, <3>1 DEF Handlers, FindFg
    <3> QED
      BY <3>3, <3>4, <3>5 DEF Base
  <2>3. CASE HandlerGoto(s, "kill", fgpid(jobs))
    <3>1. StackOK(stack', hpc') /\ hpc'["CHLD"] = hpc["CHLD"]
      BY <1>0, <1>1, <2>3, GotoKeepsHandlers DEF FindFg, HandlerPc
    <3>2. hpid' \in [Signal -> Pids \union {NoPid}]
      BY <1>0, <2>1, <2>3 DEF HandlerGoto, TypeOK
    <3>3. TypeOK'
      BY <1>0, <1>1, <3>1, <3>2 DEF TypeOK, FindFg, StackOK, table, flow, procs
    <3>4. Control'
      BY <1>0, <1>1 DEF Control, InBgFg, FindFg, flow
    <3>5. Handlers'
      BY <1>0, <1>1, <3>1 DEF Handlers, FindFg
    <3> QED
      BY <3>3, <3>4, <3>5 DEF Base
  <2> QED
    BY <1>1, <2>2, <2>3 DEF FindFg
<1>2. ASSUME Forward(s) PROVE Base'
  <2>1. StackOK(stack', hpc') /\ hpc'["CHLD"] \in {"off", hpc["CHLD"]}
    BY <1>0, <1>2, ReturnKeepsHandlers DEF Forward
  <2>2. hpid' \in [Signal -> Pids \union {NoPid}]
    BY <1>0, <1>2 DEF Forward, HandlerReturn, TypeOK
  <2>3. psig' \in [Pids -> SUBSET Keyboard]
    BY <1>0, <1>2 DEF Forward, SendKeyboard, TypeOK
  <2>4. TypeOK'
    BY <1>0, <1>2, <2>1, <2>2, <2>3
       DEF TypeOK, Forward, SendKeyboard, StackOK, table, flow
  <2>5. Control'
    BY <1>0, <1>2 DEF Control, InBgFg, Forward, flow
  <2>6. Handlers'
    BY <1>0, <1>2, <2>1 DEF Handlers, Forward
  <2> QED
    BY <2>4, <2>5, <2>6 DEF Base
<1>3. ASSUME ForwardFails(s) PROVE Base'
  <2>1. TypeOK' /\ Control'
    BY <1>0, <1>3 DEF TypeOK, Control, InBgFg, ForwardFails, table, flow, procs,
                      handling
  <2>2. Handlers'
    BY <1>0, <1>3, HandlersStay DEF ForwardFails
  <2> QED
    BY <2>1, <2>2 DEF Base
<1> QED
  BY <1>1, <1>2, <1>3 DEF KeyboardHandler

\* sigchld_handler keeps Base.
LEMMA ChildHandlerKeepsBase ==
  ASSUME Base, ChildHandler
  PROVE  Base'
<1>0. TypeOK /\ Control /\ Handlers /\ "CHLD" \in Signal
  BY DEF Base, Signal
<1> DEFINE To == {"delete", "mark", "waitpid"}
\* Every step of the handler but its return moves it on.
<1>1. ASSUME NEW at, Handler("CHLD", at), NEW to \in To,
             NEW p \in Pids \union {NoPid}, HandlerGoto("CHLD", to, p)
      PROVE  /\ Handlers' \/ masked' # masked
             /\ stack' \in Seq(Signal) /\ hpc' \in [Signal -> HandlerPc]
             /\ hpid' \in [Signal -> Pids \union {NoPid}]
  <2>1. StackOK(stack', hpc') /\ hpc'["CHLD"] = to
    BY <1>0, <1>1, GotoKeepsHandlers DEF HandlerPc
  <2>2. hpid' \in [Signal -> Pids \union {NoPid}]
    BY <1>0, <1>1 DEF HandlerGoto, TypeOK
  <2>3. ~masked
    BY <1>0, <1>1, Move DEF Handlers, Handler, StackOK
  <2> QED
    BY <2>1, <2>2, <2>3 DEF Handlers, StackOK
<1>2. ASSUME UNCHANGED <<flow, masked>> PROVE Control'
  BY <1>0, <1>2 DEF Control, InBgFg, flow
<1>3. ASSUME NEW p \in Pids, WaitpidZombie(p) PROVE Base'
  <2>1. /\ Handlers' /\ stack' \in Seq(Signal) /\ hpc' \in [Signal -> HandlerPc]
        /\ hpid' \in [Signal -> Pids \union {NoPid}]
    BY <1>1, <1>3 DEF WaitpidZombie
  <2>2. proc' \in [Pids -> ProcState]
    BY <1>0, <1>3 DEF WaitpidZombie, TypeOK, ProcState
  <2>3. TypeOK'
    BY <1>0, <1>3, <2>1, <2>2 DEF TypeOK, WaitpidZombie, table, flow
  <2> QED
    BY <1>2, <1>3, <2>1, <2>3 DEF Base, WaitpidZombie
<1>4. ASSUME NEW p \in Pids, WaitpidStopped(p) PROVE Base'
  <2>1. /\ Handlers' /\ stack' \in Seq(Signal) /\ hpc' \in [Signal -> HandlerPc]
        /\ hpid' \in [Signal -> Pids \union {NoPid}]
    BY <1>1, <1>4 DEF WaitpidStopped
  <2>2. TypeOK'
    BY <1>0, <1>4, <2>1 DEF TypeOK, WaitpidStopped, table, flow
  <2> QED
    BY <1>2, <1>4, <2>1, <2>2 DEF Base, WaitpidStopped
<1>5. ASSUME WaitpidNone PROVE Base'
  <2>1. StackOK(stack', hpc') /\ hpc'["CHLD"] \in {"off", hpc["CHLD"]}
    BY <1>0, <1>5, ReturnKeepsHandlers DEF WaitpidNone
  <2>2. hpid' \in [Signal -> Pids \union {NoPid}]
    BY <1>0, <1>5 DEF WaitpidNone, HandlerReturn, TypeOK
  <2>3. Handlers'
    BY <1>0, <1>5, <2>1 DEF Handlers, WaitpidNone
  <2>4. TypeOK'
    BY <1>0, <1>5, <2>1, <2>2 DEF TypeOK, WaitpidNone, StackOK, table, flow, procs
  <2> QED
    BY <1>2, <1>5, <2>3, <2>4 DEF Base, WaitpidNone
<1>6. ASSUME DeleteJob PROVE Base'
  <2>1. /\ Handlers' /\ stack' \in Seq(Signal) /\ hpc' \in [Signal -> HandlerPc]
        /\ hpid' \in [Signal -> Pids \union {NoPid}]
    BY <1>1, <1>6 DEF DeleteJob
  <2>2. Deleted(jobs, nextjid, hpid["CHLD"], jobs', nextjid')
    BY <1>0, <1>6, DeleteJobEffect DEF DeleteJob, TypeOK, Jobs, Table
  <2>3. TypeOK'
    BY <1>0, <1>6, <2>1, <2>2
       DEF TypeOK, DeleteJob, Deleted, Jobs, Table, flow, procs
  <2> QED
    BY <1>2, <1>6, <2>1, <2>3 DEF Base, DeleteJob
<1>7. ASSUME MarkStopped PROVE Base'
  <2>1. /\ Handlers' /\ stack' \in Seq(Signal) /\ hpc' \in [Signal -> HandlerPc]
        /\ hpid' \in [Signal -> Pids \union {NoPid}]
    BY <1>1, <1>7 DEF MarkStopped
  <2>2. \E i \in Slot : StateSet(jobs, i, "ST", jobs')
    BY <1>0, <1>7, GetJobPid, StateWritten DEF MarkStopped, TypeOK, Jobs, Table
  <2>3. jobs' \in Jobs
    BY <2>2 DEF StateSet, Jobs, Table
  <2>4. TypeOK'
    BY <1>0, <1>7, <2>1, <2>3 DEF TypeOK, MarkStopped, flow, procs
  <2> QED
    BY <1>2, <1>7, <2>1, <2>4 DEF Base, MarkStopped
<1>8. ASSUME MarkNull PROVE Base'
  <2>1. TypeOK' /\ Handlers'
    BY <1>0, <1>8, HandlersStay DEF MarkNull, TypeOK, table, flow, procs, handling
  <2> QED
    BY <1>2, <1>8, <2>1 DEF Base, MarkNull
<1> QED
  BY <1>3, <1>4, <1>5, <1>6, <1>7, <1>8 DEF ChildHandler

\* The delivery of a signal keeps Base.
LEMMA DeliverKeepsBase ==
  ASSUME Base, NEW s \in Signal, Deliver(s)
  PROVE  Base'
<1>0. TypeOK /\ Control /\ Handlers
  BY DEF Base
<1> DEFINE v == IF s = "CHLD" THEN "waitpid" ELSE "fgpid"
<1>1. StackOK(stack', hpc')
  BY <1>0, Push DEF Handlers, Deliver, HandlerPc
<1>2. hpc'["CHLD"] = IF s = "CHLD" THEN "waitpid" ELSE hpc["CHLD"]
  BY <1>0 DEF Deliver, TypeOK, Signal
<1>3. Handlers'
  BY <1>0, <1>1, <1>2 DEF Handlers, Deliver
<1>4. TypeOK'
  BY <1>0, <1>1 DEF TypeOK, Deliver, StackOK, table, flow, procs
<1>5. Control'
  BY <1>0 DEF Control, InBgFg, Deliver, flow
<1> QED
  BY <1>3, <1>4, <1>5 DEF Base

\* The keyboard and the children keep Base.
LEMMA OutsideKeepsBase ==
  ASSUME Base, \/ \E s \in Typed : Type(s)
               \/ \E p \in Pids : Child(p)
  PROVE  Base'
<1>0. TypeOK /\ Control /\ Handlers
  BY DEF Base
<1>1. ASSUME NEW s \in Typed, Type(s) PROVE Base'
  <2>1. TypeOK'
    BY <1>0, <1>1, TypedAssumption
       DEF TypeOK, Type, Signal, Keyboard, table, flow, handling, procs
  <2>2. Control' /\ Handlers'
    BY <1>0, <1>1, HandlersStay DEF Type, Control, InBgFg, flow
  <2> QED
    BY <2>1, <2>2 DEF Base
<1>2. ASSUME NEW p \in Pids, Child(p) PROVE Base'
  <2>1. proc' \in [Pids -> ProcState]
    BY <1>0, <1>2 DEF TypeOK, ProcState, Child, Setpgid, Exec, ChildAdvances,
                      ChildSwallows, ChildDies, ChildStops, Die, StopNow
  <2>2. psig' \in [Pids -> SUBSET Keyboard]
    BY <1>0, <1>2 DEF TypeOK, Child, Setpgid, Exec, ChildAdvances,
                      ChildSwallows, ChildDies, ChildStops, Die, StopNow
  <2>3. /\ unreported' \subseteq Pids /\ pending' \subseteq Signal
        /\ UNCHANGED <<table, flow, masked, handling, status>>
    BY <1>0, <1>2 DEF TypeOK, Child, Setpgid, Exec, ChildAdvances, Signal,
                      ChildSwallows, ChildDies, ChildStops, Die, StopNow
  <2>4. TypeOK'
    BY <1>0, <2>1, <2>2, <2>3 DEF TypeOK, table, flow, handling
  <2>5. Control' /\ Handlers'
    BY <1>0, <2>3, HandlersStay DEF Control, InBgFg, flow
  <2> QED
    BY <2>4, <2>5 DEF Base
<1> QED
  BY <1>1, <1>2

\* Every step of the shell keeps Base.
LEMMA NextBase == Base /\ [Next]_vars => Base'
<1> SUFFICES ASSUME Base, [Next]_vars PROVE Base'
  OBVIOUS
<1>1. CASE UNCHANGED vars
  <2>1. TypeOK' /\ Control'
    BY <1>1 DEF Base, TypeOK, Control, InBgFg, vars, table, flow, handling, procs
  <2>2. Handlers'
    BY <1>1, HandlersStay DEF Base, vars
  <2> QED
    BY <2>1, <2>2 DEF Base
<1>2. CASE Next
  BY <1>1, <1>2, MainKeepsBase, CommandKeepsBase, KeyboardKeepsBase,
     ChildHandlerKeepsBase, DeliverKeepsBase, OutsideKeepsBase
     DEF Next, HandlerStep, Terminated
<1> QED
  BY <1>1, <1>2

\* Types, where main may be while SIGCHLD is blocked, and a stack of distinct
\* handlers: the control part of the shell always holds.
THEOREM BaseInvariant == Spec => []Base
BY InitBase, NextBase, PTL DEF Spec

\* The state of the shell is well typed: no pid, slot, handler or job state
\* out of range, for any number of processes and any size of the list.
THEOREM TypeCorrect == Spec => []TypeOK
<1>1. Base => TypeOK
  BY DEF Base
<1> QED
  BY <1>1, BaseInvariant, PTL

-----------------------------------------------------------------------------
(***************************************************************************)
(* The job list.  ListedAlive alone is not inductive: that addjob lists a  *)
(* live child once needs the SIGCHLD block (Base) and that the child is    *)
(* not listed yet; that deletejob removes the last trace of a child needs  *)
(* ListedOnce and that the child it is given has been reaped.              *)
(***************************************************************************)
ToAdd == pc = "addjob" => Live(pid) /\ ~Listed(pid)
ToDelete == hpc["CHLD"] = "delete" => hpid["CHLD"] \in Pids /\ ~Live(hpid["CHLD"])

Lists == ListedAlive /\ ListedOnce /\ ToAdd /\ ToDelete

\* The empty job list satisfies Lists.
LEMMA InitLists == Init => Lists
<1> SUFFICES ASSUME Init PROVE Lists
  OBVIOUS
<1>1. \A i \in Slot : jobs[i].pid = NoPid
  BY DEF Init, initjobs, clearjob
<1>2. hpc["CHLD"] = "off" /\ pc = "read"
  BY DEF Init, Signal
<1> QED
  BY <1>1, <1>2, PidAssumption
     DEF Lists, ListedAlive, ListedOnce, ToAdd, ToDelete, Listed, SlotsOf

\* What Lists depends on, when the table stays.
LEMMA ListsStay ==
  ASSUME Lists, UNCHANGED jobs, pc' = "addjob" => pc = "addjob" /\ pid' = pid,
         hpc'["CHLD"] = hpc["CHLD"], hpid'["CHLD"] = hpid["CHLD"],
         \A p \in Pids \union {pid} : proc'[p] = "free" <=> proc[p] = "free"
  PROVE  Lists'
<1>1. ListedOnce'
  BY DEF Lists, ListedOnce, SlotsOf
<1>2. ListedAlive'
  BY DEF Lists, ListedAlive, Listed, SlotsOf, Live
<1>3. ToAdd' /\ ToDelete'
  BY DEF Lists, ToAdd, ToDelete, Listed, SlotsOf, Live
<1> QED
  BY <1>1, <1>2, <1>3 DEF Lists

\* fork returns a process that is not listed: what is listed is alive.
LEMMA ForkKeepsLists ==
  ASSUME Base, Lists, NEW p \in Pids, Fork(p)
  PROVE  Lists'
<1>1. hpc["CHLD"] = "off"
  BY ChldOff DEF Base, Fork, Main
<1>2. ~Listed(p)
  BY <1>1 DEF Lists, ListedAlive, Fork, Live
<1>3. /\ UNCHANGED <<jobs, hpc, hpid>> /\ pid' = p
      /\ \A q \in Pids : proc'[q] = IF q = p THEN "forked" ELSE proc[q]
  BY DEF Base, TypeOK, Fork, table, handling
<1>4. ListedOnce'
  BY <1>3 DEF Lists, ListedOnce, SlotsOf
<1>5. ListedAlive'
  BY <1>3 DEF Lists, ListedAlive, Listed, SlotsOf, Live
<1>6. ToAdd' /\ ToDelete'
  BY <1>1, <1>2, <1>3 DEF ToAdd, ToDelete, Listed, SlotsOf, Live
<1> QED
  BY <1>4, <1>5, <1>6 DEF Lists

\* addjob lists a child that is alive, for SIGCHLD is still blocked, and that
\* was not listed, for it was only just forked.
LEMMA AddJobKeepsLists ==
  ASSUME Base, Lists, AddJob
  PROVE  Lists'
<1>1. Added(jobs, nextjid, pid, cmd, jobs', nextjid')
  BY AddJobEffect
     DEF Base, TypeOK, Control, AddJob, Main, Jobs, Table
<1>2. /\ pid \in Pids /\ pid # NoPid /\ Live(pid) /\ ~Listed(pid)
      /\ cmd \in {"FG", "BG"}
  BY PidAssumption DEF Base, Control, Lists, ToAdd, AddJob, Main
<1>3. pc' = "unblock" /\ UNCHANGED <<hpc, hpid, proc>>
  BY DEF AddJob, Goto, handling, procs
<1>4. CASE jobs' = jobs
  <2>1. ListedOnce' /\ ListedAlive' /\ ToAdd' /\ ToDelete'
    BY <1>3, <1>4 DEF Lists, ListedOnce, ListedAlive, ToAdd, ToDelete, Listed,
                      SlotsOf, Live
  <2> QED
    BY <2>1 DEF Lists
<1>5. ASSUME NEW i \in Slot, jobs[i].pid = NoPid,
             jobs'[i].pid = pid, jobs'[i].state = cmd,
             \A k \in Slot \ {i} : jobs'[k] = jobs[k]
      PROVE  Lists'
  <2>1. \A k \in Slot : jobs[k].pid # pid
    BY <1>2 DEF Listed, SlotsOf
  <2>2. ListedOnce'
    <3>1. ASSUME NEW k \in Slot, jobs'[k].pid # NoPid
          PROVE  /\ \A l \in Slot : jobs'[l].pid = jobs'[k].pid <=> l = k
                 /\ jobs'[k].state # "UNDEF"
      <4>1. CASE k = i
        BY <1>2, <1>5, <2>1, <4>1
      <4>2. CASE k # i
        <5>1. jobs[k].pid # NoPid /\ jobs'[k] = jobs[k]
          BY <1>5, <3>1, <4>2
        <5>2. /\ \A l \in Slot : jobs[l].pid = jobs[k].pid <=> l = k
              /\ jobs[k].state # "UNDEF"
          BY <5>1 DEF Lists, ListedOnce, SlotsOf
        <5> QED
          BY <1>5, <2>1, <4>2, <5>1, <5>2
      <4> QED
        BY <4>1, <4>2
    <3> QED
      BY <3>1 DEF ListedOnce, SlotsOf
  <2>3. ListedAlive'
    <3>1. ASSUME NEW q \in Pids, q # pid
          PROVE  Listed(q)' => Listed(q)
      BY <1>5, <3>1 DEF Listed, SlotsOf
    <3> QED
      BY <1>2, <1>3, <3>1 DEF Lists, ListedAlive, Live
  <2>4. ToAdd' /\ ToDelete'
    BY <1>3 DEF Lists, ToAdd, ToDelete, Live
  <2> QED
    BY <2>2, <2>3, <2>4 DEF Lists
<1> QED
  BY <1>1, <1>4, <1>5 DEF Added

\* The state of a slot is no concern of Lists, as long as there is one.
LEMMA StateSetKeepsListed ==
  ASSUME Lists, NEW i \in Slot, NEW v \in {"FG", "BG", "ST"},
         StateSet(jobs, i, v, jobs')
  PROVE  ListedOnce' /\ \A p : Listed(p)' <=> Listed(p)
<1>1. \A k \in Slot : jobs'[k].pid = jobs[k].pid
  BY DEF StateSet
<1>2. \A k \in Slot : jobs'[k].state \in {v, jobs[k].state}
  BY DEF StateSet
<1>3. ListedOnce'
  BY <1>1, <1>2 DEF Lists, ListedOnce, SlotsOf
<1>4. \A p : Listed(p)' <=> Listed(p)
  BY <1>1 DEF Listed, SlotsOf
<1> QED
  BY <1>3, <1>4

\* A change of state by do_bgfg keeps Lists.
LEMMA SetStateKeepsLists ==
  ASSUME Base, Lists, SetFg \/ SetBg
  PROVE  Lists'
<1>1. \E v \in {"FG", "BG", "ST"} : StateSet(jobs, job, v, jobs')
  BY StateWritten DEF Base, TypeOK, Control, InBgFg, Main, SetFg, SetBg, Jobs, Table
<1>2. job \in Slot
  BY DEF Base, Control, InBgFg, Main, SetFg, SetBg
<1>3. ListedOnce' /\ \A p : Listed(p)' <=> Listed(p)
  BY <1>1, <1>2, StateSetKeepsListed
<1>4. pc' # "addjob" /\ UNCHANGED <<hpc, hpid, proc>>
  BY DEF SetFg, SetBg, Goto, Return, handling, procs
<1>5. ListedAlive' /\ ToAdd' /\ ToDelete'
  BY <1>3, <1>4 DEF Lists, ListedAlive, ToAdd, ToDelete, Live
<1> QED
  BY <1>3, <1>5 DEF Lists

\* The steps of eval, do_bgfg and waitfg keep Lists.
LEMMA MainKeepsLists ==
  ASSUME Base, Lists, MainStep
  PROVE  Lists'
<1>1. ASSUME \/ ForkFails \/ Unblock \/ Announce \/ AnnounceNull \/ WaitfgReturns
             \/ ReadJobPid \/ KillContFails
      PROVE  Lists'
  <2>1. /\ UNCHANGED <<jobs, hpc, hpid, proc>>
        /\ pc' = "addjob" => pc = "addjob" /\ pid' = pid
    BY <1>1 DEF ForkFails, Unblock, Announce, AnnounceNull, WaitfgReturns,
                ReadJobPid, KillContFails, Return, Goto, table, handling, procs, flow
  <2> QED
    BY <2>1, ListsStay
<1>2. ASSUME KillCont PROVE Lists'
  <2>1. UNCHANGED <<jobs, hpc, hpid>> /\ pc' = "setstate"
    BY <1>2 DEF KillCont, Goto, table, handling
  <2>2. \A p \in Pids : proc'[p] = "free" <=> proc[p] = "free"
    BY <1>2 DEF KillCont, SendCont, Base, TypeOK, procs
  <2>3. ListedOnce' /\ ListedAlive' /\ ToAdd' /\ ToDelete'
    BY <2>1, <2>2 DEF Lists, ListedOnce, ListedAlive, ToAdd, ToDelete, Listed,
                      SlotsOf, Live
  <2> QED
    BY <2>3 DEF Lists
<1> QED
  BY <1>1, <1>2, ForkKeepsLists, AddJobKeepsLists, SetStateKeepsLists DEF MainStep

\* deletejob takes the only slot of a reaped child off the list.
LEMMA DeleteJobKeepsLists ==
  ASSUME Base, Lists, DeleteJob
  PROVE  Lists'
<1> DEFINE p == hpid["CHLD"]
<1>1. Deleted(jobs, nextjid, p, jobs', nextjid')
  BY DeleteJobEffect DEF Base, TypeOK, DeleteJob, Jobs, Table
<1>2. p \in Pids /\ p # NoPid /\ ~Live(p)
  BY PidAssumption DEF Lists, ToDelete, DeleteJob, Handler
<1>3. hpc'["CHLD"] = "waitpid" /\ UNCHANGED <<pc, pid, proc>>
  BY DEF Base, TypeOK, DeleteJob, HandlerGoto, Signal, flow, procs
<1>4. \A q \in Pids \ {p} : Listed(q) => Live(q)
  BY DEF Lists, ListedAlive
<1> HIDE DEF p
<1>5. ASSUME jobs' = jobs, \A i \in Slot : jobs[i].pid # p
      PROVE  Lists'
  <2>1. ~Listed(p)
    BY <1>5 DEF Listed, SlotsOf
  <2>2. ListedOnce' /\ ListedAlive' /\ ToAdd' /\ ToDelete'
    BY <1>3, <1>4, <1>5, <2>1
       DEF Lists, ListedOnce, ListedAlive, ToAdd, ToDelete, Listed, SlotsOf, Live
  <2> QED
    BY <2>2 DEF Lists
<1>6. ASSUME NEW i \in Slot, jobs[i].pid = p, jobs'[i] = clearjob,
             \A k \in Slot \ {i} : jobs'[k] = jobs[k]
      PROVE  Lists'
  <2>1. jobs'[i].pid = NoPid
    BY <1>6 DEF clearjob
  <2>2. \A k \in Slot \ {i} : jobs[k].pid # p
    BY <1>2, <1>6 DEF Lists, ListedOnce, SlotsOf
  <2>3. ASSUME NEW k \in Slot, jobs'[k].pid # NoPid
        PROVE  /\ k # i /\ jobs'[k] = jobs[k]
               /\ \A l \in Slot : jobs'[l].pid = jobs'[k].pid <=> l = k
               /\ jobs'[k].state # "UNDEF"
    <3>1. k # i /\ jobs'[k] = jobs[k]
      BY <1>6, <2>1, <2>3
    <3>2. SlotsOf(jobs[k].pid) = {k} /\ jobs[k].state # "UNDEF"
      BY <2>3, <3>1 DEF Lists, ListedOnce
    <3>3. \A l \in Slot : jobs'[l].pid = jobs'[k].pid <=> l = k
      BY <1>6, <2>1, <2>3, <3>1, <3>2 DEF SlotsOf
    <3> QED
      BY <3>1, <3>2, <3>3
  <2>4. ListedOnce'
    <3>1. \A k \in Slot : jobs'[k].pid # NoPid =>
            {l \in Slot : jobs'[l].pid = jobs'[k].pid} = {k}
      BY <2>3
    <3> QED
      BY <2>3, <3>1 DEF ListedOnce, SlotsOf
  <2>5. ASSUME NEW q \in Pids, Listed(q)'
        PROVE  Listed(q) /\ q # p
    <3>1. PICK k \in Slot : jobs'[k].pid = q
      BY <2>5 DEF Listed, SlotsOf
    <3>2. q # NoPid
      BY PidAssumption
    <3>3. k # i /\ jobs[k].pid = q
      BY <2>3, <3>1, <3>2
    <3> QED
      BY <2>2, <3>3 DEF Listed, SlotsOf
  <2>6. ListedAlive' /\ ToDelete'
    BY <1>3, <1>4, <2>5 DEF ListedAlive, ToDelete, Live
  <2>7. ToAdd'
    BY <1>3, <2>5 DEF Lists, Base, Control, ToAdd, Live
  <2> QED
    BY <2>4, <2>6, <2>7 DEF Lists
<1> QED
  BY <1>1, <1>2, <1>5, <1>6 DEF Deleted

\* sigchld_handler keeps Lists.
LEMMA ChildHandlerKeepsLists ==
  ASSUME Base, Lists, ChildHandler
  PROVE  Lists'
<1>0. TypeOK
  BY DEF Base
<1>1. ASSUME NEW p \in Pids, WaitpidZombie(p) PROVE Lists'
  <2>1. /\ UNCHANGED <<jobs, pc, pid>>
        /\ hpc["CHLD"] = "waitpid" /\ hpc'["CHLD"] = "delete" /\ hpid'["CHLD"] = p
        /\ \A q \in Pids : proc'[q] = IF q = p THEN "free" ELSE proc[q]
    BY <1>0, <1>1 DEF TypeOK, WaitpidZombie, Handler, HandlerGoto, Signal, table, flow
  <2>2. ListedOnce'
    BY <2>1 DEF Lists, ListedOnce, SlotsOf
  <2>3. ListedAlive' /\ ToDelete'
    BY <2>1 DEF Lists, ListedAlive, ToDelete, Listed, SlotsOf, Live
  <2>4. pc # "addjob"
    BY <2>1 DEF Base, Control, Handlers
  <2> QED
    BY <2>1, <2>2, <2>3, <2>4 DEF Lists, ToAdd
<1>2. ASSUME \/ \E p \in Pids : WaitpidStopped(p)
             \/ WaitpidNone
      PROVE  Lists'
  <2>1. /\ UNCHANGED <<jobs, pc, pid, proc>>
        /\ hpc["CHLD"] = "waitpid" /\ hpc'["CHLD"] \in {"mark", "off"}
    BY <1>0, <1>2 DEF TypeOK, WaitpidStopped, WaitpidNone, Handler, HandlerGoto,
                      HandlerReturn, Signal, table, flow, procs
  <2>2. ListedOnce' /\ ListedAlive' /\ ToAdd' /\ ToDelete'
    BY <2>1 DEF Lists, ListedOnce, ListedAlive, ToAdd, ToDelete, Listed, SlotsOf, Live
  <2> QED
    BY <2>2 DEF Lists
<1>3. ASSUME MarkStopped PROVE Lists'
  <2>1. \E i \in Slot : StateSet(jobs, i, "ST", jobs')
    BY <1>0, <1>3, GetJobPid, StateWritten DEF MarkStopped, TypeOK, Jobs, Table
  <2>2. ListedOnce' /\ \A p : Listed(p)' <=> Listed(p)
    BY <2>1, StateSetKeepsListed
  <2>3. /\ UNCHANGED <<pc, pid, proc>>
        /\ hpc["CHLD"] = "mark" /\ hpc'["CHLD"] = "waitpid"
    BY <1>0, <1>3 DEF TypeOK, MarkStopped, Handler, HandlerGoto, Signal, flow, procs
  <2>4. ListedAlive' /\ ToAdd' /\ ToDelete'
    BY <2>2, <2>3 DEF Lists, ListedAlive, ToAdd, ToDelete, Live
  <2> QED
    BY <2>2, <2>4 DEF Lists
<1>4. ASSUME MarkNull PROVE Lists'
  BY <1>4, ListsStay DEF MarkNull, table, flow, handling, procs
<1> QED
  BY <1>1, <1>2, <1>3, <1>4, DeleteJobKeepsLists DEF ChildHandler

\* Every step of the shell keeps Lists.
LEMMA NextLists == Base /\ Lists /\ [Next]_vars => Lists'
<1> SUFFICES ASSUME Base, Lists, [Next]_vars PROVE Lists'
  OBVIOUS
<1>0. TypeOK
  BY DEF Base
<1>1. CASE UNCHANGED vars
  BY <1>1, ListsStay DEF vars, table, flow, handling, procs
<1>2. ASSUME Command PROVE Lists'
  <2>1. UNCHANGED <<jobs, hpc, hpid, proc>> /\ (pc' = "addjob" => UNCHANGED <<pc, pid>>)
    BY <1>2 DEF Command, Launch, BgFgByJid, BgFgByPid, Quit, table, flow, handling,
                procs
  <2> QED
    BY <2>1, ListsStay
<1>3. ASSUME NEW s \in Keyboard, KeyboardHandler(s) PROVE Lists'
  <2>1. /\ UNCHANGED <<jobs, pc, pid, proc>>
        /\ hpc'["CHLD"] = hpc["CHLD"] /\ hpid'["CHLD"] = hpid["CHLD"]
    BY <1>0, <1>3 DEF TypeOK, KeyboardHandler, FindFg, Forward, ForwardFails, SendKeyboard,
                HandlerGoto, HandlerReturn, Signal, Keyboard, table, flow, handling,
                procs
  <2> QED
    BY <2>1, ListsStay
<1>4. ASSUME NEW s \in Signal, Deliver(s) PROVE Lists'
  <2>1. /\ UNCHANGED <<jobs, pc, pid, proc, hpid>>
        /\ hpc'["CHLD"] = hpc["CHLD"] \/ (hpc["CHLD"] = "off" /\ hpc'["CHLD"] = "waitpid")
    BY <1>0, <1>4 DEF TypeOK, Deliver, Signal, table, flow, procs
  <2>2. ListedOnce' /\ ListedAlive' /\ ToAdd' /\ ToDelete'
    BY <2>1 DEF Lists, ListedOnce, ListedAlive, ToAdd, ToDelete, Listed, SlotsOf, Live
  <2> QED
    BY <2>2 DEF Lists
<1>5. ASSUME NEW s \in Typed, Type(s) PROVE Lists'
  BY <1>5, ListsStay DEF Type, table, flow, handling, procs
<1>6. ASSUME NEW p \in Pids, Child(p) PROVE Lists'
  <2>1. /\ UNCHANGED <<jobs, pc, pid, hpc, hpid>>
        /\ \A q \in Pids : proc'[q] = "free" <=> proc[q] = "free"
    BY <1>0, <1>6 DEF TypeOK, Child, Setpgid, Exec, ChildAdvances, ChildSwallows,
                ChildDies, ChildStops, Die, StopNow, table, flow, handling
  <2>2. ListedOnce' /\ ListedAlive' /\ ToDelete'
    BY <2>1 DEF Lists, ListedOnce, ListedAlive, ToDelete, Listed, SlotsOf, Live
  <2>3. ToAdd'
    BY <2>1 DEF Base, Control, Lists, ToAdd, Listed, SlotsOf, Live
  <2> QED
    BY <2>2, <2>3 DEF Lists
<1> QED
  BY <1>1, <1>2, <1>3, <1>4, <1>5, <1>6, MainKeepsLists, ChildHandlerKeepsLists
     DEF Next, HandlerStep, Terminated

\* The strengthened invariant of the job list: what is listed is alive, once,
\* and so is what addjob or deletejob is about to change.
THEOREM ListsInvariant == Spec => [](Base /\ Lists)
BY InitBase, NextBase, InitLists, NextLists, PTL DEF Spec

\* Every process on the job list is a child not yet reaped, or the one that
\* sigchld_handler is deleting, however signals and handlers interleave with
\* eval, do_bgfg and waitfg, for any number of processes and any list size.
THEOREM ListedAreAlive == Spec => []ListedAlive
<1>1. Lists => ListedAlive
  BY DEF Lists
<1> QED
  BY <1>1, ListsInvariant, PTL

\* No process is listed twice, and no listed job is without a state.
THEOREM ListedAreOnce == Spec => []ListedOnce
<1>1. Lists => ListedOnce
  BY DEF Lists
<1> QED
  BY <1>1, ListsInvariant, PTL

-----------------------------------------------------------------------------
(***************************************************************************)
(* The keys.  That BackgroundSpared holds of a Forward needs an invariant: *)
(* the process a keyboard handler is about to signal is not listed as a    *)
(* background job, although SIGCHLD's handler may have run since fgpid.    *)
(* Main, which alone makes background jobs, has not.                       *)
(***************************************************************************)
Aimed ==
  \A s \in Keyboard : hpc[s] = "kill" =>
    \A i \in Slot : jobs[i].pid = hpid[s] => jobs[i].state # "BG"

\* What Aimed depends on.
LEMMA AimedStays ==
  ASSUME Aimed, UNCHANGED jobs,
         \A s \in Keyboard : hpc'[s] = "kill" => hpc[s] = "kill" /\ hpid'[s] = hpid[s]
  PROVE  Aimed'
BY DEF Aimed

\* fgpid returns the process of a foreground slot, its only one.
LEMMA FindFgKeepsAimed ==
  ASSUME Base, Lists, Aimed, NEW s \in Keyboard, FindFg(s)
  PROVE  Aimed'
<1>0. TypeOK /\ s \in Signal
  BY DEF Base, Signal
<1>1. UNCHANGED jobs
  BY DEF FindFg, table
<1>2. CASE HandlerReturn(s)
  <2>1. \A r \in Keyboard : hpc'[r] = "kill" => hpc[r] = "kill" /\ hpid'[r] = hpid[r]
    BY <1>0, <1>2 DEF TypeOK, HandlerReturn, Signal
  <2> QED
    BY <1>1, <2>1, AimedStays
<1>3. CASE fgpid(jobs) # NoPid /\ HandlerGoto(s, "kill", fgpid(jobs))
  <2>1. PICK k \in Slot : jobs[k].state = "FG" /\ fgpid(jobs) = jobs[k].pid
    BY <1>3, FgPid
  <2>2. \A i \in Slot : jobs[i].pid = fgpid(jobs) => i = k
    BY <1>3, <2>1 DEF Lists, ListedOnce, SlotsOf
  <2>3. /\ hpc'[s] = "kill" /\ hpid'[s] = fgpid(jobs)
        /\ \A r \in Keyboard \ {s} : hpc'[r] = hpc[r] /\ hpid'[r] = hpid[r]
    BY <1>0, <1>3 DEF TypeOK, HandlerGoto, Signal
  <2> QED
    BY <1>1, <2>1, <2>2, <2>3 DEF Aimed
<1> QED
  BY <1>2, <1>3 DEF FindFg

\* sigchld_handler clears slots and marks them stopped: it makes no
\* background job.
LEMMA ChildHandlerKeepsAimed ==
  ASSUME Base, Aimed, ChildHandler
  PROVE  Aimed'
<1>0. TypeOK
  BY DEF Base
<1>1. \A s \in Keyboard : hpc'[s] = hpc[s] /\ hpid'[s] = hpid[s]
  BY <1>0 DEF TypeOK, ChildHandler, WaitpidZombie, WaitpidStopped, WaitpidNone,
              DeleteJob, MarkStopped, MarkNull, HandlerGoto, HandlerReturn, Signal,
              Keyboard, handling
<1>2. ASSUME DeleteJob PROVE Aimed'
  <2>1. Deleted(jobs, nextjid, hpid["CHLD"], jobs', nextjid')
    BY <1>0, <1>2, DeleteJobEffect DEF TypeOK, DeleteJob, Jobs, Table
  <2>2. \A i \in Slot : jobs'[i] = jobs[i] \/ jobs'[i].state # "BG"
    BY <2>1 DEF Deleted, clearjob
  <2> QED
    BY <1>1, <2>2 DEF Aimed
<1>3. ASSUME MarkStopped PROVE Aimed'
  <2>1. \E i \in Slot : StateSet(jobs, i, "ST", jobs')
    BY <1>0, <1>3, GetJobPid, StateWritten DEF MarkStopped, TypeOK, Jobs, Table
  <2>2. \A i \in Slot : jobs'[i] = jobs[i] \/ jobs'[i].state # "BG"
    BY <2>1 DEF StateSet
  <2> QED
    BY <1>1, <2>2 DEF Aimed
<1>4. CASE UNCHANGED jobs
  BY <1>1, <1>4, AimedStays
<1> QED
  BY <1>2, <1>3, <1>4
     DEF ChildHandler, WaitpidZombie, WaitpidStopped, WaitpidNone, MarkNull, table

\* Every step of the shell keeps Aimed: main runs only while no handler does.
LEMMA NextAimed == Base /\ Lists /\ Aimed /\ [Next]_vars => Aimed'
<1> SUFFICES ASSUME Base, Lists, Aimed, [Next]_vars PROVE Aimed'
  OBVIOUS
<1>0. TypeOK
  BY DEF Base
<1>1. ASSUME MainStep \/ Command PROVE Aimed'
  <2>1. UNCHANGED handling
    BY <1>1 DEF MainStep, Command, Fork, ForkFails, AddJob, Unblock, Announce,
                AnnounceNull, WaitfgReturns, ReadJobPid, KillCont, KillContFails,
                SetFg, SetBg, Launch, BgFgByJid, BgFgByPid, Quit
  <2>2. CASE stack = <<>>
    <3>1. \A s \in Signal : hpc[s] = "off"
      BY <2>2, EmptyStack DEF Base, Handlers
    <3> QED
      BY <2>1, <3>1 DEF Aimed, handling, Signal
  <2>3. CASE UNCHANGED jobs
    BY <2>1, <2>3, AimedStays DEF handling
  <2> QED
    BY <1>1, <2>2, <2>3
       DEF MainStep, Command, Fork, ForkFails, AddJob, Unblock, Announce,
           AnnounceNull, WaitfgReturns, ReadJobPid, KillCont, KillContFails,
           SetFg, SetBg, Launch, BgFgByJid, BgFgByPid, Quit, Main, table
<1>2. ASSUME NEW s \in Keyboard, Forward(s) \/ ForwardFails(s) PROVE Aimed'
  <2>1. /\ UNCHANGED jobs
        /\ \A r \in Keyboard : hpc'[r] = "kill" => hpc[r] = "kill" /\ hpid'[r] = hpid[r]
    BY <1>0, <1>2 DEF TypeOK, Forward, ForwardFails, HandlerReturn, Signal, table,
                      handling
  <2> QED
    BY <2>1, AimedStays
<1>3. ASSUME NEW s \in Signal, Deliver(s) PROVE Aimed'
  <2>1. /\ UNCHANGED jobs
        /\ \A r \in Keyboard : hpc'[r] = "kill" => hpc[r] = "kill" /\ hpid'[r] = hpid[r]
    BY <1>0, <1>3 DEF TypeOK, Deliver, Signal, table
  <2> QED
    BY <2>1, AimedStays
<1>4. CASE UNCHANGED <<table, handling>>
  BY <1>4, AimedStays DEF table, handling
<1>5. ASSUME \/ \E s \in Typed : Type(s)
             \/ \E p \in Pids : Child(p)
             \/ Terminated
             \/ UNCHANGED vars
      PROVE  UNCHANGED <<table, handling>>
  BY <1>5 DEF Type, Child, Setpgid, Exec, ChildAdvances, ChildSwallows, ChildDies,
              ChildStops, Terminated, vars
<1> QED
  BY <1>1, <1>2, <1>3, <1>4, <1>5, FindFgKeepsAimed, ChildHandlerKeepsAimed
     DEF Next, HandlerStep, KeyboardHandler

\* A step of the shell adds no key to what a background job is yet to act on.
LEMMA StepSpares ==
  ASSUME TypeOK, Aimed, [Next]_vars,
         NEW i \in Slot, jobs[i].state = "BG", jobs[i].pid # NoPid
  PROVE  psig'[jobs[i].pid] \subseteq psig[jobs[i].pid]
<1> DEFINE p == jobs[i].pid
<1>0. p \in Pids
  BY DEF TypeOK, Jobs, Job
<1>1. ASSUME NEW s \in Keyboard, Forward(s) PROVE psig'[p] \subseteq psig[p]
  <2>1. hpid[s] # p
    BY <1>1 DEF Aimed, Forward, Handler
  <2> QED
    BY <1>0, <1>1, <2>1 DEF Forward, SendKeyboard, TypeOK
<1>2. ASSUME KillCont PROVE psig'[p] \subseteq psig[p]
  BY <1>0, <1>2 DEF KillCont, SendCont, procs, TypeOK
<1>3. ASSUME NEW q \in Pids, Child(q) PROVE psig'[p] \subseteq psig[p]
  BY <1>0, <1>3 DEF Child, Setpgid, Exec, ChildAdvances, ChildSwallows, ChildDies,
                    ChildStops, Die, StopNow, TypeOK
<1>4. CASE UNCHANGED psig
  BY <1>4
<1>5. MainStep => KillCont \/ UNCHANGED psig
  BY DEF MainStep, Fork, ForkFails, AddJob, Unblock, Announce, AnnounceNull,
         WaitfgReturns, ReadJobPid, KillContFails, SetFg, SetBg, procs
<1>6. Command => UNCHANGED psig
  BY DEF Command, Launch, BgFgByJid, BgFgByPid, Quit, procs
<1>7. ASSUME HandlerStep
      PROVE  (\E s \in Keyboard : Forward(s)) \/ UNCHANGED psig
  BY <1>7 DEF HandlerStep, KeyboardHandler, FindFg, ForwardFails, ChildHandler,
              WaitpidZombie, WaitpidStopped, WaitpidNone, DeleteJob, MarkStopped,
              MarkNull, procs
<1>8. ASSUME \/ \E s \in Signal : Deliver(s)
             \/ \E s \in Typed : Type(s)
             \/ Terminated
             \/ UNCHANGED vars
      PROVE  UNCHANGED psig
  BY <1>8 DEF Deliver, Type, Terminated, vars, procs
<1> QED
  BY <1>1, <1>2, <1>3, <1>4, <1>5, <1>6, <1>7, <1>8 DEF Next

\* ctrl-c and ctrl-z never reach a background job, however the handlers nest,
\* for any number of processes and any list size.
THEOREM BackgroundIsSpared == Spec => BackgroundSpared
<1>1. Init => Aimed
  BY DEF Init, Aimed, Signal
<1>2. Base /\ Aimed /\ [Next]_vars
      => [\A i \in Slot : jobs[i].state = "BG" /\ jobs[i].pid # NoPid =>
            psig'[jobs[i].pid] \subseteq psig[jobs[i].pid]]_vars
  BY StepSpares DEF Base
<1> QED
  BY <1>1, <1>2, NextAimed, ListsInvariant, PTL DEF Spec, BackgroundSpared

-----------------------------------------------------------------------------
(***************************************************************************)
(* No child is lost.  Tracked is inductive given Base and Lists: addjob    *)
(* finds a free slot because the listed processes, each in one slot, are   *)
(* not all there are.                                                      *)
(***************************************************************************)
\* What Tracked depends on.
LEMMA TrackedStays ==
  ASSUME Tracked,
         \A p \in Pids : Live(p)' => Live(p) /\ (Listed(p) => Listed(p)'),
         pc = "addjob" => pc' = "addjob" /\ pid' = pid
  PROVE  Tracked'
BY DEF Tracked

\* addjob finds room for its child when all processes fit the list.
LEMMA RoomForAll ==
  ASSUME TypeOK, Lists, Cardinality(Pids) <= MaxJobs, NEW p \in Pids, ~Listed(p)
  PROVE  FreeSlots(jobs) # {}
<1> DEFINE L == {q \in Pids : \E i \in Slot : jobs[i].pid = q}
<1>1. jobs \in Table
  BY DEF TypeOK, Jobs, Table
<1>2. \A i, k \in Slot : jobs[i].pid = jobs[k].pid /\ jobs[i].pid # NoPid => i = k
  BY DEF Lists, ListedOnce, SlotsOf
<1>3. /\ IsFiniteSet(L) /\ Cardinality(L) \in Nat /\ Cardinality(L) <= MaxJobs
      /\ Cardinality(L) < MaxJobs <=> FreeSlots(jobs) # {}
  BY <1>1, <1>2, SlotsCounted
<1>4. L \in SUBSET Pids /\ p \notin L
  BY DEF Listed, SlotsOf
<1> HIDE DEF L
<1>5. Cardinality(L) < Cardinality(Pids)
  <2>1. /\ Cardinality(L) <= Cardinality(Pids)
        /\ Cardinality(Pids) = Cardinality(L) => Pids = L
    BY <1>4, PidsFinite, FS_Subset
  <2>2. Cardinality(Pids) \in Nat
    BY PidsFinite, FS_CardinalityType
  <2> QED
    BY <1>3, <1>4, <2>1, <2>2
<1>6. Cardinality(Pids) \in Nat
  BY PidsFinite, FS_CardinalityType
<1> QED
  BY <1>3, <1>5, <1>6, MaxJobsAssumption

\* eval, do_bgfg and waitfg lose no child.
LEMMA MainKeepsTracked ==
  ASSUME Base, Lists, Tracked, MainStep
  PROVE  Tracked'
<1>0. TypeOK
  BY DEF Base
<1>1. ASSUME NEW p \in Pids, Fork(p) PROVE Tracked'
  <2>1. /\ pc = "fork" /\ pc' = "addjob" /\ pid' = p /\ UNCHANGED jobs
        /\ \A q \in Pids \ {p} : proc'[q] = proc[q]
    BY <1>0, <1>1 DEF TypeOK, Fork, Main, table
  <2> QED
    BY <2>1 DEF Tracked, Live, Listed, SlotsOf
<1>2. ASSUME AddJob PROVE Tracked'
  <2>1. Added(jobs, nextjid, pid, cmd, jobs', nextjid')
    BY <1>2, AddJobEffect DEF Base, TypeOK, Control, AddJob, Main, Jobs, Table
  <2>2. pid \in Pids /\ ~Listed(pid) /\ UNCHANGED proc
    BY <1>2 DEF Base, Control, Lists, ToAdd, AddJob, Main, procs
  <2>3. ASSUME Cardinality(Pids) <= MaxJobs
        PROVE  \A p \in Pids : Live(p)' => Listed(p)'
    <3>1. FreeSlots(jobs) # {}
      BY <1>0, <2>2, <2>3, RoomForAll
    <3>2. PICK i \in Slot : /\ jobs[i].pid = NoPid
                            /\ jobs'[i] = [pid |-> pid, jid |-> nextjid, state |-> cmd]
                            /\ \A k \in Slot \ {i} : jobs'[k] = jobs[k]
      BY <2>1, <3>1 DEF Added
    <3>3. Listed(pid)'
      <4>1. jobs'[i].pid = pid
        BY <3>2
      <4> QED
        BY <1>2, <4>1 DEF AddJob, Goto, Listed, SlotsOf
    <3>4. ASSUME NEW p \in Pids, Listed(p) PROVE Listed(p)'
      <4>1. PICK k \in Slot : jobs[k].pid = p
        BY <3>4 DEF Listed, SlotsOf
      <4>2. k # i
        BY <3>2, <4>1, PidAssumption
      <4>3. jobs'[k].pid = p
        BY <3>2, <4>1, <4>2
      <4> QED
        BY <4>3 DEF Listed, SlotsOf
    <3>5. \A p \in Pids : Live(p) => Listed(p) \/ p = pid
      BY <2>3 DEF Tracked
    <3> QED
      BY <1>2, <2>2, <3>3, <3>4, <3>5 DEF AddJob, Goto, Live
  <2> QED
    BY <2>3 DEF Tracked
<1>3. ASSUME SetFg \/ SetBg PROVE Tracked'
  <2>1. job \in Slot /\ \E v \in {"FG", "BG", "ST"} : StateSet(jobs, job, v, jobs')
    BY <1>3, StateWritten
       DEF Base, TypeOK, Control, InBgFg, Main, SetFg, SetBg, Jobs, Table
  <2>2. \A p : Listed(p)' <=> Listed(p)
    BY <2>1, StateSetKeepsListed
  <2>3. pc = "setstate" /\ UNCHANGED proc
    BY <1>3 DEF SetFg, SetBg, Main, procs
  <2> QED
    BY <2>2, <2>3, TrackedStays DEF Live
<1>4. ASSUME KillCont PROVE Tracked'
  <2>1. pc = "kill" /\ UNCHANGED jobs
    BY <1>4 DEF KillCont, Main, table
  <2>2. \A p \in Pids : proc'[p] = "free" <=> proc[p] = "free"
    BY <1>0, <1>4 DEF KillCont, SendCont, TypeOK, procs
  <2> QED
    BY <2>1, <2>2, TrackedStays DEF Live, Listed, SlotsOf
<1>5. ASSUME \/ ForkFails \/ Unblock \/ Announce \/ AnnounceNull \/ WaitfgReturns
             \/ ReadJobPid \/ KillContFails
      PROVE  Tracked'
  <2>1. UNCHANGED <<jobs, proc>> /\ (pc = "addjob" => UNCHANGED <<pc, pid>>)
    BY <1>5 DEF ForkFails, Unblock, Announce, AnnounceNull, WaitfgReturns,
                ReadJobPid, KillContFails, Main, table, procs, flow
  <2> QED
    BY <2>1, TrackedStays DEF Live, Listed, SlotsOf
<1> QED
  BY <1>1, <1>2, <1>3, <1>4, <1>5 DEF MainStep

\* sigchld_handler takes off the list only the child it has just reaped.
LEMMA ChildHandlerKeepsTracked ==
  ASSUME Base, Lists, Tracked, ChildHandler
  PROVE  Tracked'
<1>0. TypeOK /\ UNCHANGED <<pc, pid>>
  BY DEF Base, ChildHandler, WaitpidZombie, WaitpidStopped, WaitpidNone, DeleteJob,
         MarkStopped, MarkNull, flow
<1>1. ASSUME NEW p \in Pids, WaitpidZombie(p) PROVE Tracked'
  <2>1. UNCHANGED jobs /\ \A q \in Pids : proc'[q] \in {"free", proc[q]}
    BY <1>0, <1>1 DEF TypeOK, WaitpidZombie, table
  <2> QED
    BY <1>0, <2>1, TrackedStays DEF Live, Listed, SlotsOf
<1>2. ASSUME DeleteJob PROVE Tracked'
  <2> DEFINE p == hpid["CHLD"]
  <2>1. Deleted(jobs, nextjid, p, jobs', nextjid')
    BY <1>0, <1>2, DeleteJobEffect DEF TypeOK, DeleteJob, Jobs, Table
  <2>2. ~Live(p) /\ UNCHANGED proc
    BY <1>2 DEF Lists, ToDelete, DeleteJob, Handler, procs
  <2> HIDE DEF p
  <2>3. \A i \in Slot : jobs[i].pid # p => jobs'[i] = jobs[i]
    BY <2>1 DEF Deleted
  <2>4. \A q \in Pids : Live(q) /\ Listed(q) => Listed(q)'
    BY <2>2, <2>3 DEF Listed, SlotsOf
  <2> QED
    BY <1>0, <2>2, <2>4, TrackedStays DEF Live
<1>3. ASSUME MarkStopped PROVE Tracked'
  <2>1. \E i \in Slot : StateSet(jobs, i, "ST", jobs')
    BY <1>0, <1>3, GetJobPid, StateWritten DEF MarkStopped, TypeOK, Jobs, Table
  <2>2. \A p : Listed(p)' <=> Listed(p)
    BY <2>1, StateSetKeepsListed
  <2> QED
    BY <1>0, <1>3, <2>2, TrackedStays DEF MarkStopped, Live, procs
<1>4. ASSUME (\E p \in Pids : WaitpidStopped(p)) \/ WaitpidNone \/ MarkNull
      PROVE  Tracked'
  <2>1. UNCHANGED <<jobs, proc>>
    BY <1>4 DEF WaitpidStopped, WaitpidNone, MarkNull, table, procs
  <2> QED
    BY <1>0, <2>1, TrackedStays DEF Live, Listed, SlotsOf
<1> QED
  BY <1>1, <1>2, <1>3, <1>4 DEF ChildHandler

\* Every step of the shell keeps Tracked.
LEMMA NextTracked == Base /\ Lists /\ Tracked /\ [Next]_vars => Tracked'
<1> SUFFICES ASSUME Base, Lists, Tracked, [Next]_vars PROVE Tracked'
  OBVIOUS
<1>0. TypeOK
  BY DEF Base
<1>1. ASSUME \/ Command
             \/ \E s \in Keyboard : KeyboardHandler(s)
             \/ \E s \in Signal : Deliver(s)
             \/ \E s \in Typed : Type(s)
             \/ Terminated
             \/ UNCHANGED vars
      PROVE  Tracked'
  <2>1. UNCHANGED <<jobs, proc>> /\ (pc = "addjob" => UNCHANGED <<pc, pid>>)
    BY <1>1 DEF Command, Launch, BgFgByJid, BgFgByPid, Quit, KeyboardHandler,
                FindFg, Forward, ForwardFails, SendKeyboard, Deliver, Type,
                Terminated, Main, vars, table, procs, flow
  <2> QED
    BY <2>1, TrackedStays DEF Live, Listed, SlotsOf
<1>2. ASSUME NEW p \in Pids, Child(p) PROVE Tracked'
  <2>1. /\ UNCHANGED <<jobs, pc, pid>>
        /\ \A q \in Pids : proc'[q] = "free" <=> proc[q] = "free"
    BY <1>0, <1>2 DEF TypeOK, Child, Setpgid, Exec, ChildAdvances, ChildSwallows,
                ChildDies, ChildStops, Die, StopNow, table, flow
  <2> QED
    BY <2>1, TrackedStays DEF Live, Listed, SlotsOf
<1> QED
  BY <1>1, <1>2, MainKeepsTracked, ChildHandlerKeepsTracked DEF Next, HandlerStep

\* While every process fits the list, a child that is not reaped is listed or
\* about to be, so that "fg", "bg" and the handlers can find it.
THEOREM NoChildIsLost == Spec => []Tracked
<1>1. Init => Tracked
  BY DEF Init, Tracked, Live
<1> QED
  BY <1>1, NextTracked, ListsInvariant, PTL DEF Spec

-----------------------------------------------------------------------------
(***************************************************************************)
(* What a job is shown as.  StoppedIsStopped needs that a stop which has   *)
(* been reported or is about to be is still one (only main continues a     *)
(* process, and main waits for the handler), and that the process do_bgfg  *)
(* is about to continue is on the list in the slot it will write, if it is *)
(* still on the list at all.                                               *)
(***************************************************************************)
News == \A p \in unreported : proc[p] = "stopped"
Marking ==
  hpc["CHLD"] = "mark" =>
    hpid["CHLD"] \in Pids /\ proc[hpid["CHLD"]] = "stopped"
Resumed ==
  pc \in {"kill", "setstate"} /\ pid # NoPid =>
    \A i \in Slot : jobs[i].pid = pid => i = job

Stops == News /\ Marking /\ Resumed /\ StoppedIsStopped

Going == {"forked", "grouped", "running"}

\* The steps of main, when no handler is in progress, keep Stops: a process is
\* continued only in the slot that "fg" or "bg" is about to change.
LEMMA MainKeepsStops ==
  ASSUME Base, Lists, Stops, MainStep
  PROVE  Stops'
<1>0. TypeOK /\ Control /\ News /\ Resumed /\ StoppedIsStopped
  BY DEF Base, Stops
<1>a. hpc["CHLD"] = "off" /\ UNCHANGED handling
  <2>1. stack = <<>> /\ UNCHANGED handling
    BY DEF MainStep, Fork, ForkFails, AddJob, Unblock, Announce, AnnounceNull,
           WaitfgReturns, ReadJobPid, KillCont, KillContFails, SetFg, SetBg, Main
  <2> QED
    BY <2>1, ChldOff DEF Base
<1>b. Marking'
  BY <1>a DEF Marking, handling
<1>1. ASSUME NEW p \in Pids, Fork(p) PROVE Stops'
  <2>1. /\ UNCHANGED <<jobs, job, unreported>> /\ pc = "fork" /\ pc' = "addjob"
        /\ proc[p] = "free" /\ \A q \in Pids \ {p} : proc'[q] = proc[q]
    BY <1>0, <1>1 DEF TypeOK, Fork, Main, table
  <2>2. ~Listed(p)
    BY <1>a, <2>1 DEF Lists, ListedAlive, Live
  <2>3. News'
    BY <1>0, <2>1 DEF News, TypeOK
  <2>4. StoppedIsStopped'
    BY <1>0, <2>1, <2>2 DEF StoppedIsStopped, TypeOK, Jobs, Job, Listed, SlotsOf
  <2>5. Resumed'
    BY <2>1 DEF Resumed
  <2> QED
    BY <1>b, <2>3, <2>4, <2>5 DEF Stops
<1>2. ASSUME AddJob PROVE Stops'
  <2>1. Added(jobs, nextjid, pid, cmd, jobs', nextjid')
    BY <1>2, AddJobEffect DEF Base, TypeOK, Control, AddJob, Main, Jobs, Table
  <2>2. cmd \in {"FG", "BG"} /\ pc = "addjob" /\ pc' = "unblock" /\ UNCHANGED procs
    BY <1>2 DEF Base, Control, AddJob, Main, Goto
  <2>3. \A i \in Slot : jobs'[i].state = "ST" => jobs'[i] = jobs[i]
    BY <2>1, <2>2 DEF Added
  <2>4. StoppedIsStopped' /\ News' /\ Resumed'
    BY <1>0, <2>2, <2>3 DEF StoppedIsStopped, News, Resumed, procs
  <2> QED
    BY <1>b, <2>4 DEF Stops
<1>3. ASSUME SetFg \/ SetBg PROVE Stops'
  <2>1. /\ job \in Slot
        /\ \E v \in {"FG", "BG"} : StateSet(jobs, job, v, jobs')
    BY <1>3, StateWritten
       DEF Base, TypeOK, Control, InBgFg, Main, SetFg, SetBg, Jobs, Table
  <2>2. pc = "setstate" /\ pc' \in {"waitfg", "read"} /\ UNCHANGED procs
    BY <1>3 DEF SetFg, SetBg, Main, Goto, Return
  <2>3. /\ jobs'[job].state # "ST"
        /\ \A i \in Slot \ {job} : jobs'[i] = jobs[i]
    BY <2>1 DEF StateSet
  <2>4. StoppedIsStopped' /\ News' /\ Resumed'
    BY <1>0, <2>2, <2>3 DEF StoppedIsStopped, News, Resumed, procs
  <2> QED
    BY <1>b, <2>4 DEF Stops
<1>4. ASSUME KillCont PROVE Stops'
  <2>1. pc = "kill" /\ pc' = "setstate" /\ UNCHANGED <<jobs, job, pid>>
    BY <1>4 DEF KillCont, Main, Goto, table
  <2>2. Resumed'
    BY <1>0, <2>1 DEF Resumed
  <2>3. CASE UNCHANGED procs
    BY <1>0, <1>b, <2>1, <2>2, <2>3 DEF Stops, StoppedIsStopped, News, procs
  <2>4. CASE pid \in Pids /\ SendCont(pid)
    <3>1. /\ \A q \in Pids \ {pid} : proc'[q] = proc[q]
          /\ unreported' = unreported \ {pid}
      BY <1>0, <2>4 DEF SendCont, TypeOK
    <3>2. \A i \in Slot : jobs[i].pid = pid => i = job
      BY <1>0, <2>1, <2>4, PidAssumption DEF Resumed
    <3>3. StoppedIsStopped'
      BY <1>0, <2>1, <3>1, <3>2 DEF StoppedIsStopped, TypeOK, Jobs, Job
    <3>4. News'
      BY <1>0, <3>1 DEF News, TypeOK
    <3> QED
      BY <1>b, <2>2, <3>3, <3>4 DEF Stops
  <2> QED
    BY <1>0, <1>4, <2>3, <2>4 DEF KillCont, TypeOK
<1>5. ASSUME ReadJobPid PROVE Stops'
  <2>1. /\ pc = "jobpid" /\ pc' = "kill" /\ pid' = jobs[job].pid /\ job \in Slot
        /\ UNCHANGED <<jobs, job, proc, unreported>>
    BY <1>0, <1>5 DEF ReadJobPid, Main, Control, InBgFg, table, procs
  <2>2. Resumed'
    BY <2>1 DEF Resumed, Lists, ListedOnce, SlotsOf
  <2>3. StoppedIsStopped' /\ News'
    BY <1>0, <2>1 DEF StoppedIsStopped, News
  <2> QED
    BY <1>b, <2>2, <2>3 DEF Stops
<1>6. ASSUME ForkFails \/ Unblock \/ Announce \/ AnnounceNull \/ WaitfgReturns \/ KillContFails
      PROVE  Stops'
  <2>1. /\ UNCHANGED <<jobs, proc, unreported>>
        /\ UNCHANGED flow \/ (pc # "setstate" /\ pc' \in {"announce", "waitfg", "read"})
    BY <1>6 DEF ForkFails, Unblock, Announce, AnnounceNull, WaitfgReturns,
                KillContFails, Main, Return, Goto, table, procs, flow
  <2>2. StoppedIsStopped' /\ News' /\ Resumed'
    BY <1>0, <2>1 DEF StoppedIsStopped, News, Resumed, flow
  <2> QED
    BY <1>b, <2>2 DEF Stops
<1> QED
  BY <1>1, <1>2, <1>3, <1>4, <1>5, <1>6 DEF MainStep

\* Reading a command keeps Stops: the process of a job found by its ID is
\* listed nowhere else.
LEMMA CommandKeepsStops ==
  ASSUME Base, Lists, Stops, Command
  PROVE  Stops'
<1>1. UNCHANGED <<jobs, proc, unreported, handling>> /\ (pc = "setstate" => UNCHANGED flow)
  BY DEF Command, Launch, BgFgByJid, BgFgByPid, Quit, Main, table, procs, flow
<1>2. News' /\ Marking' /\ StoppedIsStopped'
  BY <1>1 DEF Stops, News, Marking, StoppedIsStopped, handling, flow
<1>3. Resumed'
  <2>1. ASSUME NEW c \in Builtins, NEW p \in Pids, BgFgByPid(c, p) PROVE Resumed'
    <3>1. /\ UNCHANGED jobs /\ pid' = p /\ job' = getjobpid(jobs, p)
          /\ getjobpid(jobs, p) # NoSlot
      BY <2>1 DEF BgFgByPid, table
    <3>2. job' \in Slot /\ jobs[job'].pid = p /\ p # NoPid
      BY <3>1, GetJobPid
    <3> QED
      BY <3>1, <3>2 DEF Resumed, Lists, ListedOnce, SlotsOf
  <2>2. ASSUME \/ \E s \in {"FG", "BG"} : Launch(s)
               \/ \E c \in Builtins, j \in 1 .. JidBound : BgFgByJid(c, j)
               \/ Quit
        PROVE  pc' \in {"fork", "jobpid"} \/ UNCHANGED flow
    BY <2>2 DEF Launch, BgFgByJid, Quit
  <2>3. CASE pc' \in {"fork", "jobpid"} \/ UNCHANGED flow
    BY <1>1, <2>3 DEF Stops, Resumed, flow
  <2> QED
    BY <2>1, <2>2, <2>3 DEF Command
<1> QED
  BY <1>2, <1>3 DEF Stops

\* sigchld_handler keeps Stops: the stop it records is one.
LEMMA ChildHandlerKeepsStops ==
  ASSUME Base, Lists, Stops, ChildHandler
  PROVE  Stops'
<1>0. /\ TypeOK /\ News /\ Marking /\ Resumed /\ StoppedIsStopped
      /\ UNCHANGED flow
  BY DEF Base, Stops, ChildHandler, WaitpidZombie, WaitpidStopped, WaitpidNone,
         DeleteJob, MarkStopped, MarkNull
<1>1. ASSUME NEW p \in Pids, WaitpidZombie(p) PROVE Stops'
  <2>1. /\ UNCHANGED <<jobs, unreported>> /\ proc[p] = "zombie" /\ proc'[p] = "free"
        /\ \A q \in Pids \ {p} : proc'[q] = proc[q]
        /\ hpc'["CHLD"] = "delete"
    BY <1>0, <1>1 DEF TypeOK, WaitpidZombie, HandlerGoto, Signal, table
  <2>2. News'
    BY <1>0, <2>1 DEF News, TypeOK
  <2>3. StoppedIsStopped'
    BY <1>0, <2>1 DEF StoppedIsStopped, TypeOK, Jobs, Job, flow
  <2>4. Marking' /\ Resumed'
    BY <1>0, <2>1 DEF Marking, Resumed, flow
  <2> QED
    BY <2>2, <2>3, <2>4 DEF Stops
<1>2. ASSUME NEW p \in Pids, WaitpidStopped(p) PROVE Stops'
  <2>1. /\ UNCHANGED <<jobs, proc>> /\ p \in unreported
        /\ unreported' = unreported \ {p} /\ hpid'["CHLD"] = p
    BY <1>0, <1>2 DEF TypeOK, WaitpidStopped, HandlerGoto, Signal, table
  <2>2. News' /\ Marking' /\ Resumed' /\ StoppedIsStopped'
    BY <1>0, <2>1 DEF News, Marking, Resumed, StoppedIsStopped, flow
  <2> QED
    BY <2>2 DEF Stops
<1>3. ASSUME DeleteJob PROVE Stops'
  <2>1. Deleted(jobs, nextjid, hpid["CHLD"], jobs', nextjid')
    BY <1>0, <1>3, DeleteJobEffect DEF TypeOK, DeleteJob, Jobs, Table
  <2>2. \A i \in Slot : jobs'[i] = jobs[i] \/ jobs'[i].pid = NoPid
    BY <2>1 DEF Deleted, clearjob
  <2>3. UNCHANGED <<proc, unreported>> /\ hpc'["CHLD"] = "waitpid"
    BY <1>0, <1>3 DEF TypeOK, DeleteJob, HandlerGoto, Signal, procs
  <2>4. News' /\ Marking' /\ Resumed' /\ StoppedIsStopped'
    BY <1>0, <2>2, <2>3 DEF News, Marking, Resumed, StoppedIsStopped, flow
  <2> QED
    BY <2>4 DEF Stops
<1>4. ASSUME MarkStopped PROVE Stops'
  <2> DEFINE i == getjobpid(jobs, hpid["CHLD"])
  <2>1. /\ i \in Slot /\ jobs[i].pid = hpid["CHLD"]
        /\ StateSet(jobs, i, "ST", jobs')
    BY <1>0, <1>4, GetJobPid, StateWritten DEF MarkStopped, TypeOK, Jobs, Table
  <2> HIDE DEF i
  <2>2. proc[jobs[i].pid] = "stopped"
    BY <1>0, <1>4, <2>1 DEF Marking, MarkStopped, Handler
  <2>3. UNCHANGED <<proc, unreported>> /\ hpc'["CHLD"] = "waitpid"
    BY <1>0, <1>4 DEF TypeOK, MarkStopped, HandlerGoto, Signal, procs
  <2>4. News' /\ Marking'
    BY <1>0, <2>3 DEF News, Marking
  <2>5. /\ \A k \in Slot : jobs'[k].pid = jobs[k].pid
        /\ \A k \in Slot \ {i} : jobs'[k] = jobs[k]
    BY <2>1 DEF StateSet
  <2>6. StoppedIsStopped'
    BY <1>0, <2>1, <2>2, <2>3, <2>5 DEF StoppedIsStopped, flow
  <2>7. Resumed'
    BY <1>0, <2>5 DEF Resumed, flow
  <2> QED
    BY <2>4, <2>6, <2>7 DEF Stops
<1>5. ASSUME WaitpidNone \/ MarkNull PROVE Stops'
  <2>1. /\ UNCHANGED <<jobs, proc, unreported>>
        /\ hpc'["CHLD"] = "off" \/ UNCHANGED handling
    BY <1>0, <1>5 DEF TypeOK, WaitpidNone, MarkNull, HandlerReturn, Signal, table, procs
  <2>2. News' /\ Marking' /\ Resumed' /\ StoppedIsStopped'
    BY <1>0, <2>1 DEF News, Marking, Resumed, StoppedIsStopped, flow, handling
  <2> QED
    BY <2>2 DEF Stops
<1> QED
  BY <1>1, <1>2, <1>3, <1>4, <1>5 DEF ChildHandler

\* A child keeps Stops: it does not continue itself.
LEMMA ChildKeepsStops ==
  ASSUME Base, Stops, NEW p \in Pids, Child(p)
  PROVE  Stops'
<1>0. TypeOK /\ News /\ Marking /\ Resumed /\ StoppedIsStopped
  BY DEF Base, Stops
<1>1. UNCHANGED <<jobs, flow, handling>>
  BY DEF Child, Setpgid, Exec, ChildAdvances, ChildSwallows, ChildDies, ChildStops,
         table
<1>2. /\ \A q \in Pids \ {p} : proc'[q] = proc[q]
      /\ unreported' \ {p} = unreported \ {p}
      /\ \/ UNCHANGED <<proc, unreported>>
         \/ proc[p] \in Going /\ proc'[p] \in Going /\ UNCHANGED unreported
         \/ proc[p] \in Going /\ proc'[p] = "zombie" /\ p \notin unreported'
         \/ proc[p] \in Going /\ proc'[p] = "stopped"
  BY <1>0 DEF TypeOK, Child, Setpgid, Exec, ChildAdvances, ChildSwallows, ChildDies,
              ChildStops, Die, StopNow, Going
<1>3. News'
  BY <1>0, <1>2 DEF News, TypeOK, Going
<1>4. Marking'
  BY <1>0, <1>1, <1>2 DEF Marking, handling, Going
<1>5. StoppedIsStopped'
  BY <1>0, <1>1, <1>2 DEF StoppedIsStopped, TypeOK, Jobs, Job, flow, Going
<1>6. Resumed'
  BY <1>0, <1>1 DEF Resumed, flow
<1> QED
  BY <1>3, <1>4, <1>5, <1>6 DEF Stops

\* Every step of the shell keeps Stops.
LEMMA NextStops == Base /\ Lists /\ Stops /\ [Next]_vars => Stops'
<1> SUFFICES ASSUME Base, Lists, Stops, [Next]_vars PROVE Stops'
  OBVIOUS
<1>1. ASSUME \/ \E s \in Keyboard : KeyboardHandler(s)
             \/ \E s \in Signal : Deliver(s)
             \/ \E s \in Typed : Type(s)
             \/ Terminated
             \/ UNCHANGED vars
      PROVE  Stops'
  <2>1. /\ UNCHANGED <<jobs, proc, unreported, flow>>
        /\ hpc'["CHLD"] = "mark" => hpc["CHLD"] = "mark" /\ hpid'["CHLD"] = hpid["CHLD"]
    BY <1>1 DEF Base, TypeOK, KeyboardHandler, FindFg, Forward, ForwardFails,
                SendKeyboard, HandlerGoto, HandlerReturn, Deliver, Type, Terminated,
                Signal, Keyboard, vars, table, procs, handling
  <2>2. News' /\ Marking' /\ Resumed' /\ StoppedIsStopped'
    BY <2>1 DEF Stops, News, Marking, Resumed, StoppedIsStopped, flow
  <2> QED
    BY <2>2 DEF Stops
<1> QED
  BY <1>1, MainKeepsStops, CommandKeepsStops, ChildHandlerKeepsStops, ChildKeepsStops
     DEF Next, HandlerStep

\* A job shown as Stopped does not run, except between the kill and the state
\* change of the do_bgfg that restarts it, however the handlers interleave.
THEOREM StoppedJobsAreStopped == Spec => []StoppedIsStopped
<1>1. Init => Stops
  BY DEF Init, Stops, News, Marking, Resumed, StoppedIsStopped, Signal, initjobs, clearjob
<1>2. Stops => StoppedIsStopped
  BY DEF Stops
<1> QED
  BY <1>1, <1>2, NextStops, ListsInvariant, PTL DEF Spec

-----------------------------------------------------------------------------
(***************************************************************************)
(* The shell that holds SIGCHLD back over "fg" and "bg".  Its steps are    *)
(* steps of the shell, so what is proved above holds of it; what it adds   *)
(* is that the job do_bgfg has found is still the one it found when it     *)
(* writes the slot.  Hence no slot without a process has a state, and the  *)
(* jobs in the foreground are those of the pid that main has at hand.      *)
(***************************************************************************)
Quiet == InBgFg => hpc["CHLD"] = "off"
NoGhost == \A i \in Slot : jobs[i].pid = NoPid => jobs[i] = clearjob
Chosen ==
  /\ InBgFg => jobs[job].pid # NoPid
  /\ pc \in {"kill", "setstate"} => jobs[job].pid = pid
Foreground ==
  /\ pc \notin {"unblock", "waitfg"} \/ (pc = "unblock" /\ cmd = "BG") =>
       FgSlots(jobs) = {}
  /\ pc \in {"unblock", "waitfg"} => \A i \in FgSlots(jobs) : jobs[i].pid = pid
Fresh ==
  pc \in {"addjob", "setstate"} /\ proc[pid] = "stopped" => pid \in unreported

Held == Quiet /\ NoGhost /\ Chosen /\ Foreground
Shown == Fresh /\ StopsShown

\* A step of the shell that holds SIGCHLD back is one of the shell.
LEMMA HeldIsNext == [NextHeld]_vars => [Next]_vars
BY DEF NextHeld, Next

\* What was proved of the shell holds of the one that holds SIGCHLD back.
LEMMA HeldLists == SpecHeld => [](Base /\ Lists /\ Stops)
<1>1. Init => Stops
  BY DEF Init, Stops, News, Marking, Resumed, StoppedIsStopped, Signal, initjobs, clearjob
<1> QED
  BY <1>1, InitBase, InitLists, HeldIsNext, NextBase, NextLists, NextStops, PTL
     DEF SpecHeld

\* What Held depends on, when the table and main's place stay.
LEMMA HeldStays ==
  ASSUME Held, UNCHANGED <<jobs, flow>>, InBgFg => hpc'["CHLD"] \in {"off", hpc["CHLD"]}
  PROVE  Held'
<1>1. Quiet'
  BY DEF Held, Quiet, InBgFg, flow
<1>2. NoGhost' /\ Chosen' /\ Foreground'
  BY DEF Held, NoGhost, Chosen, Foreground, FgSlots, InBgFg, flow
<1> QED
  BY <1>1, <1>2 DEF Held

\* eval, do_bgfg and waitfg keep Held.
LEMMA MainKeepsHeld ==
  ASSUME Base, Lists, Held, MainStep
  PROVE  Held'
<1>0. TypeOK /\ Control /\ Quiet /\ NoGhost /\ Chosen /\ Foreground
  BY DEF Base, Held
<1>a. hpc["CHLD"] = "off" /\ UNCHANGED handling
  <2>1. stack = <<>> /\ UNCHANGED handling
    BY DEF MainStep, Fork, ForkFails, AddJob, Unblock, Announce, AnnounceNull,
           WaitfgReturns, ReadJobPid, KillCont, KillContFails, SetFg, SetBg, Main
  <2> QED
    BY <2>1, ChldOff DEF Base
<1>b. Quiet'
  BY <1>a DEF Quiet, handling
<1>1. ASSUME NEW p \in Pids, Fork(p) PROVE Held'
  <2>1. UNCHANGED jobs /\ pc = "fork" /\ pc' = "addjob"
    BY <1>1 DEF Fork, Main, table
  <2>2. NoGhost' /\ Chosen' /\ Foreground'
    BY <1>0, <2>1 DEF NoGhost, Chosen, Foreground, FgSlots, InBgFg
  <2> QED
    BY <1>b, <2>2 DEF Held
<1>2. ASSUME AddJob PROVE Held'
  <2>1. Added(jobs, nextjid, pid, cmd, jobs', nextjid')
    BY <1>2, AddJobEffect DEF Base, TypeOK, Control, AddJob, Main, Jobs, Table
  <2>2. /\ pc = "addjob" /\ pc' = "unblock" /\ UNCHANGED <<pid, cmd>>
        /\ pid \in Pids /\ pid # NoPid /\ FgSlots(jobs) = {}
    BY <1>0, <1>2, PidAssumption DEF Control, AddJob, Main, Goto, Foreground
  <2>3. \A i \in Slot : \/ jobs'[i] = jobs[i]
                        \/ jobs'[i].pid = pid /\ jobs'[i].state = cmd
    BY <2>1 DEF Added
  <2>4. NoGhost'
    BY <1>0, <2>2, <2>3 DEF NoGhost
  <2>5. Foreground'
    BY <2>2, <2>3 DEF Foreground, FgSlots
  <2>6. Chosen'
    BY <2>2 DEF Chosen, InBgFg
  <2> QED
    BY <1>b, <2>4, <2>5, <2>6 DEF Held
<1>3. ASSUME SetFg \/ SetBg PROVE Held'
  <2>1. /\ job \in Slot
        /\ \E v \in {"FG", "BG"} : StateSet(jobs, job, v, jobs') /\ (v = "FG" => SetFg)
    BY <1>3, StateWritten
       DEF Base, TypeOK, Control, InBgFg, Main, SetFg, SetBg, Jobs, Table
  <2>2. pc = "setstate" /\ FgSlots(jobs) = {} /\ jobs[job].pid = pid /\ pid # NoPid
    BY <1>0, <1>3 DEF SetFg, SetBg, Main, Foreground, Chosen, InBgFg
  <2>3. \/ pc' = "waitfg" /\ UNCHANGED pid
        \/ pc' = "read" /\ jobs'[job].state = "BG"
    <3>1. CASE SetFg
      BY <3>1 DEF SetFg, Goto
    <3>2. CASE SetBg
      <4>1. cmd # "fg"
        BY <3>2 DEF SetBg
      <4> QED
        BY <2>1, <3>2, <4>1 DEF SetFg, SetBg, Return, StateSet
    <3> QED
      BY <1>3, <3>1, <3>2
  <2>4. /\ jobs'[job].pid = pid
        /\ \A i \in Slot \ {job} : jobs'[i] = jobs[i]
    BY <2>1, <2>2 DEF StateSet
  <2>5. NoGhost'
    BY <1>0, <2>2, <2>4 DEF NoGhost
  <2>6. Foreground'
    BY <2>2, <2>3, <2>4 DEF Foreground, FgSlots
  <2>7. Chosen'
    BY <2>3 DEF Chosen, InBgFg
  <2> QED
    BY <1>b, <2>5, <2>6, <2>7 DEF Held
<1>4. ASSUME KillCont PROVE Held'
  <2>1. pc = "kill" /\ pc' = "setstate" /\ UNCHANGED <<jobs, job, pid>>
    BY <1>4 DEF KillCont, Main, Goto, table
  <2>2. NoGhost' /\ Chosen' /\ Foreground'
    BY <1>0, <2>1 DEF NoGhost, Chosen, Foreground, FgSlots, InBgFg
  <2> QED
    BY <1>b, <2>2 DEF Held
<1>5. ASSUME ReadJobPid PROVE Held'
  <2>1. pc = "jobpid" /\ pc' = "kill" /\ pid' = jobs[job].pid /\ UNCHANGED <<jobs, job>>
    BY <1>5 DEF ReadJobPid, Main, table
  <2>2. NoGhost' /\ Chosen' /\ Foreground'
    BY <1>0, <2>1 DEF NoGhost, Chosen, Foreground, FgSlots, InBgFg
  <2> QED
    BY <1>b, <2>2 DEF Held
<1>6. ASSUME Unblock \/ Announce PROVE Held'
  <2>1. /\ UNCHANGED jobs
        /\ \/ /\ pc = "unblock" /\ UNCHANGED pid
              /\ pc' = IF cmd = "BG" THEN "announce" ELSE "waitfg"
           \/ pc = "announce" /\ pc' = "read"
    BY <1>6 DEF Unblock, Announce, Main, Goto, Return, table
  <2>2. NoGhost' /\ Chosen' /\ Foreground'
    BY <1>0, <2>1 DEF NoGhost, Chosen, Foreground, FgSlots, InBgFg
  <2> QED
    BY <1>b, <2>2 DEF Held
<1>7. ASSUME WaitfgReturns PROVE Held'
  <2>1. UNCHANGED jobs /\ pc = "waitfg" /\ pc' = "read" /\ pid # fgpid(jobs)
    BY <1>7 DEF WaitfgReturns, Main, Return, table
  <2>2. FgSlots(jobs) = {}
    BY <1>0, <2>1, FgPid DEF Foreground, FgSlots
  <2>3. NoGhost' /\ Chosen' /\ Foreground'
    BY <1>0, <2>1, <2>2 DEF NoGhost, Chosen, Foreground, FgSlots, InBgFg
  <2> QED
    BY <1>b, <2>3 DEF Held
<1>8. ASSUME ForkFails \/ AnnounceNull \/ KillContFails PROVE Held'
  <2>1. UNCHANGED <<jobs, flow, handling>>
    BY <1>8 DEF ForkFails, AnnounceNull, KillContFails, table
  <2> QED
    BY <2>1, HeldStays DEF handling
<1> QED
  BY <1>1, <1>2, <1>3, <1>4, <1>5, <1>6, <1>7, <1>8 DEF MainStep

\* Reading a command keeps Held: the handlers are off, and "%j" and a process
\* ID find only slots that hold a process.
LEMMA CommandKeepsHeld ==
  ASSUME Base, Held, Command
  PROVE  Held'
<1>0. TypeOK /\ Quiet /\ NoGhost /\ Chosen /\ Foreground /\ UNCHANGED <<jobs, handling>>
  BY DEF Base, Held, Command, Launch, BgFgByJid, BgFgByPid, Quit, table
<1>1. CASE Quit
  <2>1. UNCHANGED flow
    BY <1>1 DEF Quit
  <2> QED
    BY <1>0, <2>1, HeldStays DEF handling
<1>2. ASSUME pc = "read", stack = <<>>, pc' = "fork" \/ pc' \in {"jobpid", "kill"},
             InBgFg' => jobs[job'].pid # NoPid,
             pc' = "kill" => jobs[job'].pid = pid'
      PROVE  Held'
  <2>1. hpc["CHLD"] = "off"
    BY <1>2, ChldOff DEF Base
  <2>2. Quiet' /\ NoGhost' /\ Chosen' /\ Foreground'
    BY <1>0, <1>2, <2>1 DEF Quiet, NoGhost, Chosen, Foreground, FgSlots, InBgFg, handling
  <2> QED
    BY <2>2 DEF Held
<1>3. ASSUME NEW s \in {"FG", "BG"}, Launch(s) PROVE Held'
  BY <1>2, <1>3 DEF Launch, Main, InBgFg
<1>4. ASSUME NEW c \in Builtins, NEW j \in 1 .. JidBound, BgFgByJid(c, j) PROVE Held'
  <2>1. /\ pc' = "jobpid" /\ job' = getjobjid(jobs, j) /\ pc = "read" /\ stack = <<>>
        /\ getjobjid(jobs, j) # NoSlot
    BY <1>4 DEF BgFgByJid, Main
  <2>2. job' \in Slot /\ jobs[job'].jid = j /\ j # 0
    BY <2>1, GetJobJid
  <2>3. jobs[job'].pid # NoPid
    BY <1>0, <2>2 DEF NoGhost, clearjob
  <2> QED
    BY <1>2, <2>1, <2>3
<1>5. ASSUME NEW c \in Builtins, NEW p \in Pids, BgFgByPid(c, p) PROVE Held'
  <2>1. /\ pc' = "kill" /\ pid' = p /\ job' = getjobpid(jobs, p) /\ pc = "read"
        /\ stack = <<>> /\ getjobpid(jobs, p) # NoSlot
    BY <1>5 DEF BgFgByPid, Main
  <2>2. jobs[job'].pid = p /\ p # NoPid
    BY <2>1, GetJobPid
  <2> QED
    BY <1>2, <2>1, <2>2
<1> QED
  BY <1>1, <1>3, <1>4, <1>5 DEF Command

\* sigchld_handler, which never runs during "fg" and "bg", keeps Held.
LEMMA ChildHandlerKeepsHeld ==
  ASSUME Base, Held, ChildHandler
  PROVE  Held'
<1>0. TypeOK /\ Quiet /\ NoGhost /\ Chosen /\ Foreground /\ UNCHANGED flow
  BY DEF Base, Held, ChildHandler, WaitpidZombie, WaitpidStopped, WaitpidNone,
         DeleteJob, MarkStopped, MarkNull
<1>1. ~InBgFg
  BY <1>0 DEF Quiet, ChildHandler, WaitpidZombie, WaitpidStopped, WaitpidNone,
              DeleteJob, MarkStopped, MarkNull, Handler
<1>2. Quiet' /\ Chosen'
  BY <1>0, <1>1 DEF Quiet, Chosen, InBgFg, flow
<1>3. ASSUME DeleteJob PROVE Held'
  <2>1. Deleted(jobs, nextjid, hpid["CHLD"], jobs', nextjid')
    BY <1>0, <1>3, DeleteJobEffect DEF TypeOK, DeleteJob, Jobs, Table
  <2>2. \A i \in Slot : jobs'[i] = jobs[i] \/ jobs'[i] = clearjob
    BY <2>1 DEF Deleted
  <2>3. NoGhost' /\ Foreground'
    BY <1>0, <2>2 DEF NoGhost, Foreground, FgSlots, clearjob, flow
  <2> QED
    BY <1>2, <2>3 DEF Held
<1>4. ASSUME MarkStopped PROVE Held'
  <2> DEFINE i == getjobpid(jobs, hpid["CHLD"])
  <2>1. /\ i \in Slot /\ jobs[i].pid = hpid["CHLD"] /\ hpid["CHLD"] # NoPid
        /\ StateSet(jobs, i, "ST", jobs')
    BY <1>0, <1>4, GetJobPid, StateWritten DEF MarkStopped, TypeOK, Jobs, Table
  <2>2. /\ \A k \in Slot \ {i} : jobs'[k] = jobs[k]
        /\ jobs'[i].pid # NoPid /\ jobs'[i].state = "ST"
    BY <2>1 DEF StateSet
  <2> HIDE DEF i
  <2>3. NoGhost' /\ Foreground'
    BY <1>0, <2>1, <2>2 DEF NoGhost, Foreground, FgSlots, flow
  <2> QED
    BY <1>2, <2>3 DEF Held
<1>5. CASE UNCHANGED jobs
  BY <1>0, <1>1, <1>5, HeldStays
<1> QED
  BY <1>3, <1>4, <1>5 DEF ChildHandler, WaitpidZombie, WaitpidStopped, WaitpidNone,
                          MarkNull, table

\* Every step of the shell that holds SIGCHLD back keeps Held.
LEMMA NextKeepsHeld == Base /\ Lists /\ Held /\ [NextHeld]_vars => Held'
<1> SUFFICES ASSUME Base, Lists, Held, [NextHeld]_vars PROVE Held'
  OBVIOUS
<1>1. ASSUME \/ \E s \in Keyboard : KeyboardHandler(s)
             \/ \E s \in Signal : ~(s = "CHLD" /\ InBgFg) /\ Deliver(s)
             \/ \E s \in Typed : Type(s)
             \/ \E p \in Pids : Child(p)
             \/ Terminated
             \/ UNCHANGED vars
      PROVE  Held'
  <2>1. /\ UNCHANGED <<jobs, flow>>
        /\ InBgFg => hpc'["CHLD"] = hpc["CHLD"]
    BY <1>1 DEF Base, TypeOK, KeyboardHandler, FindFg, Forward, ForwardFails,
                SendKeyboard, HandlerGoto, HandlerReturn, Deliver, Type, Terminated,
                Child, Setpgid, Exec, ChildAdvances, ChildSwallows, ChildDies,
                ChildStops, Signal, Keyboard, vars, table, handling
  <2> QED
    BY <2>1, HeldStays
<1> QED
  BY <1>1, MainKeepsHeld, CommandKeepsHeld, ChildHandlerKeepsHeld
     DEF NextHeld, HandlerStep

\* The strengthened invariant of the shell that holds SIGCHLD back.
THEOREM HeldInvariant == SpecHeld => [](Base /\ Lists /\ Stops /\ Held)
<1>1. Init => Held
  BY DEF Init, Held, Quiet, NoGhost, Chosen, Foreground, InBgFg, FgSlots, initjobs,
         clearjob
<1> QED
  BY <1>1, HeldLists, NextKeepsHeld, PTL DEF SpecHeld

\* With SIGCHLD held back over "fg" and "bg", at most one job is in the
\* foreground: those there are have the pid that main is waiting for, and a
\* process has one slot.
THEOREM OneForegroundJob == SpecHeld => []AtMostOneFG
<1>1. ASSUME Lists, Held PROVE AtMostOneFG
  <2>1. \A i, k \in FgSlots(jobs) : i = k
    <3>1. \A i \in FgSlots(jobs) : jobs[i].pid = pid /\ i \in Slot
      BY <1>1 DEF Held, Foreground, FgSlots
    <3>2. \A i \in FgSlots(jobs) : jobs[i].pid # NoPid
      BY <1>1 DEF Held, NoGhost, FgSlots, clearjob
    <3>3. \A i \in FgSlots(jobs) : SlotsOf(pid) = {i}
      BY <1>1, <3>1, <3>2 DEF Lists, ListedOnce
    <3> QED
      BY <3>3
  <2>2. FgSlots(jobs) = {} \/ \E i : FgSlots(jobs) = {i}
    BY <2>1
  <2>3. Cardinality(FgSlots(jobs)) \in {0, 1}
    BY <2>2, FS_EmptySet, FS_Singleton
  <2> QED
    BY <2>3 DEF AtMostOneFG
<1> QED
  BY <1>1, HeldInvariant, PTL

\* With SIGCHLD held back over "fg" and "bg", the prompt comes back only when
\* no job is in the foreground, and waitfg waits for the one that is.
THEOREM PromptIsFree == SpecHeld => []PromptFree
<1>1. Held => PromptFree
  BY DEF Held, Foreground, PromptFree
<1> QED
  BY <1>1, HeldInvariant, PTL

(***************************************************************************)
(* Shown: a stop that addjob or do_bgfg has not seen yet is still to be    *)
(* reported, for sigchld_handler cannot have run since the fork or the     *)
(* kill.                                                                   *)
(***************************************************************************)
\* The steps of main keep Shown.
LEMMA MainKeepsShown ==
  ASSUME Base, Lists, Stops, Held, Shown, MainStep
  PROVE  Shown'
<1>0. TypeOK /\ Control /\ Fresh /\ StopsShown
  BY DEF Base, Shown
<1>a. hpc["CHLD"] = "off" /\ UNCHANGED handling
  <2>1. stack = <<>> /\ UNCHANGED handling
    BY DEF MainStep, Fork, ForkFails, AddJob, Unblock, Announce, AnnounceNull,
           WaitfgReturns, ReadJobPid, KillCont, KillContFails, SetFg, SetBg, Main
  <2> QED
    BY <2>1, ChldOff DEF Base
<1>b. \A p \in Pids : ~BeingMarked(p) /\ ~BeingMarked(p)'
  BY <1>a DEF BeingMarked, handling
<1>1. ASSUME NEW p \in Pids, Fork(p) PROVE Shown'
  <2>1. /\ UNCHANGED <<jobs, unreported>> /\ pc' = "addjob" /\ pid' = p
        /\ proc'[p] = "forked" /\ \A q \in Pids \ {p} : proc'[q] = proc[q]
    BY <1>0, <1>1 DEF TypeOK, Fork, table
  <2>2. Fresh'
    BY <2>1 DEF Fresh
  <2>3. StopsShown'
    BY <1>0, <1>b, <2>1 DEF StopsShown, SlotsOf
  <2> QED
    BY <2>2, <2>3 DEF Shown
<1>2. ASSUME AddJob PROVE Shown'
  <2>1. Added(jobs, nextjid, pid, cmd, jobs', nextjid')
    BY <1>2, AddJobEffect DEF Base, TypeOK, Control, AddJob, Main, Jobs, Table
  <2>2. pc = "addjob" /\ pc' = "unblock" /\ UNCHANGED procs
    BY <1>2 DEF AddJob, Main, Goto
  <2>3. \A i \in Slot : jobs'[i] = jobs[i] \/ jobs'[i].pid = pid
    BY <2>1 DEF Added
  <2>4. Fresh'
    BY <2>2 DEF Fresh
  <2>5. StopsShown'
    BY <1>0, <1>b, <2>2, <2>3 DEF StopsShown, Fresh, SlotsOf, procs
  <2> QED
    BY <2>4, <2>5 DEF Shown
<1>3. ASSUME SetFg \/ SetBg PROVE Shown'
  <2>1. /\ job \in Slot
        /\ \E v \in {"FG", "BG"} : StateSet(jobs, job, v, jobs')
    BY <1>3, StateWritten
       DEF Base, TypeOK, Control, InBgFg, Main, SetFg, SetBg, Jobs, Table
  <2>2. /\ pc = "setstate" /\ pc' \in {"waitfg", "read"} /\ UNCHANGED procs
        /\ jobs[job].pid = pid
    BY <1>3 DEF SetFg, SetBg, Main, Goto, Return, Held, Chosen
  <2>3. \A i \in Slot : jobs'[i] = jobs[i] \/ (i = job /\ jobs'[i].pid = pid)
    BY <2>1, <2>2 DEF StateSet
  <2>4. Fresh'
    BY <2>2 DEF Fresh
  <2>5. StopsShown'
    BY <1>0, <1>b, <2>2, <2>3 DEF StopsShown, Fresh, SlotsOf, procs
  <2> QED
    BY <2>4, <2>5 DEF Shown
<1>4. ASSUME KillCont PROVE Shown'
  <2>1. /\ pc = "kill" /\ pc' = "setstate" /\ UNCHANGED <<jobs, job, pid>>
        /\ pid \in Pids /\ SendCont(pid)
    BY <1>0, <1>4 DEF KillCont, Main, Goto, table, Held, Chosen, InBgFg, TypeOK
  <2>2. /\ \A q \in Pids \ {pid} : proc'[q] = proc[q]
        /\ proc'[pid] # "stopped" /\ unreported' = unreported \ {pid}
    BY <1>0, <2>1 DEF SendCont, TypeOK
  <2>3. Fresh'
    BY <2>1, <2>2 DEF Fresh
  <2>4. StopsShown'
    BY <1>0, <1>b, <2>1, <2>2 DEF StopsShown, SlotsOf
  <2> QED
    BY <2>3, <2>4 DEF Shown
<1>5. ASSUME \/ ForkFails \/ Unblock \/ Announce \/ AnnounceNull \/ WaitfgReturns
             \/ ReadJobPid \/ KillContFails
      PROVE  Shown'
  <2>1. /\ UNCHANGED <<jobs, proc, unreported>>
        /\ UNCHANGED flow \/ pc' \in {"announce", "waitfg", "read", "kill"}
    BY <1>5 DEF ForkFails, Unblock, Announce, AnnounceNull, WaitfgReturns,
                ReadJobPid, KillContFails, Return, Goto, table, procs, flow
  <2>2. Fresh' /\ StopsShown'
    BY <1>0, <1>b, <2>1 DEF Fresh, StopsShown, SlotsOf, flow
  <2> QED
    BY <2>2 DEF Shown
<1> QED
  BY <1>1, <1>2, <1>3, <1>4, <1>5 DEF MainStep

\* sigchld_handler keeps Shown: the stop it takes from waitpid it records.
LEMMA ChildHandlerKeepsShown ==
  ASSUME Base, Lists, Held, Shown, ChildHandler
  PROVE  Shown'
<1>0. TypeOK /\ Fresh /\ StopsShown /\ UNCHANGED flow
  BY DEF Base, Shown, ChildHandler, WaitpidZombie, WaitpidStopped, WaitpidNone,
         DeleteJob, MarkStopped, MarkNull
<1>1. hpc["CHLD"] # "off"
  BY DEF ChildHandler, WaitpidZombie, WaitpidStopped, WaitpidNone,
         DeleteJob, MarkStopped, MarkNull, Handler
<1>2. pc' \notin {"addjob", "setstate"}
  BY <1>0, <1>1 DEF Base, Control, Handlers, Held, Quiet, InBgFg, flow
<1>3. Fresh'
  BY <1>2 DEF Fresh
<1>4. ASSUME NEW p \in Pids, WaitpidZombie(p) PROVE StopsShown'
  <2>1. /\ UNCHANGED <<jobs, unreported>> /\ hpc["CHLD"] = "waitpid"
        /\ \A q \in Pids : proc'[q] = "stopped" => proc[q] = "stopped"
    BY <1>0, <1>4 DEF TypeOK, WaitpidZombie, Handler, table
  <2> QED
    BY <1>0, <2>1 DEF StopsShown, SlotsOf, BeingMarked
<1>5. ASSUME NEW p \in Pids, WaitpidStopped(p) PROVE StopsShown'
  <2>1. /\ UNCHANGED <<jobs, proc>> /\ hpc["CHLD"] = "waitpid"
        /\ unreported' = unreported \ {p}
        /\ hpc'["CHLD"] = "mark" /\ hpid'["CHLD"] = p
    BY <1>0, <1>5 DEF TypeOK, WaitpidStopped, Handler, HandlerGoto, Signal, table
  <2> QED
    BY <1>0, <2>1 DEF StopsShown, SlotsOf, BeingMarked
<1>6. ASSUME DeleteJob PROVE StopsShown'
  <2>1. Deleted(jobs, nextjid, hpid["CHLD"], jobs', nextjid')
    BY <1>0, <1>6, DeleteJobEffect DEF TypeOK, DeleteJob, Jobs, Table
  <2>2. \A i \in Slot : jobs'[i] = jobs[i] \/ jobs'[i].pid = NoPid
    BY <2>1 DEF Deleted, clearjob
  <2>3. UNCHANGED procs /\ hpc["CHLD"] = "delete"
    BY <1>6 DEF DeleteJob, Handler
  <2> QED
    BY <1>0, <2>2, <2>3, PidAssumption DEF StopsShown, SlotsOf, BeingMarked, procs
<1>7. ASSUME MarkStopped PROVE StopsShown'
  <2> DEFINE i == getjobpid(jobs, hpid["CHLD"])
  <2>1. /\ i \in Slot /\ jobs[i].pid = hpid["CHLD"] /\ hpid["CHLD"] # NoPid
        /\ StateSet(jobs, i, "ST", jobs')
    BY <1>0, <1>7, GetJobPid, StateWritten DEF MarkStopped, TypeOK, Jobs, Table
  <2>2. /\ \A k \in Slot \ {i} : jobs'[k] = jobs[k] /\ jobs[k].pid # hpid["CHLD"]
        /\ jobs'[i].state = "ST"
    BY <2>1 DEF StateSet, Lists, ListedOnce, SlotsOf
  <2> HIDE DEF i
  <2>3. UNCHANGED procs
    BY <1>7 DEF MarkStopped
  <2>4. ASSUME NEW p \in Pids, proc'[p] = "stopped", p \notin unreported',
               NEW k \in Slot, jobs'[k].pid = p
        PROVE  jobs'[k].state = "ST"
    <3>1. CASE k = i
      BY <2>2, <3>1
    <3>2. CASE k # i
      <4>1. jobs[k].pid = p /\ jobs'[k] = jobs[k] /\ ~BeingMarked(p)
        BY <2>2, <2>4, <3>2 DEF BeingMarked
      <4> QED
        BY <1>0, <2>3, <2>4, <4>1 DEF StopsShown, SlotsOf, procs
    <3> QED
      BY <3>1, <3>2
  <2> QED
    BY <2>4 DEF StopsShown, SlotsOf
<1>8. ASSUME WaitpidNone \/ MarkNull PROVE StopsShown'
  <2>1. /\ UNCHANGED <<jobs, proc, unreported>>
        /\ UNCHANGED handling \/ hpc["CHLD"] = "waitpid"
    BY <1>8 DEF WaitpidNone, MarkNull, Handler, table, procs
  <2> QED
    BY <1>0, <2>1 DEF StopsShown, SlotsOf, BeingMarked, handling
<1> QED
  BY <1>3, <1>4, <1>5, <1>6, <1>7, <1>8 DEF ChildHandler, Shown

\* Every step of the shell that holds SIGCHLD back keeps Shown.
LEMMA NextShown == Base /\ Lists /\ Stops /\ Held /\ Shown /\ [NextHeld]_vars => Shown'
<1> SUFFICES ASSUME Base, Lists, Stops, Held, Shown, [NextHeld]_vars PROVE Shown'
  OBVIOUS
<1>0. TypeOK /\ Control /\ Fresh /\ StopsShown
  BY DEF Base, Shown
<1>1. ASSUME Command PROVE Shown'
  <2>1. /\ UNCHANGED <<jobs, proc, unreported, handling>>
        /\ UNCHANGED flow \/ pc' \in {"fork", "jobpid", "kill"}
    BY <1>1 DEF Command, Launch, BgFgByJid, BgFgByPid, Quit, table, procs
  <2>2. Fresh' /\ StopsShown'
    BY <1>0, <2>1 DEF Fresh, StopsShown, SlotsOf, BeingMarked, flow, handling
  <2> QED
    BY <2>2 DEF Shown
<1>2. ASSUME NEW p \in Pids, Child(p) PROVE Shown'
  <2>1. UNCHANGED <<jobs, flow, handling>>
    BY <1>2 DEF Child, Setpgid, Exec, ChildAdvances, ChildSwallows, ChildDies,
                ChildStops, table
  <2>2. \A q \in Pids : proc'[q] = "stopped" /\ q \notin unreported'
                        => proc[q] = "stopped" /\ q \notin unreported
    BY <1>0, <1>2 DEF TypeOK, Child, Setpgid, Exec, ChildAdvances, ChildSwallows,
                      ChildDies, ChildStops, Die, StopNow
  <2>3. pc \in {"addjob", "setstate"} => pid \in Pids
    BY <1>0 DEF Control, Held, Chosen, InBgFg, TypeOK
  <2>4. Fresh' /\ StopsShown'
    BY <1>0, <2>1, <2>2, <2>3 DEF Fresh, StopsShown, SlotsOf, BeingMarked, flow, handling
  <2> QED
    BY <2>4 DEF Shown
<1>3. ASSUME \/ \E s \in Keyboard : KeyboardHandler(s)
             \/ \E s \in Signal : ~(s = "CHLD" /\ InBgFg) /\ Deliver(s)
             \/ \E s \in Typed : Type(s)
             \/ Terminated
             \/ UNCHANGED vars
      PROVE  Shown'
  <2>1. /\ UNCHANGED <<jobs, proc, unreported, flow>>
        /\ hpc["CHLD"] = "mark" => hpc'["CHLD"] = "mark" /\ hpid'["CHLD"] = hpid["CHLD"]
    BY <1>0, <1>3
       DEF TypeOK, KeyboardHandler, FindFg, Forward, ForwardFails, SendKeyboard,
           HandlerGoto, HandlerReturn, Deliver, Type, Terminated, Signal, Keyboard,
           vars, table, procs, handling
  <2>2. Fresh' /\ StopsShown'
    BY <1>0, <2>1 DEF Fresh, StopsShown, SlotsOf, BeingMarked, flow
  <2> QED
    BY <2>2 DEF Shown
<1> QED
  BY <1>1, <1>2, <1>3, MainKeepsShown, ChildHandlerKeepsShown DEF NextHeld, HandlerStep

\* With SIGCHLD held back over "fg" and "bg", a job whose stop waitpid has
\* reported and sigchld_handler has recorded is shown as Stopped for as long
\* as it is.
THEOREM StopsAreShown == SpecHeld => []StopsShown
<1>1. Init => Shown
  BY DEF Init, Shown, Fresh, StopsShown
<1>2. Shown => StopsShown
  BY DEF Shown
<1> QED
  BY <1>1, <1>2, HeldInvariant, NextShown, PTL DEF SpecHeld

-----------------------------------------------------------------------------
(***************************************************************************)
(* The shell that holds SIGCHLD back implements JobControl.  The mode of a *)
(* process is the state of its slot; each step that changes a slot changes *)
(* the mode of one process, and is the transition of that name.            *)
(***************************************************************************)
Mode == {"none", "UNDEF", "FG", "BG", "ST"}

\* What the modes m of the processes are in a table t.
ModesOf(t, m) ==
  /\ m \in [Pids -> Mode]
  /\ \A p \in Pids : \/ m[p] = "none" /\ \A i \in Slot : t[i].pid # p
                     \/ \E i \in Slot : /\ t[i].pid = p /\ m[p] = t[i].state
                                        /\ \A k \in Slot : t[k].pid = p => k = i

\* The mapping of the refinement reads each process's only slot.
LEMMA ModesRead == TypeOK /\ ListedOnce => ModesOf(jobs, modeOf)
<1> SUFFICES ASSUME TypeOK, ListedOnce PROVE ModesOf(jobs, modeOf)
  OBVIOUS
<1>1. ASSUME NEW p \in Pids
      PROVE  \/ modeOf[p] = "none" /\ \A i \in Slot : jobs[i].pid # p
             \/ \E i \in Slot : /\ jobs[i].pid = p /\ modeOf[p] = jobs[i].state
                                /\ \A k \in Slot : jobs[k].pid = p => k = i
  <2>1. CASE ~Listed(p)
    BY <2>1 DEF modeOf, Listed, SlotsOf
  <2>2. CASE Listed(p)
    <3> DEFINE i == getjobpid(jobs, p)
    <3>1. i \in Slot /\ jobs[i].pid = p /\ p # NoPid
      BY <2>2, GetJobPid, PidAssumption DEF Listed, SlotsOf
    <3>2. modeOf[p] = jobs[i].state
      BY <2>2 DEF modeOf
    <3> HIDE DEF i
    <3>3. \A k \in Slot : jobs[k].pid = p => k = i
      BY <3>1 DEF ListedOnce, SlotsOf
    <3> QED
      BY <3>1, <3>2, <3>3
  <2> QED
    BY <2>1, <2>2
<1>2. modeOf = [p \in Pids |-> modeOf[p]]
  BY DEF modeOf
<1>3. \A p \in Pids : modeOf[p] \in Mode
  BY <1>1 DEF TypeOK, Jobs, Job, Mode
<1> QED
  BY <1>1, <1>2, <1>3 DEF ModesOf

\* When only slots of p change, or slots that get or had no process, only the
\* mode of p changes.
LEMMA OneModeChanges ==
  ASSUME NEW t, NEW m, ModesOf(t, m), NEW u, NEW n, ModesOf(u, n), NEW p \in Pids,
         \A i \in Slot : u[i] = t[i] \/ {t[i].pid, u[i].pid} \subseteq {p, NoPid}
  PROVE  n = [m EXCEPT ![p] = n[p]]
<1>1. ASSUME NEW q \in Pids \ {p} PROVE n[q] = m[q]
  <2>1. \A i \in Slot : t[i].pid = q \/ u[i].pid = q => u[i] = t[i]
    BY PidAssumption
  <2> QED
    BY <2>1 DEF ModesOf
<1> QED
  BY <1>1 DEF ModesOf

\* With no foreground slot no process is in the mode "FG".
LEMMA NoForeground ==
  ASSUME ModesOf(jobs, modeOf), FgSlots(jobs) = {}
  PROVE  JC!InMode("FG") = {}
BY DEF ModesOf, FgSlots, JC!InMode

\* JobControl counts as the shell does.
LEMMA SameCount == \A S : JC!Cardinality(S) = Cardinality(S)
BY DEF JC!Cardinality, Cardinality

\* The processes JobControl calls listed are those of the slots in use.
LEMMA RoomToStart ==
  ASSUME TypeOK, Lists, ModesOf(jobs, modeOf), FreeSlots(jobs) # {}
  PROVE  JC!Cardinality(JC!Listed) < MaxJobs
<1> DEFINE L == {p \in Pids : \E i \in Slot : jobs[i].pid = p}
<1>1. \A i, k \in Slot : jobs[i].pid = jobs[k].pid /\ jobs[i].pid # NoPid => i = k
  BY DEF Lists, ListedOnce, SlotsOf
<1>2. Cardinality(L) < MaxJobs
  BY <1>1, SlotsCounted DEF TypeOK, Jobs, Table
<1>3. \A i \in Slot : jobs[i].state # "none"
  BY DEF TypeOK, Jobs, Job
<1>4. JC!Listed = L
  BY <1>3 DEF ModesOf, JC!Listed, JC!InMode
<1> QED
  BY <1>2, <1>4, SameCount

\* A step that changes neither the table nor whether main is at the prompt
\* is a stutter of JobControl.
LEMMA JobsStay ==
  ASSUME UNCHANGED jobs, (pc = "read") <=> (pc' = "read")
  PROVE  [JC!Next]_(JC!vars)
<1>1. modeOf' = modeOf
  BY DEF modeOf, Listed, SlotsOf
<1> QED
  BY <1>1 DEF JC!vars

\* addjob starts a job in the mode of the command, if there is room.
LEMMA AddJobStarts ==
  ASSUME Base, Lists, Held, AddJob, ModesOf(jobs, modeOf), ModesOf(jobs', modeOf')
  PROVE  [JC!Next]_(JC!vars)
<1>1. Added(jobs, nextjid, pid, cmd, jobs', nextjid')
  BY AddJobEffect DEF Base, TypeOK, Control, AddJob, Main, Jobs, Table
<1>2. /\ pc = "addjob" /\ pc' = "unblock" /\ pid \in Pids /\ ~Listed(pid)
      /\ cmd \in {"FG", "BG"} /\ FgSlots(jobs) = {}
  BY DEF Base, Control, Lists, ToAdd, Held, Foreground, AddJob, Main, Goto
<1>3. CASE jobs' = jobs
  BY <1>2, <1>3, JobsStay
<1>4. ASSUME NEW i \in Slot, jobs[i].pid = NoPid,
             jobs'[i] = [pid |-> pid, jid |-> nextjid, state |-> cmd],
             \A k \in Slot \ {i} : jobs'[k] = jobs[k]
      PROVE  JC!Start(pid, cmd)
  <2>1. jobs'[i].pid = pid /\ jobs'[i].state = cmd
    BY <1>4
  <2>2. modeOf'[pid] = cmd
    BY <1>2, <2>1 DEF ModesOf
  <2>3. modeOf' = [modeOf EXCEPT ![pid] = cmd]
    <3>1. \A k \in Slot : jobs'[k] = jobs[k] \/ {jobs[k].pid, jobs'[k].pid} \subseteq {pid, NoPid}
      BY <1>4, <2>1
    <3>2. modeOf' = [modeOf EXCEPT ![pid] = modeOf'[pid]]
      BY <1>2, <3>1, OneModeChanges
    <3> QED
      BY <2>2, <3>2
  <2>4. modeOf[pid] = "none"
    BY <1>2 DEF ModesOf, Listed, SlotsOf
  <2>5. JC!Cardinality(JC!Listed) < MaxJobs
    BY <1>4, RoomToStart DEF Base, FreeSlots
  <2>6. JC!InMode("FG") = {}
    BY <1>2, NoForeground
  <2> QED
    BY <1>2, <2>3, <2>4, <2>5, <2>6 DEF JC!Start
<1>5. JC!Start(pid, cmd) => JC!Next
  BY <1>2 DEF JC!Next
<1> QED
  BY <1>1, <1>3, <1>4, <1>5 DEF Added

\* do_bgfg resumes a job in the mode of the command.
LEMMA SetStateResumes ==
  ASSUME Base, Lists, Held, SetFg \/ SetBg,
         ModesOf(jobs, modeOf), ModesOf(jobs', modeOf')
  PROVE  JC!Next
<1> DEFINE v == IF cmd = "fg" THEN "FG" ELSE "BG"
<1>1. /\ job \in Slot /\ jobs[job].pid = pid /\ pid # NoPid /\ FgSlots(jobs) = {}
      /\ pc = "setstate" /\ (pc' = "read" <=> v = "BG")
  BY DEF Base, Control, Held, Foreground, Chosen, InBgFg, SetFg, SetBg, Main, Goto, Return
<1>2. StateSet(jobs, job, v, jobs')
  BY <1>1, StateWritten DEF SetFg, SetBg, Base, TypeOK, Jobs, Table
<1>3. pid \in Pids
  BY <1>1 DEF Base, TypeOK
<1> v \in {"FG", "BG"}
  OBVIOUS
<1> HIDE DEF v
<1>4. /\ jobs'[job].pid = pid /\ jobs'[job].state = v
      /\ \A k \in Slot \ {job} : jobs'[k] = jobs[k]
  BY <1>1, <1>2 DEF StateSet
<1>5. modeOf'[pid] = v /\ modeOf[pid] = jobs[job].state
  BY <1>1, <1>3, <1>4 DEF ModesOf
<1>6. modeOf' = [modeOf EXCEPT ![pid] = v]
  <2>1. \A k \in Slot : jobs'[k] = jobs[k] \/ {jobs[k].pid, jobs'[k].pid} \subseteq {pid, NoPid}
    BY <1>1, <1>4
  <2>2. modeOf' = [modeOf EXCEPT ![pid] = modeOf'[pid]]
    BY <1>3, <2>1, OneModeChanges
  <2> QED
    BY <1>5, <2>2
<1>7. jobs[job].state \in {"BG", "ST"}
  BY <1>1 DEF Base, TypeOK, Jobs, Job, Lists, ListedOnce, FgSlots
<1>8. JC!InMode("FG") = {}
  BY <1>1, NoForeground
<1>9. JC!Resume(pid, v)
  BY <1>1, <1>5, <1>6, <1>7, <1>8 DEF JC!Resume
<1> QED
  BY <1>3, <1>9 DEF JC!Next

\* sigchld_handler stops and ends jobs, or does nothing to them.
LEMMA ChildHandlerStopsOrEnds ==
  ASSUME Base, Lists, Held, ChildHandler,
         ModesOf(jobs, modeOf), ModesOf(jobs', modeOf')
  PROVE  [JC!Next]_(JC!vars)
<1> DEFINE p == hpid["CHLD"]
<1>0. TypeOK /\ UNCHANGED pc
  BY DEF Base, ChildHandler, WaitpidZombie, WaitpidStopped, WaitpidNone, DeleteJob,
         MarkStopped, MarkNull, flow
<1>1. ASSUME DeleteJob PROVE [JC!Next]_(JC!vars)
  <2>1. Deleted(jobs, nextjid, p, jobs', nextjid')
    BY <1>0, <1>1, DeleteJobEffect DEF TypeOK, DeleteJob, Jobs, Table
  <2>2. p \in Pids
    BY <1>1 DEF Lists, ToDelete, DeleteJob, Handler
  <2> HIDE DEF p
  <2>3. CASE jobs' = jobs
    BY <1>0, <2>3, JobsStay
  <2>4. ASSUME NEW i \in Slot, jobs[i].pid = p, jobs'[i] = clearjob,
               \A k \in Slot \ {i} : jobs'[k] = jobs[k]
        PROVE  JC!End(p)
    <3>1. jobs'[i].pid = NoPid
      BY <2>4 DEF clearjob
    <3>2. \A k \in Slot : jobs'[k].pid # p
      <4>1. \A k \in Slot \ {i} : jobs[k].pid # p
        BY <2>2, <2>4, PidAssumption DEF Lists, ListedOnce, SlotsOf
      <4> QED
        BY <2>2, <2>4, <3>1, <4>1, PidAssumption
    <3>3. modeOf'[p] = "none"
      BY <2>2, <3>2 DEF ModesOf
    <3>4. modeOf[p] # "none"
      <4>1. modeOf[p] = jobs[i].state
        BY <2>2, <2>4 DEF ModesOf
      <4> QED
        BY <1>0, <4>1 DEF TypeOK, Jobs, Job
    <3>5. \A k \in Slot : jobs'[k] = jobs[k] \/ {jobs[k].pid, jobs'[k].pid} \subseteq {p, NoPid}
      BY <2>4, <3>1
    <3>6. modeOf' = [modeOf EXCEPT ![p] = modeOf'[p]]
      BY <2>2, <3>5, OneModeChanges
    <3> QED
      BY <1>0, <3>3, <3>4, <3>6 DEF JC!End
  <2> QED
    BY <2>1, <2>2, <2>3, <2>4 DEF Deleted, JC!Next
<1>2. ASSUME MarkStopped PROVE [JC!Next]_(JC!vars)
  <2> DEFINE i == getjobpid(jobs, p)
  <2>1. /\ i \in Slot /\ jobs[i].pid = p /\ p # NoPid
        /\ StateSet(jobs, i, "ST", jobs')
    BY <1>0, <1>2, GetJobPid, StateWritten DEF MarkStopped, TypeOK, Jobs, Table
  <2>2. p \in Pids
    BY <1>0, <2>1 DEF TypeOK, Jobs, Job
  <2> HIDE DEF i, p
  <2>3. /\ jobs'[i].pid = p /\ jobs'[i].state = "ST"
        /\ \A k \in Slot \ {i} : jobs'[k] = jobs[k]
    BY <2>1 DEF StateSet
  <2>4. modeOf'[p] = "ST" /\ modeOf[p] = jobs[i].state
    BY <2>1, <2>2, <2>3 DEF ModesOf
  <2>5. modeOf' = [modeOf EXCEPT ![p] = "ST"]
    <3>1. \A k \in Slot : jobs'[k] = jobs[k] \/ {jobs[k].pid, jobs'[k].pid} \subseteq {p, NoPid}
      BY <2>1, <2>3
    <3>2. modeOf' = [modeOf EXCEPT ![p] = modeOf'[p]]
      BY <2>2, <3>1, OneModeChanges
    <3> QED
      BY <2>4, <3>2
  <2>6. jobs[i].state \in {"FG", "BG", "ST"}
    BY <1>0, <2>1 DEF TypeOK, Jobs, Job, Lists, ListedOnce
  <2>7. CASE jobs[i].state = "ST"
    <3>1. modeOf' = modeOf
      BY <2>2, <2>4, <2>5, <2>7 DEF ModesOf
    <3> QED
      BY <1>0, <3>1 DEF JC!vars
  <2>8. CASE jobs[i].state \in {"FG", "BG"}
    <3>1. JC!Stop(p)
      BY <1>0, <2>4, <2>5, <2>8 DEF JC!Stop
    <3> QED
      BY <2>2, <3>1 DEF JC!Next
  <2> QED
    BY <2>6, <2>7, <2>8
<1>3. CASE UNCHANGED jobs
  BY <1>0, <1>3, JobsStay
<1> QED
  BY <1>1, <1>2, <1>3 DEF ChildHandler, WaitpidZombie, WaitpidStopped, WaitpidNone,
                          MarkNull, table

\* Every step of the shell that holds SIGCHLD back is one of JobControl, or
\* a stutter.
LEMMA StepImplements ==
  ASSUME Base, Lists, Held, [NextHeld]_vars,
         ModesOf(jobs, modeOf), ModesOf(jobs', modeOf')
  PROVE  [JC!Next]_(JC!vars)
<1>1. ASSUME Announce \/ WaitfgReturns PROVE [JC!Next]_(JC!vars)
  <2>1. /\ pc \in {"announce", "waitfg"} /\ pc' = "read" /\ UNCHANGED jobs
        /\ pc = "waitfg" => pid # fgpid(jobs)
    BY <1>1 DEF Announce, WaitfgReturns, Main, Return, table
  <2>2. FgSlots(jobs) = {}
    BY <2>1, FgPid DEF Held, Foreground, FgSlots
  <2>3. modeOf' = modeOf
    BY <2>1 DEF modeOf, Listed, SlotsOf
  <2>4. JC!Ready
    BY <2>1, <2>2, <2>3, NoForeground DEF JC!Ready
  <2> QED
    BY <2>4 DEF JC!Next
<1>2. ASSUME Command PROVE [JC!Next]_(JC!vars)
  <2>1. UNCHANGED jobs /\ (UNCHANGED pc \/ (pc = "read" /\ pc' # "read"))
    BY <1>2 DEF Command, Launch, BgFgByJid, BgFgByPid, Quit, Main, table, flow
  <2>2. modeOf' = modeOf
    BY <2>1 DEF modeOf, Listed, SlotsOf
  <2>3. CASE UNCHANGED pc
    BY <2>1, <2>3, JobsStay
  <2>4. CASE pc = "read" /\ pc' # "read"
    <3>1. JC!TakeCommand
      BY <2>2, <2>4 DEF JC!TakeCommand
    <3> QED
      BY <3>1 DEF JC!Next
  <2> QED
    BY <2>1, <2>3, <2>4
<1>3. ASSUME \/ \E p \in Pids : Fork(p)
             \/ ForkFails \/ Unblock \/ AnnounceNull \/ ReadJobPid \/ KillCont
             \/ KillContFails
      PROVE  [JC!Next]_(JC!vars)
  <2>1. UNCHANGED jobs /\ (UNCHANGED pc \/ (pc # "read" /\ pc' # "read"))
    BY <1>3 DEF Fork, ForkFails, Unblock, AnnounceNull, ReadJobPid, KillCont,
                KillContFails, Main, Goto, table, flow
  <2> QED
    BY <2>1, JobsStay
<1>4. ASSUME \/ \E s \in Keyboard : KeyboardHandler(s)
             \/ \E s \in Signal : ~(s = "CHLD" /\ InBgFg) /\ Deliver(s)
             \/ \E s \in Typed : Type(s)
             \/ \E p \in Pids : Child(p)
             \/ Terminated
             \/ UNCHANGED vars
      PROVE  [JC!Next]_(JC!vars)
  <2>1. UNCHANGED <<jobs, pc>>
    BY <1>4 DEF KeyboardHandler, FindFg, Forward, ForwardFails, Deliver, Type,
                Terminated, Child, Setpgid, Exec, ChildAdvances, ChildSwallows,
                ChildDies, ChildStops, vars, table, flow
  <2> QED
    BY <2>1, JobsStay
<1> QED
  BY <1>1, <1>2, <1>3, <1>4, AddJobStarts, SetStateResumes, ChildHandlerStopsOrEnds
     DEF NextHeld, MainStep, HandlerStep

\* With SIGCHLD held back over "fg" and "bg" the shell keeps the promise made
\* at the head of its source: every step is a transition of the table of job
\* states given there, or none, for any number of processes and any list size.
THEOREM ShellKeepsPromise == SpecHeld => Promise
<1>1. Init => JC!Init
  <2>1. ASSUME Init PROVE modeOf = [p \in Pids |-> "none"]
    <3>1. \A p \in Pids : ~Listed(p)
      BY <2>1, PidAssumption DEF Init, initjobs, clearjob, Listed, SlotsOf
    <3> QED
      BY <3>1 DEF modeOf
  <2> QED
    BY <2>1 DEF Init, JC!Init
<1>2. Base /\ Lists => ModesOf(jobs, modeOf)
  BY ModesRead DEF Base, Lists
<1>3. ModesOf(jobs, modeOf)' <=> ModesOf(jobs', modeOf')
  BY DEF ModesOf
<1>4. Base /\ Lists /\ Held /\ ModesOf(jobs, modeOf) /\ ModesOf(jobs, modeOf)' /\ [NextHeld]_vars
      => [JC!Next]_(JC!vars)
  BY <1>3, StepImplements
<1> QED
  BY <1>1, <1>2, <1>4, HeldInvariant, PTL DEF SpecHeld, Promise, JC!Spec
=============================================================================
