----------------------------- MODULE PipeProofs -----------------------------
(* Theorems about the pipeline, for every program, word size and number of *)
(* registers: the control logic never contradicts itself, exceptions are   *)
(* precise for the condition codes, and the pipeline implements Isa.       *)
EXTENDS Pipe, TLAPS

Statuses == Exceptions \cup {"AOK", "BUB"}

\* Where each pipeline register may be told to stall or to take a bubble.
Controls == [F : {"load", "stall"}, D : {"load", "stall", "bubble"},
             E : {"load", "bubble"}, M : {"load", "bubble"}, W : {"load", "stall"}]

\* A load in execute is no jump: a stalled decode takes no bubble (the one
\* that ret asks for gives way).
LEMMA ControlsAgree ==
    ASSUME NEW c, NEW cnd, NEW m_stat
    PROVE  do_stall_check(c, cnd, m_stat) \in Controls
<1>1. ~(D_stall(c) /\ D_bubble(c, cnd))
  BY DEF D_stall, D_bubble, LoadUse, Mispredicted
<1>2. pipe_cntl(F_stall(c), FALSE) \in {"load", "stall"}
  BY DEF pipe_cntl
<1>3. pipe_cntl(D_stall(c), D_bubble(c, cnd)) \in {"load", "stall", "bubble"}
  BY <1>1 DEF pipe_cntl
<1>4. /\ pipe_cntl(FALSE, E_bubble(c, cnd)) \in {"load", "bubble"}
      /\ pipe_cntl(FALSE, M_bubble(m_stat, c.W.status)) \in {"load", "bubble"}
  BY DEF pipe_cntl
<1>5. pipe_cntl(W_stall(c.W.status), FALSE) \in {"load", "stall"}
  BY DEF pipe_cntl
<1> QED  BY <1>2, <1>3, <1>4, <1>5 DEF do_stall_check, Controls
-----------------------------------------------------------------------------
Moving == {"D", "E", "M", "W"}     \* the pipeline registers with a status

\* Every status is one of stages.h, and psim's is that of the instruction in W.
Statused == /\ \A r \in Moving : curr[r].status \in Statuses /\ next[r].status \in Statuses
            /\ status = IF curr.W.status = "BUB" THEN "AOK" ELSE curr.W.status

\* Only an exception is held in W; and one that is about to enter W kept the
\* instruction behind it from setting the condition codes.
Held == /\ op.W = "stall" => curr.W.status \in Exceptions
        /\ next.W.status \in Exceptions => cc_in = cc

IInv == op \in Controls /\ Statused /\ Held /\ Precise

\* The pipeline starts in the invariant.
LEMMA InitIInv == Init => IInv
<1> SUFFICES ASSUME Init PROVE IInv
  OBVIOUS
<1>1. op \in Controls
  <2>1. op = [F |-> "load", D |-> "load", E |-> "load", M |-> "load", W |-> "load"]
    BY DEF Init, Stages
  <2> QED  BY <2>1 DEF Controls
<1>2. Statused
  BY DEF Init, Statused, Moving, bubble, Statuses
<1>3. op.W = "load" /\ next.W.status = "BUB"
  BY DEF Init, Stages, bubble
<1>4. Held /\ Precise
  BY <1>3 DEF Init, Held, Precise, Exceptions
<1> QED  BY <1>1, <1>2, <1>4 DEF IInv

\* A pipeline register moves on, stays, or takes a bubble.
LEMMA Moved ==
    ASSUME op \in Controls, NEW r \in Moving
    PROVE  \/ op[r] = "load" /\ update_pipes[r] = next[r]
           \/ op[r] = "stall" /\ r \in {"D", "W"} /\ update_pipes[r] = curr[r]
           \/ op[r] = "bubble" /\ r # "W" /\ update_pipes[r] = bubble[r]
BY DEF Controls, Moving, update_pipes, Stages

\* The status a stage register takes is one of the statuses.
LEMMA MovedStatus ==
    ASSUME op \in Controls, Statused, NEW r \in Moving
    PROVE  update_pipes[r].status \in Statuses
<1>1. bubble[r].status \in Statuses
  BY DEF bubble, Moving, Statuses
<1> QED  BY <1>1, Moved DEF Statused

\* A cycle keeps the invariant.
LEMMA StepIInv == IInv /\ [sim_step_pipe]_vars => IInv'
<1> SUFFICES ASSUME IInv, [sim_step_pipe]_vars PROVE IInv'
  OBVIOUS
<1>0. CASE UNCHANGED vars
  BY <1>0 DEF IInv, Statused, Held, Precise, vars
<1>1. CASE sim_step_pipe
  <2> DEFINE c == update_pipes
             f == do_if_stage(c, next.D)
             m == do_mem_stage(c.M, Stored)
             e == do_ex_stage(c.E, cc_in)
             d == do_id_stage(c, e, m, WriteBack)
  <2>1. /\ status = "AOK"
        /\ cc' = cc_in /\ retired_cc' = cc
        /\ curr' = c
        /\ next'.D = f /\ next'.E = d /\ next'.M = e /\ next'.W = m
        /\ op' = do_stall_check(c, e.cnd, m.status)
        /\ status' = IF c.W.status = "BUB" THEN "AOK" ELSE c.W.status
    BY <1>1 DEF sim_step_pipe
  <2>2. m.status \in Exceptions => cc_in' = cc_in
    BY <1>1 DEF sim_step_pipe, set_cc
  <2>3. op' \in Controls
    BY <2>1, ControlsAgree
  <2>4. op \in Controls /\ Statused /\ Held
    BY DEF IInv
  <2>5. \A r \in Moving : c[r].status \in Statuses
    BY <2>4, MovedStatus
  <2>6. /\ f.status \in Statuses
        /\ d.status = c.D.status
        /\ e.status = c.E.status
        /\ m.status \in {"ADR", c.M.status}
    BY DEF do_if_stage, f_stat, do_id_stage, do_ex_stage, do_mem_stage, Statuses,
           Exceptions
  <2> HIDE DEF c, f, m, e, d
  <2>7. Statused'
    <3>1. d.status \in Statuses /\ e.status \in Statuses /\ m.status \in Statuses
      BY <2>5, <2>6 DEF Moving, Statuses, Exceptions
    <3>2. \A r \in Moving : curr'[r].status \in Statuses /\ next'[r].status \in Statuses
      BY <2>1, <2>5, <2>6, <3>1 DEF Moving
    <3> QED  BY <2>1, <3>2 DEF Statused
  <2>8. Held'
    <3>1. op'.W = "stall" => c.W.status \in Exceptions
      BY <2>1 DEF do_stall_check, pipe_cntl, W_stall
    <3> QED  BY <2>1, <2>2, <3>1 DEF Held
  <2>9. Precise'
    <3>1. SUFFICES ASSUME status' # "AOK" PROVE cc_in = cc
      BY <2>1 DEF Precise
    <3>2. c.W.status \in Exceptions
      BY <2>1, <2>5, <3>1 DEF Moving, Statuses
    <3>3. op.W # "stall"
      BY <2>1, <2>4 DEF Held, Statused, Exceptions
    <3>4. c.W = next.W
      BY <2>4, <3>3, Moved DEF Moving, c
    <3> QED  BY <2>4, <3>2, <3>4 DEF Held
  <2> QED  BY <2>3, <2>7, <2>8, <2>9 DEF IInv
<1> QED  BY <1>0, <1>1

\* The invariant holds in every state: psim's status is that of the instruction
\* in W, where only an exception is held, and the exceptions are precise.
THEOREM Invariant == Spec => []IInv
BY InitIInv, StepIInv, PTL DEF Spec

\* pipe_cntl never finds a pipeline register that is told to stall and to
\* take a bubble at once (pipe-full.hcl 329-373, psim.c 1580-1601).
THEOREM NeverConflicting == Spec => []NoConflict
<1>1. IInv => NoConflict
  BY DEF IInv, Controls, NoConflict, Stages
<1> QED  BY <1>1, Invariant, PTL

\* When psim stops at a halt or a fault, no instruction behind it has set the
\* condition codes (set_cc of pipe-full.hcl, and the bubble in M).
THEOREM PreciseFlags == Spec => []Precise
<1>1. IInv => Precise
  BY DEF IInv
<1> QED  BY <1>1, Invariant, PTL

-----------------------------------------------------------------------------
(* The instruction set, for the refinement.  A machine is a state of isa.c. *)
Ends == Exceptions \cup {"AOK"}
Flags == [z : BOOLEAN, s : BOOLEAN, o : BOOLEAN]
Machines == [pc : Word, reg : [REGS -> Word], mem : [Address -> Word],
             cc : Flags, stat : Ends]
Ops == {"add", "sub", "and", "xor"}

\* A program whose instructions are well formed and lie below the last word.
Wellformed(p) ==
    \A a \in DOMAIN p : /\ a + 1 \in Word /\ p[a] \in Instruction
                        /\ p[a].icode = "opq" => p[a].ifun \in Ops

\* What is assumed of the instruction i at the program counter of m.
Ready(p, m, i) == /\ m \in Machines /\ m.stat = "AOK"
                  /\ m.pc \in DOMAIN p /\ i = p[m.pc] /\ i \in Instruction
                  /\ m.pc + 1 \in Word /\ ~Refused(i)

\* Wrapping to the width of a word is into the words, and leaves them alone.
LEMMA Rotate ==
    ASSUME NEW h \in Nat \ {0}, NEW n \in Int
    PROVE  /\ ((n + h) % (2 * h)) - h \in -h .. h - 1
           /\ n \in -h .. h - 1 => ((n + h) % (2 * h)) - h = n
OBVIOUS

\* Half of the words are at least one.
LEMMA HalfIsPositive == HALF \in Nat \ {0}
BY PowersAssumption DEF HALF

\* A wrapped number is a word,
LEMMA WrapIsWord == ASSUME NEW n \in Int PROVE Wrap(n) \in Word
BY HalfIsPositive, Rotate DEF Wrap, Word

\* and a word wraps to itself.
LEMMA WrapOfWord == ASSUME NEW n \in Word PROVE Wrap(n) = n
<1>1. n \in Int
  BY HalfIsPositive DEF Word
<1> QED  BY <1>1, HalfIsPositive, Rotate DEF Wrap, Word

\* Words are integers, and 0 is one.
LEMMA WordIsInt == Word \subseteq Int /\ 0 \in Word
BY HalfIsPositive DEF Word

\* The ALU computes a word,
LEMMA AluIsWord ==
    ASSUME NEW fun \in Ops, NEW a \in Int, NEW b \in Int
    PROVE  compute_alu(fun, a, b) \in Word
<1>1. \A B \in SUBSET (0 .. WIDTH - 1) : OfBits(B) \in Word
  BY PowersAssumption, WrapIsWord DEF OfBits
<1>2. BitAnd(a, b) \in Word
  <2> DEFINE B == {i \in 0 .. WIDTH - 1 : Bit(a, i) = 1 /\ Bit(b, i) = 1}
  <2>1. B \in SUBSET (0 .. WIDTH - 1)
    OBVIOUS
  <2> QED  BY <1>1, <2>1 DEF BitAnd
<1>3. BitXor(a, b) \in Word
  <2> DEFINE B == {i \in 0 .. WIDTH - 1 : Bit(a, i) # Bit(b, i)}
  <2>1. B \in SUBSET (0 .. WIDTH - 1)
    OBVIOUS
  <2> QED  BY <1>1, <2>1 DEF BitXor
<1>4. CASE fun = "add"
  BY <1>4, WrapIsWord DEF compute_alu
<1>5. CASE fun = "sub"
  BY <1>5, WrapIsWord DEF compute_alu
<1>6. CASE fun = "and"
  BY <1>2, <1>6 DEF compute_alu
<1>7. CASE fun = "xor"
  BY <1>3, <1>7 DEF compute_alu
<1> QED  BY <1>4, <1>5, <1>6, <1>7 DEF Ops

\* and the flags are flags.
LEMMA FlagsOfAlu == ASSUME NEW fun, NEW a, NEW b PROVE compute_cc(fun, a, b) \in Flags
BY DEF compute_cc, Flags

\* A value passes the ALU unchanged.
LEMMA Passes == ASSUME NEW a \in Word PROVE compute_alu("add", a, 0) = a
<1>1. a + 0 = a
  BY WordIsInt
<1>2. compute_alu("add", a, 0) = Wrap(a + 0)
  BY DEF compute_alu
<1> QED  BY <1>1, <1>2, WrapOfWord
\* With a register file of words, reading gives a word.
LEMMA Reads ==
    ASSUME NEW m \in Machines, NEW id \in REGS \cup {NONE}
    PROVE  get_reg_val(m.reg, id) \in Word
BY WordIsInt DEF Machines, get_reg_val

\* Reading the stack pointer reads its register.
LEMMA StackPointer ==
    ASSUME NEW m \in Machines
    PROVE  get_reg_val(m.reg, RSP) = m.reg[RSP] /\ RSP \in REGS /\ RSP # NONE
BY Y86Assumption DEF get_reg_val

\* Writing a register keeps the registers words.
LEMMA SetsWord ==
    ASSUME NEW r \in [REGS -> Word], NEW id \in REGS \cup {NONE}, NEW val \in Word
    PROVE  set_reg_val(r, id, val) \in [REGS -> Word]
BY DEF set_reg_val

\* A fault keeps the machine's type,
LEMMA FaultStays ==
    ASSUME NEW m \in Machines, NEW stat \in Ends PROVE Fault(m, stat) \in Machines
BY DEF Fault, Machines

\* and so does a load,
LEMMA LoadStays ==
    ASSUME NEW m \in Machines, NEW id \in REGS \cup {NONE}, NEW addr, m.pc + 1 \in Word
    PROVE  Load(m, id, addr) \in Machines
<1>1. CASE addr \in Address
  <2>1. m.mem[addr] \in Word
    BY <1>1 DEF Machines
  <2>2. set_reg_val(m.reg, id, m.mem[addr]) \in [REGS -> Word]
    BY <2>1, SetsWord DEF Machines
  <2> QED  BY <1>1, <2>2 DEF Load, Machines
<1>2. CASE addr \notin Address
  BY <1>2, FaultStays DEF Load, Ends, Exceptions
<1> QED  BY <1>1, <1>2

\* a store,
LEMMA StoreStays ==
    ASSUME NEW m \in Machines, NEW addr, NEW val \in Word, NEW pc \in Word
    PROVE  Store(m, addr, val, pc) \in Machines
<1>1. CASE addr \in Address
  BY <1>1 DEF Store, Machines
<1>2. CASE addr \notin Address
  BY <1>2, FaultStays DEF Store, Ends, Exceptions
<1> QED  BY <1>1, <1>2

\* a move of the stack pointer
LEMMA MoveStackStays ==
    ASSUME NEW m \in Machines, NEW n \in Int
    PROVE  MoveStack(m, n) \in Machines /\ MoveStack(m, n).pc = m.pc
<1>1. Wrap(n + m.reg[RSP]) \in Word
  <2>1. m.reg[RSP] \in Int
    BY WordIsInt, Y86Assumption DEF Machines
  <2> QED  BY <2>1, WrapIsWord
<1> QED  BY <1>1 DEF MoveStack, Machines

\* and an operation,
LEMMA OperateStays ==
    ASSUME NEW m \in Machines, NEW fun \in Ops, NEW a \in Word, NEW b \in Word,
           NEW id \in REGS \cup {NONE}, m.pc + 1 \in Word
    PROVE  Operate(m, fun, a, b, id) \in Machines
<1>1. compute_alu(fun, a, b) \in Word /\ compute_cc(fun, a, b) \in Flags
  BY WordIsInt, AluIsWord, FlagsOfAlu
<1>2. set_reg_val(m.reg, id, compute_alu(fun, a, b)) \in [REGS -> Word]
  BY <1>1, SetsWord DEF Machines
<1> QED  BY <1>1, <1>2 DEF Operate, Machines

\* so the instruction set's step does.
LEMMA IsaStaysMachine ==
    ASSUME NEW p, Wellformed(p), NEW m \in Machines, m.stat = "AOK"
    PROVE  step_state(p, m) \in Machines
<1> DEFINE i == p[m.pc]
           t == step_state(p, m)
<1>1. CASE m.pc \notin DOMAIN p
  BY <1>1, FaultStays DEF step_state, Ends, Exceptions
<1>3. CASE m.pc \in DOMAIN p /\ Refused(p[m.pc])
  BY <1>3, FaultStays DEF step_state, Ends, Exceptions
<1>2. CASE m.pc \in DOMAIN p /\ ~Refused(p[m.pc])
  <2>1. /\ m.pc + 1 \in Word /\ i \in Instruction
        /\ i.icode = "opq" => i.ifun \in Ops
    BY <1>2 DEF Wellformed
  <2>2. /\ i.valC \in Word /\ i.rA \in REGS \cup {NONE} /\ i.rB \in REGS \cup {NONE}
        /\ get_reg_val(m.reg, i.rA) \in Word /\ get_reg_val(m.reg, i.rB) \in Word
    BY <2>1, Reads DEF Instruction
  <2>3. CASE i.icode \in {"rrmovq", "irmovq"}
    <3>1. /\ set_reg_val(m.reg, i.rB, get_reg_val(m.reg, i.rA)) \in [REGS -> Word]
          /\ set_reg_val(m.reg, i.rB, i.valC) \in [REGS -> Word]
      BY <2>2, SetsWord DEF Machines
    <3> QED  BY <1>2, <2>1, <2>3, <3>1 DEF step_state, Machines
  <2>4. CASE i.icode \in {"nop", "jxx"}
    BY <1>2, <2>1, <2>2, <2>4 DEF step_state, I_JMP, Machines
  <2>5. CASE i.icode = "halt" \/ ~instr_valid(i.icode)
    BY <1>2, <2>5, FaultStays DEF step_state, instr_valid, Ends, Exceptions
  <2>6. CASE i.icode \in {"opq", "iaddq"}
    <3>1. t = IF i.icode = "opq"
              THEN Operate(m, i.ifun, get_reg_val(m.reg, i.rA), get_reg_val(m.reg, i.rB), i.rB)
              ELSE Operate(m, "add", i.valC, get_reg_val(m.reg, i.rB), i.rB)
      BY <1>2, <2>6 DEF step_state
    <3> HIDE DEF i, t
    <3> QED  BY <2>1, <2>2, <2>6, <3>1, OperateStays DEF Ops, t
  <2>7. CASE i.icode \in {"rmmovq", "mrmovq"}
    <3>1. t = IF i.icode = "mrmovq"
              THEN Load(m, i.rA, Wrap(i.valC + get_reg_val(m.reg, i.rB)))
              ELSE Store(m, Wrap(i.valC + get_reg_val(m.reg, i.rB)),
                         get_reg_val(m.reg, i.rA), m.pc + 1)
      BY <1>2, <2>7 DEF step_state
    <3> HIDE DEF i, t
    <3> QED  BY <2>1, <2>2, <3>1, LoadStays, StoreStays DEF t
  <2>8. CASE i.icode \in {"call", "pushq"}
    <3> DEFINE down == MoveStack(m, -1)
    <3>1. down \in Machines /\ down.pc = m.pc
      BY MoveStackStays
    <3>2. t = IF i.icode = "call" THEN Store(down, down.reg[RSP], m.pc + 1, i.valC)
              ELSE Store(down, down.reg[RSP], get_reg_val(m.reg, i.rA), m.pc + 1)
      BY <1>2, <2>8 DEF step_state, I_CALL, I_PUSHQ
    <3> HIDE DEF i, t, down
    <3> QED  BY <2>1, <2>2, <3>1, <3>2, StoreStays DEF t
  <2>9. CASE i.icode \in {"ret", "popq"}
    <3> DEFINE up == MoveStack(m, 1)
               sp == m.reg[RSP]
    <3>1. up \in Machines /\ up.pc = m.pc
      BY MoveStackStays
    <3>2. t = IF i.icode = "popq" THEN Load(up, i.rA, sp)
              ELSE IF sp \in Address THEN [up EXCEPT !.pc = m.mem[sp]]
              ELSE Fault(m, "ADR")
      BY <1>2, <2>9 DEF step_state, I_RET, I_POPQ
    <3>3. sp \in Address => m.mem[sp] \in Word
      BY DEF Machines
    <3> HIDE DEF i, t, up, sp
    <3>4. sp \in Address => [up EXCEPT !.pc = m.mem[sp]] \in Machines
      BY <3>1, <3>3 DEF Machines
    <3>5. Fault(m, "ADR") \in Machines
      BY FaultStays DEF Ends, Exceptions
    <3> QED  BY <2>1, <2>2, <3>1, <3>2, <3>4, <3>5, LoadStays DEF t
  <2>10. i.icode \in {"rrmovq", "irmovq"} \cup {"nop", "jxx"} \cup {"opq", "iaddq"}
                    \cup {"rmmovq", "mrmovq"} \cup {"call", "pushq"} \cup {"ret", "popq"}
         \/ i.icode = "halt" \/ ~instr_valid(i.icode)
    BY DEF instr_valid
  <2> HIDE DEF i
  <2> QED  BY <2>3, <2>4, <2>5, <2>6, <2>7, <2>8, <2>9, <2>10
<1> QED  BY <1>1, <1>2, <1>3

-----------------------------------------------------------------------------
(* An instruction executed at once, in the words of the pipeline's stages. *)
At(p, a) == IF a \in DOMAIN p THEN p[a] ELSE NOP
FetchStat(p, a) == IF a \notin DOMAIN p THEN "ADR"
                   ELSE IF ~instr_valid(p[a].icode) THEN "INS"
                   ELSE IF p[a].icode = "halt" THEN "HLT" ELSE "AOK"
Fetch(p, a) == [i |-> At(p, a), valP |-> a + 1, status |-> FetchStat(p, a), pc |-> a]

\* The pipeline registers E, M and W of the next instruction of machine m.
Decode(p, m) ==
    LET i == At(p, m.pc)
    IN  [icode |-> i.icode, ifun |-> i.ifun, valC |-> i.valC,
         valA |-> IF i.icode \in {"call", "jxx"} THEN m.pc + 1
                  ELSE get_reg_val(m.reg, d_srcA(i)),
         valB |-> get_reg_val(m.reg, d_srcB(i)),
         dstE |-> d_dstE(i), dstM |-> d_dstM(i),
         status |-> FetchStat(p, m.pc), pc |-> m.pc]
Execute(p, m) == do_ex_stage(Decode(p, m), m.cc)
Access(p, m) == do_mem_stage(Execute(p, m), m.mem)

\* What write back, memory, execute and the choice of the next address do.
Write(r, W) == set_reg_val(set_reg_val(r, W.dstE, W.valE), W.dstM, W.valM)
Save(M, data) == IF mem_write(M) THEN set_word_val(data, mem_addr(M), M.valA) ELSE data
Flagged(E, flags) == IF E.icode \in {"opq", "iaddq"}
                     THEN compute_cc(alufun(E), aluA(E), aluB(E)) ELSE flags
Follow(p, m) ==
    LET i == At(p, m.pc)
    IN  IF i.icode = "ret" THEN Access(p, m).valM
        ELSE IF i.icode = "call" \/ (i.icode = "jxx" /\ cond_holds(m.cc, i.ifun)) THEN i.valC
        ELSE m.pc + 1

\* Machine t is what the stages make of machine m.
Cycled(p, m, t) ==
    LET W == Access(p, m)
    IN  /\ t.stat = W.status
        /\ t.mem = Save(Execute(p, m), m.mem)
        /\ t.cc = Flagged(Decode(p, m), m.cc)
        /\ t.stat = "AOK" => t.pc = Follow(p, m) /\ t.reg = Write(m.reg, W)
        /\ t.stat # "AOK" =>
              /\ t.pc = m.pc
              /\ t.reg = IF W.status = "ADR" /\ W.icode \in {"pushq", "call", "popq"}
                         THEN set_reg_val(m.reg, RSP, W.valE) ELSE m.reg

\* Instruction i of machine m, and what the stages make of it.
Through(p, m, i, E, X, W) ==
    /\ E.icode = i.icode /\ E.ifun = i.ifun /\ E.valC = i.valC
    /\ E.valA = IF i.icode \in {"call", "jxx"} THEN m.pc + 1
                ELSE get_reg_val(m.reg, d_srcA(i))
    /\ E.valB = get_reg_val(m.reg, d_srcB(i))
    /\ E.dstE = d_dstE(i) /\ E.dstM = d_dstM(i)
    /\ E.status = FetchStat(p, m.pc) /\ E.pc = m.pc
    /\ X.icode = i.icode /\ X.ifun = i.ifun /\ X.cnd = e_Cnd(E, m.cc)
    /\ X.valE = compute_alu(alufun(E), aluA(E), aluB(E)) /\ X.valA = E.valA
    /\ X.dstE = e_dstE(E, e_Cnd(E, m.cc)) /\ X.dstM = E.dstM
    /\ X.status = E.status /\ X.pc = m.pc
    /\ W.icode = i.icode /\ W.ifun = i.ifun /\ W.valE = X.valE
    /\ W.valM = IF mem_read(X) /\ mem_addr(X) \in Address THEN m.mem[mem_addr(X)] ELSE 0
    /\ W.dstE = X.dstE /\ W.dstM = X.dstM /\ W.pc = m.pc
    /\ W.status = IF (mem_read(X) \/ mem_write(X)) /\ mem_addr(X) \notin Address
                  THEN "ADR" ELSE E.status

\* What the three stages, taken one after the other on one machine, compute.
LEMMA GoesThrough ==
    ASSUME NEW p, NEW m
    PROVE  Through(p, m, At(p, m.pc), Decode(p, m), Execute(p, m), Access(p, m))
<1> DEFINE E == Decode(p, m)
           X == Execute(p, m)
           i == At(p, m.pc)
<1>1. /\ E.icode = i.icode /\ E.ifun = i.ifun /\ E.valC = i.valC
      /\ E.valA = IF i.icode \in {"call", "jxx"} THEN m.pc + 1
                  ELSE get_reg_val(m.reg, d_srcA(i))
      /\ E.valB = get_reg_val(m.reg, d_srcB(i))
      /\ E.dstE = d_dstE(i) /\ E.dstM = d_dstM(i)
      /\ E.status = FetchStat(p, m.pc) /\ E.pc = m.pc
  BY DEF Decode
<1> HIDE DEF E
<1>2. /\ X.icode = E.icode /\ X.ifun = E.ifun /\ X.cnd = e_Cnd(E, m.cc)
      /\ X.valE = compute_alu(alufun(E), aluA(E), aluB(E)) /\ X.valA = E.valA
      /\ X.dstE = e_dstE(E, e_Cnd(E, m.cc)) /\ X.dstM = E.dstM
      /\ X.status = E.status /\ X.pc = E.pc
  BY DEF Execute, do_ex_stage, E
<1> HIDE DEF X
<1> QED  BY <1>1, <1>2 DEF Access, do_mem_stage, X, E, Through

\* A move through the stages is the instruction set's step,
LEMMA Moves ==
    ASSUME NEW p, NEW m, NEW i, Ready(p, m, i), i.icode \in {"rrmovq", "irmovq"}
    PROVE  Cycled(p, m, step_state(p, m))
<1> DEFINE E == Decode(p, m)
           X == Execute(p, m)
           W == Access(p, m)
           t == step_state(p, m)
<1>1. i = At(p, m.pc) /\ m.pc \in DOMAIN p /\ i = p[m.pc] /\ ~Refused(p[m.pc])
  BY DEF Ready, At
<1>2. Through(p, m, i, E, X, W)
  BY <1>1, GoesThrough
<1> HIDE DEF E, X, W
<1>3. /\ E.icode = i.icode /\ E.ifun = i.ifun /\ X.icode = i.icode /\ W.dstM = NONE
      /\ W.dstE = e_dstE(E, e_Cnd(E, m.cc)) /\ E.dstE = i.rB
      /\ W.valE = IF i.icode = "rrmovq" THEN get_reg_val(m.reg, i.rA) ELSE i.valC
  <2>1. get_reg_val(m.reg, i.rA) \in Word /\ i.valC \in Word
    BY Reads DEF Ready, Instruction
  <2> QED  BY <1>2, <2>1, Passes DEF Through, aluA, aluB, alufun, d_srcA, d_dstE, d_dstM
<1>4. W.status = "AOK"
  BY <1>2, <1>1 DEF Through, FetchStat, instr_valid, mem_read, mem_write
<1>5. Follow(p, m) = m.pc + 1 /\ Save(X, m.mem) = m.mem /\ Flagged(E, m.cc) = m.cc
  BY <1>1, <1>3 DEF Follow, Save, mem_write, Flagged
<1>6. Write(m.reg, W) =
        IF i.icode = "irmovq" \/ cond_holds(m.cc, i.ifun)
        THEN set_reg_val(m.reg, i.rB, W.valE) ELSE m.reg
  BY <1>3 DEF Write, e_dstE, e_Cnd, set_reg_val
<1>7. /\ t.pc = m.pc + 1 /\ t.mem = m.mem /\ t.cc = m.cc /\ t.stat = m.stat
      /\ t.reg = IF i.icode = "irmovq" THEN set_reg_val(m.reg, i.rB, i.valC)
                 ELSE IF cond_holds(m.cc, i.ifun)
                 THEN set_reg_val(m.reg, i.rB, get_reg_val(m.reg, i.rA)) ELSE m.reg
  BY <1>1 DEF step_state, Ready, Machines
<1> HIDE DEF t
<1>8. t.reg = Write(m.reg, W)
  BY <1>3, <1>6, <1>7
<1>9. t.stat = "AOK"
  BY <1>7 DEF Ready
<1> QED  BY <1>4, <1>5, <1>7, <1>8, <1>9 DEF Cycled, t, E, X, W

\* so is an instruction that writes nothing,
LEMMA Idles ==
    ASSUME NEW p, NEW m, NEW i, Ready(p, m, i),
           i.icode \in {"nop", "halt", "jxx"} \/ ~instr_valid(i.icode)
    PROVE  Cycled(p, m, step_state(p, m))
<1> DEFINE E == Decode(p, m)
           X == Execute(p, m)
           W == Access(p, m)
           t == step_state(p, m)
<1>1. i = At(p, m.pc) /\ m.pc \in DOMAIN p /\ i = p[m.pc] /\ ~Refused(p[m.pc])
  BY DEF Ready, At
<1>2. Through(p, m, i, E, X, W)
  BY <1>1, GoesThrough
<1> HIDE DEF E, X, W
<1>3. W.status = IF ~instr_valid(i.icode) THEN "INS"
                 ELSE IF i.icode = "halt" THEN "HLT" ELSE "AOK"
  BY <1>1, <1>2 DEF Through, FetchStat, instr_valid, mem_read, mem_write
<1>4. W.dstE = NONE /\ W.dstM = NONE
  BY <1>2 DEF Through, d_dstE, d_dstM, e_dstE, instr_valid
<1>5. Write(m.reg, W) = m.reg /\ Save(X, m.mem) = m.mem /\ Flagged(E, m.cc) = m.cc
  BY <1>2, <1>4 DEF Through, Write, set_reg_val, Save, mem_write, Flagged, instr_valid
<1>6. Follow(p, m) = IF i.icode = "jxx" /\ cond_holds(m.cc, i.ifun)
                     THEN i.valC ELSE m.pc + 1
  BY <1>1 DEF Follow, instr_valid
<1>7. CASE i.icode \in {"nop", "jxx"}
  <2>1. /\ t.reg = m.reg /\ t.mem = m.mem /\ t.cc = m.cc /\ t.stat = m.stat
        /\ t.pc = Follow(p, m)
    BY <1>1, <1>6, <1>7 DEF step_state, I_JMP, Ready, Machines
  <2> HIDE DEF t
  <2>2. t.stat = "AOK" /\ W.status = "AOK"
    BY <2>1, <1>3, <1>7 DEF Ready, instr_valid
  <2> QED  BY <1>5, <2>1, <2>2 DEF Cycled, E, X, W, t
<1>8. CASE i.icode \notin {"nop", "jxx"}
  <2>1. t = Fault(m, W.status)
    BY <1>1, <1>3, <1>8 DEF step_state, instr_valid
  <2>2. /\ t.reg = m.reg /\ t.mem = m.mem /\ t.cc = m.cc /\ t.pc = m.pc
        /\ t.stat = W.status
    BY <2>1 DEF Fault, Ready, Machines
  <2> HIDE DEF t
  <2>3. W.status \in {"INS", "HLT"}
    BY <1>3, <1>8
  <2> QED  BY <1>5, <2>2, <2>3 DEF Cycled, E, X, W, t
<1> QED  BY <1>7, <1>8

\* so is an operation,
LEMMA Operates ==
    ASSUME NEW p, NEW m, NEW i, Ready(p, m, i), i.icode \in {"opq", "iaddq"}
    PROVE  Cycled(p, m, step_state(p, m))
<1> DEFINE E == Decode(p, m)
           X == Execute(p, m)
           W == Access(p, m)
           t == step_state(p, m)
           a == IF i.icode = "opq" THEN get_reg_val(m.reg, i.rA) ELSE i.valC
           b == get_reg_val(m.reg, i.rB)
           f == IF i.icode = "opq" THEN i.ifun ELSE "add"
<1>1. i = At(p, m.pc) /\ m.pc \in DOMAIN p /\ i = p[m.pc] /\ ~Refused(p[m.pc])
  BY DEF Ready, At
<1>2. Through(p, m, i, E, X, W)
  BY <1>1, GoesThrough
<1> HIDE DEF E, X, W
<1>3. W.status = "AOK"
  BY <1>1, <1>2 DEF Through, FetchStat, instr_valid, mem_read, mem_write
<1>4. aluA(E) = a /\ aluB(E) = b /\ alufun(E) = f
  BY <1>2 DEF Through, aluA, aluB, alufun, d_srcA, d_srcB
<1>5. /\ W.dstE = i.rB /\ W.dstM = NONE /\ W.valE = compute_alu(f, a, b)
      /\ E.icode = i.icode /\ X.icode = i.icode
  <2> HIDE DEF a, b, f
  <2> QED  BY <1>2, <1>4 DEF Through, d_dstE, d_dstM, e_dstE
<1>6. /\ Follow(p, m) = m.pc + 1 /\ Save(X, m.mem) = m.mem
      /\ Flagged(E, m.cc) = compute_cc(f, a, b)
      /\ Write(m.reg, W) = set_reg_val(m.reg, i.rB, compute_alu(f, a, b))
  <2> HIDE DEF a, b, f
  <2> QED  BY <1>1, <1>4, <1>5 DEF Follow, Save, mem_write, Flagged, Write, set_reg_val
<1>7. t = Operate(m, f, a, b, i.rB)
  BY <1>1 DEF step_state
<1>8. /\ t.reg = set_reg_val(m.reg, i.rB, compute_alu(f, a, b))
      /\ t.cc = compute_cc(f, a, b) /\ t.pc = m.pc + 1
      /\ t.mem = m.mem /\ t.stat = m.stat
  <2> HIDE DEF a, b, f
  <2> QED  BY <1>7 DEF Operate, Ready, Machines
<1> HIDE DEF a, b, f, t
<1>9. t.stat = "AOK"
  BY <1>8 DEF Ready
<1> QED  BY <1>3, <1>6, <1>8, <1>9 DEF Cycled, t, E, X, W

\* rmmovq and mrmovq.
LEMMA Accesses ==
    ASSUME NEW p, NEW m, NEW i, Ready(p, m, i), i.icode \in {"rmmovq", "mrmovq"}
    PROVE  Cycled(p, m, step_state(p, m))
<1> DEFINE E == Decode(p, m)
           X == Execute(p, m)
           W == Access(p, m)
           t == step_state(p, m)
           addr == Wrap(i.valC + get_reg_val(m.reg, i.rB))
<1>1. i = At(p, m.pc) /\ m.pc \in DOMAIN p /\ i = p[m.pc] /\ ~Refused(p[m.pc])
  BY DEF Ready, At
<1>2. Through(p, m, i, E, X, W)
  BY <1>1, GoesThrough
<1> HIDE DEF E, X, W
<1>3. X.valE = addr
  <2>1. X.valE = compute_alu("add", i.valC, get_reg_val(m.reg, i.rB))
    BY <1>2 DEF Through, aluA, aluB, alufun, d_srcB
  <2> QED  BY <2>1 DEF compute_alu
<1> HIDE DEF addr
<1>4. /\ E.icode = i.icode /\ X.icode = i.icode /\ mem_addr(X) = addr
      /\ X.valA = get_reg_val(m.reg, d_srcA(i)) /\ W.icode = i.icode
      /\ W.dstE = NONE /\ W.dstM = IF i.icode = "mrmovq" THEN i.rA ELSE NONE
  BY <1>2, <1>3 DEF Through, mem_addr, d_dstE, d_dstM, e_dstE
<1>5. W.status = IF addr \in Address THEN "AOK" ELSE "ADR"
  BY <1>1, <1>2, <1>4 DEF Through, FetchStat, instr_valid, mem_read, mem_write
<1>6. Follow(p, m) = m.pc + 1 /\ Flagged(E, m.cc) = m.cc
  BY <1>1, <1>4 DEF Follow, Flagged
<1>7. Save(X, m.mem) = IF i.icode = "mrmovq" \/ addr \notin Address THEN m.mem
                       ELSE [m.mem EXCEPT ![addr] = get_reg_val(m.reg, i.rA)]
  BY <1>4 DEF Save, mem_write, set_word_val, d_srcA
<1>8. addr \in Address =>
        Write(m.reg, W) = IF i.icode = "rmmovq" THEN m.reg
                          ELSE set_reg_val(m.reg, i.rA, m.mem[addr])
  <2>1. i.icode = "mrmovq" /\ addr \in Address => W.valM = m.mem[addr]
    BY <1>2, <1>4 DEF Through, mem_read
  <2> QED  BY <1>4, <2>1 DEF Write, set_reg_val
<1>9. t = IF i.icode = "mrmovq" THEN Load(m, i.rA, addr)
          ELSE Store(m, addr, get_reg_val(m.reg, i.rA), m.pc + 1)
  BY <1>1 DEF step_state, addr
<1>10. /\ t.cc = m.cc /\ t.stat = W.status /\ t.mem = Save(X, m.mem)
       /\ addr \in Address => t.pc = m.pc + 1 /\ t.reg = Write(m.reg, W)
       /\ addr \notin Address => t.pc = m.pc /\ t.reg = m.reg
  BY <1>5, <1>7, <1>8, <1>9 DEF Load, Store, Fault, Ready, Machines
<1> HIDE DEF t
<1> QED  BY <1>4, <1>5, <1>6, <1>10 DEF Cycled, t, E, X, W

\* call and pushq: the word goes below the stack pointer.
LEMMA Pushes ==
    ASSUME NEW p, NEW m, NEW i, Ready(p, m, i), i.icode \in {"call", "pushq"}
    PROVE  Cycled(p, m, step_state(p, m))
<1> DEFINE E == Decode(p, m)
           X == Execute(p, m)
           W == Access(p, m)
           t == step_state(p, m)
           addr == Wrap(-1 + m.reg[RSP])
           val == IF i.icode = "call" THEN m.pc + 1 ELSE get_reg_val(m.reg, i.rA)
           to == IF i.icode = "call" THEN i.valC ELSE m.pc + 1
<1>1. i = At(p, m.pc) /\ m.pc \in DOMAIN p /\ i = p[m.pc] /\ ~Refused(p[m.pc])
  BY DEF Ready, At
<1>2. Through(p, m, i, E, X, W)
  BY <1>1, GoesThrough
<1> HIDE DEF E, X, W
<1>3. X.valE = addr
  <2>1. X.valE = compute_alu("add", -1, m.reg[RSP])
    BY <1>2, StackPointer DEF Through, aluA, aluB, alufun, d_srcB, Ready
  <2> QED  BY <2>1 DEF compute_alu
<1> HIDE DEF addr
<1>4. /\ E.icode = i.icode /\ X.icode = i.icode /\ mem_addr(X) = addr
      /\ X.valA = val /\ W.icode = i.icode /\ W.valE = addr
      /\ W.dstE = RSP /\ W.dstM = NONE
  BY <1>2, <1>3 DEF Through, mem_addr, d_srcA, d_dstE, d_dstM, e_dstE
<1> HIDE DEF val
<1>5. W.status = IF addr \in Address THEN "AOK" ELSE "ADR"
  BY <1>1, <1>2, <1>4 DEF Through, FetchStat, instr_valid, mem_read, mem_write
<1>6. Follow(p, m) = to /\ Flagged(E, m.cc) = m.cc
  BY <1>1, <1>4 DEF Follow, Flagged
<1>7. Save(X, m.mem) = IF addr \in Address THEN [m.mem EXCEPT ![addr] = val] ELSE m.mem
  BY <1>4 DEF Save, mem_write, set_word_val
<1>8. /\ Write(m.reg, W) = [m.reg EXCEPT ![RSP] = addr]
      /\ set_reg_val(m.reg, RSP, addr) = [m.reg EXCEPT ![RSP] = addr]
  BY <1>4, StackPointer DEF Write, set_reg_val, Ready
<1> DEFINE down == MoveStack(m, -1)
<1>9. /\ down.pc = m.pc /\ down.reg = [m.reg EXCEPT ![RSP] = addr]
      /\ down.mem = m.mem /\ down.cc = m.cc /\ down.stat = m.stat
      /\ down.reg[RSP] = addr
      /\ DOMAIN down = {"pc", "reg", "mem", "cc", "stat"}
  BY StackPointer DEF MoveStack, Ready, Machines, addr
<1>10. t = Store(down, addr, val, to)
  BY <1>1, <1>9 DEF step_state, I_CALL, I_PUSHQ, val
<1> HIDE DEF to, down, t
<1>11. /\ t.cc = m.cc /\ t.stat = W.status /\ t.reg = [m.reg EXCEPT ![RSP] = addr]
       /\ t.mem = Save(X, m.mem)
       /\ addr \in Address => t.pc = to
       /\ addr \notin Address => t.pc = m.pc
  BY <1>5, <1>7, <1>9, <1>10 DEF Store, Fault, Ready
<1> QED  BY <1>4, <1>5, <1>6, <1>8, <1>11 DEF Cycled, t, E, X, W

\* ret and popq: the word comes from where the stack pointer was.
LEMMA Pops ==
    ASSUME NEW p, NEW m, NEW i, Ready(p, m, i), i.icode \in {"ret", "popq"}
    PROVE  Cycled(p, m, step_state(p, m))
<1> DEFINE E == Decode(p, m)
           X == Execute(p, m)
           W == Access(p, m)
           t == step_state(p, m)
           sp == m.reg[RSP]
           up == [m.reg EXCEPT ![RSP] = Wrap(1 + sp)]
<1>1. i = At(p, m.pc) /\ m.pc \in DOMAIN p /\ i = p[m.pc] /\ ~Refused(p[m.pc])
  BY DEF Ready, At
<1>2. Through(p, m, i, E, X, W)
  BY <1>1, GoesThrough
<1> HIDE DEF E, X, W
<1>3. X.valE = Wrap(1 + sp) /\ X.valA = sp
  <2>1. X.valE = compute_alu("add", 1, sp)
    BY <1>2, StackPointer DEF Through, aluA, aluB, alufun, d_srcB, Ready
  <2>2. X.valA = sp
    BY <1>2, StackPointer DEF Through, d_srcA, Ready
  <2> QED  BY <2>1, <2>2 DEF compute_alu
<1>4. /\ E.icode = i.icode /\ X.icode = i.icode /\ mem_addr(X) = sp
      /\ W.icode = i.icode /\ W.valE = X.valE
      /\ W.dstE = RSP /\ W.dstM = IF i.icode = "popq" THEN i.rA ELSE NONE
  BY <1>2, <1>3 DEF Through, mem_addr, d_dstE, d_dstM, e_dstE
<1>5. W.status = IF sp \in Address THEN "AOK" ELSE "ADR"
  BY <1>1, <1>2, <1>4 DEF Through, FetchStat, instr_valid, mem_read, mem_write
<1>6. sp \in Address => W.valM = m.mem[sp]
  BY <1>2, <1>4 DEF Through, mem_read
<1>7. /\ Flagged(E, m.cc) = m.cc /\ Save(X, m.mem) = m.mem
      /\ Follow(p, m) = IF i.icode = "ret" THEN W.valM ELSE m.pc + 1
  BY <1>1, <1>4 DEF Flagged, Save, mem_write, Follow, W
<1>8. /\ set_reg_val(m.reg, RSP, W.valE) = up
      /\ sp \in Address =>
            Write(m.reg, W) = IF i.icode = "ret" THEN up
                              ELSE set_reg_val(up, i.rA, m.mem[sp])
  <2>1. set_reg_val(m.reg, RSP, W.valE) = up
    BY <1>3, <1>4, StackPointer DEF set_reg_val, Ready
  <2> HIDE DEF up
  <2> QED  BY <1>4, <1>6, <2>1 DEF Write, set_reg_val
<1> DEFINE moved == MoveStack(m, 1)
<1>9. /\ moved.pc = m.pc /\ moved.reg = up /\ moved.mem = m.mem
      /\ moved.cc = m.cc /\ moved.stat = m.stat
      /\ DOMAIN moved = {"pc", "reg", "mem", "cc", "stat"}
  BY DEF MoveStack, Ready, Machines
<1>10. t = IF i.icode = "popq" THEN Load(moved, i.rA, sp)
           ELSE IF sp \in Address THEN [moved EXCEPT !.pc = m.mem[sp]]
           ELSE Fault(m, "ADR")
  BY <1>1 DEF step_state, I_RET, I_POPQ
<1> HIDE DEF sp, up, moved, t
<1>11. /\ t.cc = m.cc /\ t.mem = m.mem /\ t.stat = W.status
       /\ sp \in Address =>
             /\ t.pc = IF i.icode = "ret" THEN m.mem[sp] ELSE m.pc + 1
             /\ t.reg = IF i.icode = "ret" THEN up ELSE set_reg_val(up, i.rA, m.mem[sp])
       /\ sp \notin Address =>
             t.pc = m.pc /\ t.reg = IF i.icode = "popq" THEN up ELSE m.reg
  BY <1>5, <1>9, <1>10 DEF Load, Fault, Ready, Machines
<1> QED  BY <1>4, <1>5, <1>6, <1>7, <1>8, <1>11 DEF Cycled, t, E, X, W

\* Outside the program isa.c stops, and so does fetch.
LEMMA Strays ==
    ASSUME NEW p, NEW m \in Machines, m.pc \notin DOMAIN p
    PROVE  Cycled(p, m, step_state(p, m))
<1> DEFINE E == Decode(p, m)
           X == Execute(p, m)
           W == Access(p, m)
           t == step_state(p, m)
<1>1. At(p, m.pc) = NOP
  BY DEF At
<1>2. Through(p, m, NOP, E, X, W)
  BY <1>1, GoesThrough
<1> HIDE DEF E, X, W
<1>3. /\ W.status = "ADR" /\ W.icode = "nop" /\ X.icode = "nop" /\ E.icode = "nop"
  BY <1>2 DEF Through, FetchStat, NOP, mem_read, mem_write
<1>4. Save(X, m.mem) = m.mem /\ Flagged(E, m.cc) = m.cc
  BY <1>3 DEF Save, mem_write, Flagged
<1>5. t = Fault(m, "ADR")
  BY DEF step_state
<1>6. /\ t.reg = m.reg /\ t.mem = m.mem /\ t.cc = m.cc /\ t.pc = m.pc /\ t.stat = "ADR"
  BY <1>5 DEF Fault, Machines
<1> HIDE DEF t
<1> QED  BY <1>3, <1>4, <1>6 DEF Cycled, t, E, X, W

\* so is every instruction of a regular program.
LEMMA IsaCycles ==
    ASSUME NEW p, Wellformed(p), Regular(p), NEW m \in Machines, m.stat = "AOK"
    PROVE  Cycled(p, m, step_state(p, m))
<1>1. CASE m.pc \notin DOMAIN p
  BY <1>1, Strays
<1>2. CASE m.pc \in DOMAIN p
  <2> DEFINE i == p[m.pc]
  <2>1. Ready(p, m, i)
    BY <1>2 DEF Wellformed, Regular, Ready
  <2>2. i.icode \in {"rrmovq", "irmovq"} \cup {"nop", "halt", "jxx"} \cup {"opq", "iaddq"}
                    \cup {"rmmovq", "mrmovq"} \cup {"call", "pushq"} \cup {"ret", "popq"}
        \/ ~instr_valid(i.icode)
    BY DEF instr_valid
  <2> HIDE DEF i
  <2> QED  BY <2>1, <2>2, Moves, Idles, Operates, Accesses, Pushes, Pops
<1> QED  BY <1>1, <1>2

-----------------------------------------------------------------------------
(* What is on its way in the pipeline.  A stage computes what its          *)
(* instruction needs: valA and valB are anything where nobody reads them.  *)
Real(x) == x.status # "BUB"

UsesA == {"rrmovq", "opq", "rmmovq", "pushq", "popq", "ret", "call"}
UsesB == {"opq", "rmmovq", "mrmovq", "iaddq", "pushq", "popq", "call", "ret"}
KeepsA == {"rmmovq", "pushq", "popq", "ret", "call"}

\* E holds the next instruction of m decoded, M holds it executed.
Decoded(p, m, E) ==
    LET D == Decode(p, m)
    IN  /\ E.icode = D.icode /\ E.ifun = D.ifun /\ E.valC = D.valC
        /\ E.dstE = D.dstE /\ E.dstM = D.dstM /\ E.status = D.status /\ E.pc = D.pc
        /\ E.icode \in UsesA => E.valA = D.valA
        /\ E.icode \in UsesB => E.valB = D.valB
Executed(p, m, M) ==
    LET X == Execute(p, m)
    IN  /\ M.icode = X.icode /\ M.ifun = X.ifun /\ M.cnd = X.cnd /\ M.valE = X.valE
        /\ M.dstE = X.dstE /\ M.dstM = X.dstM /\ M.status = X.status /\ M.pc = X.pc
        /\ M.icode \in KeepsA => M.valA = X.valA

\* The execute stage on a decoded instruction computes what the machine does.
LEMMA Executing ==
    ASSUME NEW p, NEW m, NEW E, Decoded(p, m, E)
    PROVE  /\ Executed(p, m, do_ex_stage(E, m.cc))
           /\ Flagged(E, m.cc) = Flagged(Decode(p, m), m.cc)
<1> DEFINE D == Decode(p, m)
           x == do_ex_stage(E, m.cc)
           X == do_ex_stage(D, m.cc)
<1>1. /\ E.icode = D.icode /\ E.ifun = D.ifun /\ E.valC = D.valC
      /\ E.dstE = D.dstE /\ E.dstM = D.dstM /\ E.status = D.status /\ E.pc = D.pc
      /\ E.icode \in UsesA => E.valA = D.valA
      /\ E.icode \in UsesB => E.valB = D.valB
  BY DEF Decoded
<1> HIDE DEF D
<1>2. aluA(E) = aluA(D) /\ aluB(E) = aluB(D) /\ alufun(E) = alufun(D)
  BY <1>1 DEF aluA, aluB, alufun, UsesA, UsesB
<1>3. e_Cnd(E, m.cc) = e_Cnd(D, m.cc)
  BY <1>1 DEF e_Cnd
<1>4. e_dstE(E, e_Cnd(E, m.cc)) = e_dstE(D, e_Cnd(D, m.cc))
  <2>1. ASSUME NEW k PROVE e_dstE(E, k) = e_dstE(D, k)
    BY <1>1 DEF e_dstE
  <2> QED  BY <2>1, <1>3
<1>5. E.icode \in KeepsA => E.valA = D.valA
  BY <1>1 DEF UsesA, KeepsA
<1>6. /\ x.icode = X.icode /\ x.ifun = X.ifun /\ x.cnd = X.cnd /\ x.valE = X.valE
      /\ x.dstE = X.dstE /\ x.dstM = X.dstM /\ x.status = X.status /\ x.pc = X.pc
      /\ x.icode \in KeepsA => x.valA = X.valA
  BY <1>1, <1>2, <1>3, <1>4, <1>5 DEF do_ex_stage
<1>7. Flagged(E, m.cc) = Flagged(D, m.cc)
  BY <1>1, <1>2 DEF Flagged
<1>8. Execute(p, m) = X
  BY DEF Execute, D
<1> HIDE DEF x, X
<1>9. Executed(p, m, x)
  BY <1>6, <1>8 DEF Executed
<1> QED  BY <1>7, <1>9 DEF x, D

\* The memory stage on an executed one accesses what the machine does.
LEMMA Accessing ==
    ASSUME NEW p, NEW m, NEW M, Executed(p, m, M)
    PROVE  /\ do_mem_stage(M, m.mem) = Access(p, m)
           /\ Save(M, m.mem) = Save(Execute(p, m), m.mem)
<1> DEFINE X == Execute(p, m)
<1>1. /\ M.icode = X.icode /\ M.ifun = X.ifun /\ M.valE = X.valE
      /\ M.dstE = X.dstE /\ M.dstM = X.dstM /\ M.status = X.status /\ M.pc = X.pc
      /\ M.icode \in KeepsA => M.valA = X.valA
  BY DEF Executed
<1> HIDE DEF X
<1>2. /\ mem_read(M) = mem_read(X) /\ mem_write(M) = mem_write(X)
      /\ mem_addr(M) = mem_addr(X)
  BY <1>1 DEF mem_read, mem_write, mem_addr, KeepsA
<1>3. mem_write(M) => M.valA = X.valA
  BY <1>1 DEF mem_write, KeepsA
<1>4. do_mem_stage(M, m.mem) = do_mem_stage(X, m.mem)
  BY <1>1, <1>2 DEF do_mem_stage
<1> QED  BY <1>2, <1>3, <1>4 DEF Access, Save, X

\* Behind a bubble nothing changes.
Blank(X) == X.icode = "nop" /\ X.dstE = NONE /\ X.dstM = NONE

\* A bubble stays one through the stages and changes nothing.
LEMMA Blanks ==
    ASSUME NEW X, Blank(X), NEW flags, NEW data
    PROVE  /\ Blank(do_ex_stage(X, flags)) /\ Blank(do_mem_stage(X, data))
           /\ do_ex_stage(X, flags).status = X.status
           /\ do_mem_stage(X, data).status = X.status
           /\ Save(X, data) = data /\ Flagged(X, flags) = flags
BY DEF Blank, do_ex_stage, e_dstE, do_mem_stage, mem_read, mem_write, Save, Flagged

\* A bubble writes no register.
LEMMA BlankWrite == ASSUME NEW W, Blank(W), NEW r PROVE Write(r, W) = r
BY DEF Blank, Write, set_reg_val

\* What a write-back does to each register: the memory's value comes last.
LEMMA Written ==
    ASSUME NEW r \in [REGS -> Word], NEW W, NEW src \in REGS
    PROVE  Write(r, W)[src] = IF src = W.dstM THEN W.valM
                              ELSE IF src = W.dstE THEN W.valE ELSE r[src]
BY Y86Assumption DEF Write, set_reg_val

-----------------------------------------------------------------------------
(* The pipeline and the instruction set.  With machine m of the registers  *)
(* after W, s1, s2 and s3 are what the instructions in M, E and D, the     *)
(* bubbles left out, make of it; c are the pipeline registers and f is the *)
(* instruction fetched last.                                               *)
Run(p, m, X) == IF Real(X) THEN step_state(p, m) ELSE m

\* The address the instruction behind M, E, D and W has.
Pc3(c, f) == IF Real(f) THEN f.pc ELSE c.F.pc
Pc2(c, f) == IF Real(c.D) THEN c.D.pc ELSE Pc3(c, f)
Pc1(c, f) == IF Real(c.E) THEN c.E.pc ELSE Pc2(c, f)
Pc0(c, f) == IF Real(c.M) THEN c.M.pc ELSE Pc1(c, f)

\* The jumps that were corrected when they were fetched, with andq before them.
ShortcutE(c) == is_jle(c.E) /\ is_andq(c.M)
ShortcutD(c) == is_jle(c.D.i) /\ is_andq(c.E)

\* What is behind M, E or D is to be thrown away: a fault, a return that has
\* not read its address, or a jump not taken is before it.
Gone1(c, s1) == s1.stat # "AOK" \/ c.M.icode = "ret"
Gone2(c, s1, s2) ==
    \/ Gone1(c, s1) \/ s2.stat # "AOK" \/ c.E.icode = "ret"
    \/ c.E.icode = "jxx" /\ ~ShortcutE(c) /\ ~cond_holds(s1.cc, c.E.ifun)
Gone3(c, s1, s2, s3) ==
    \/ Gone2(c, s1, s2) \/ s3.stat # "AOK" \/ c.D.i.icode = "ret"
    \/ c.D.i.icode = "jxx" /\ ~ShortcutD(c) /\ ~cond_holds(s2.cc, c.D.i.ifun)

\* Bubbles are empty, and what is in D is what lies in memory at its address.
Filled(p, c, f) ==
    /\ IF Real(f) THEN f = Fetch(p, f.pc) ELSE f = bubble.D /\ c = bubble
    /\ IF Real(c.D) THEN c.D = Fetch(p, c.D.pc) ELSE c.D = bubble.D
    /\ ~Real(c.E) => Blank(c.E)
    /\ ~Real(c.M) => Blank(c.M)
    /\ ~Real(c.W) => Blank(c.W)

\* Nothing follows a return before its address is there.
Rets(c) == /\ c.M.icode = "ret" => ~Real(c.E) /\ ~Real(c.D)
           /\ c.E.icode = "ret" => ~Real(c.D)

\* What is fetched behind a load can be fetched again.
Hold(c, f) == c.E.icode \in {"mrmovq", "popq"} => f.pc = c.F.pc

\* A jump carries the address behind it.
PastJump(c) == c.E.icode = "jxx" /\ ~ShortcutE(c) => c.E.valA = c.E.pc + 1

Shaped(p, c, f) == Filled(p, c, f) /\ Rets(c) /\ Hold(c, f) /\ PastJump(c)

\* What is not thrown away is executed as the instruction set has it.
Follows(p, c, f, m, s1, s2, s3) ==
    /\ s1 = Run(p, m, c.M) /\ s2 = Run(p, s1, c.E) /\ s3 = Run(p, s2, c.D)
    /\ Pc0(c, f) = m.pc
    /\ Real(c.M) => Executed(p, m, c.M)
    /\ ~Gone1(c, s1) => Pc1(c, f) = s1.pc /\ (Real(c.E) => Decoded(p, s1, c.E))
    /\ ~Gone2(c, s1, s2) => Pc2(c, f) = s2.pc
    /\ ~Gone3(c, s1, s2, s3) => Pc3(c, f) = s3.pc

Linked(p, c, f, m, s1, s2, s3) ==
    /\ Wellformed(p) /\ Regular(p)
    /\ m \in Machines /\ m.stat = "AOK"
    /\ Shaped(p, c, f) /\ Follows(p, c, f, m, s1, s2, s3)

\* What the stages have computed, with register file r.
Pending(c, m, s1, r, w, x, d) ==
    /\ r \in [REGS -> Word] /\ m.reg = Write(r, c.W)
    /\ w = do_mem_stage(c.M, m.mem)
    /\ x = do_ex_stage(c.E, s1.cc)
    /\ d = do_id_stage(c, x, w, r)

\* The instruction in M.
LEMMA FirstStep ==
    ASSUME NEW p, NEW c, NEW f, NEW m, NEW s1, NEW s2, NEW s3,
           Linked(p, c, f, m, s1, s2, s3), NEW w, w = do_mem_stage(c.M, m.mem)
    PROVE  /\ s1 \in Machines /\ s1.mem = Save(c.M, m.mem)
           /\ w.icode = c.M.icode /\ w.dstM = c.M.dstM /\ w.dstE = c.M.dstE
           /\ w.valE = c.M.valE /\ w.ifun = c.M.ifun /\ w.pc = c.M.pc
           /\ s1.stat = IF Real(c.M) THEN w.status ELSE "AOK"
           /\ s1.stat = "AOK" => s1.reg = Write(m.reg, w)
           /\ (Real(w) <=> Real(c.M))
           /\ Real(c.M) => /\ w = Access(p, m) /\ Cycled(p, m, s1) /\ m.pc = c.M.pc
                           /\ c.M.icode = At(p, m.pc).icode
<1>1. /\ Wellformed(p) /\ Regular(p)
      /\ m \in Machines /\ m.stat = "AOK" /\ s1 = Run(p, m, c.M)
      /\ ~Real(c.M) => Blank(c.M)
      /\ Real(c.M) => Executed(p, m, c.M)
  BY DEF Linked, Shaped, Filled, Follows
<1>2. /\ w.icode = c.M.icode /\ w.dstM = c.M.dstM /\ w.dstE = c.M.dstE
      /\ w.valE = c.M.valE /\ w.ifun = c.M.ifun /\ w.pc = c.M.pc
      /\ w.status \in {"ADR", c.M.status}
  BY DEF do_mem_stage
<1>3. CASE Real(c.M)
  <2>1. s1 = step_state(p, m) /\ Executed(p, m, c.M)
    BY <1>1, <1>3 DEF Run
  <2>2. Cycled(p, m, s1) /\ s1 \in Machines
    BY <1>1, <2>1, IsaCycles, IsaStaysMachine
  <2>3. w = Access(p, m) /\ Save(c.M, m.mem) = Save(Execute(p, m), m.mem)
    BY <2>1, Accessing
  <2>4. Real(w)
    BY <1>2, <1>3 DEF Real
  <2>5. /\ s1.stat = w.status /\ s1.mem = Save(c.M, m.mem)
        /\ s1.stat = "AOK" => s1.reg = Write(m.reg, w)
    BY <2>2, <2>3 DEF Cycled
  <2>6. m.pc = c.M.pc /\ c.M.icode = At(p, m.pc).icode
    BY <2>1, GoesThrough DEF Executed, Through
  <2> QED  BY <1>2, <1>3, <2>2, <2>3, <2>4, <2>5, <2>6
<1>4. CASE ~Real(c.M)
  <2>1. Blank(c.M) /\ s1 = m
    BY <1>1, <1>4 DEF Run
  <2>2. Blank(w) /\ w.status = c.M.status /\ Save(c.M, m.mem) = m.mem
    BY <2>1, Blanks
  <2>3. Write(m.reg, w) = m.reg /\ ~Real(w)
    BY <1>4, <2>2, BlankWrite DEF Real
  <2> QED  BY <1>1, <1>2, <1>4, <2>1, <2>2, <2>3
<1> QED  BY <1>3, <1>4

\* The instruction in E, when that in M makes no fault.
LEMMA SecondStep ==
    ASSUME NEW p, NEW c, NEW f, NEW m, NEW s1, NEW s2, NEW s3,
           Linked(p, c, f, m, s1, s2, s3), s1.stat = "AOK",
           NEW x, x = do_ex_stage(c.E, s1.cc)
    PROVE  /\ s2 \in Machines /\ s2.cc = Flagged(c.E, s1.cc)
           /\ x.icode = c.E.icode /\ x.ifun = c.E.ifun /\ x.status = c.E.status
           /\ x.dstM = c.E.dstM /\ x.pc = c.E.pc /\ x.valA = c.E.valA
           /\ x.cnd = e_Cnd(c.E, s1.cc) /\ (Real(x) <=> Real(c.E))
           /\ ~Real(c.E) => s2 = s1 /\ Blank(x)
           /\ Real(c.E) => /\ Decoded(p, s1, c.E) /\ Executed(p, s1, x)
                           /\ Cycled(p, s1, s2) /\ s1.pc = c.E.pc
                           /\ c.M.icode # "ret" /\ Pc1(c, f) = s1.pc
           /\ s2.stat = "AOK" => \A src \in REGS : src # x.dstM =>
                    s2.reg[src] = IF src = x.dstE THEN x.valE ELSE s1.reg[src]
<1>1. /\ Wellformed(p) /\ Regular(p) /\ s2 = Run(p, s1, c.E) /\ s1 \in Machines
      /\ ~Real(c.E) => Blank(c.E)
      /\ ~Gone1(c, s1) => Pc1(c, f) = s1.pc /\ (Real(c.E) => Decoded(p, s1, c.E))
      /\ c.M.icode = "ret" => ~Real(c.E)
  BY FirstStep DEF Linked, Shaped, Filled, Follows, Rets
<1>2. /\ x.icode = c.E.icode /\ x.ifun = c.E.ifun /\ x.status = c.E.status
      /\ x.dstM = c.E.dstM /\ x.pc = c.E.pc /\ x.valA = c.E.valA
      /\ x.cnd = e_Cnd(c.E, s1.cc) /\ (Real(x) <=> Real(c.E))
  BY DEF do_ex_stage, Real
<1>3. CASE Real(c.E)
  <2>1. ~Gone1(c, s1)
    BY <1>1, <1>3 DEF Gone1
  <2>2. Decoded(p, s1, c.E) /\ s2 = step_state(p, s1) /\ Pc1(c, f) = s1.pc
    BY <1>1, <1>3, <2>1 DEF Run
  <2>3. Cycled(p, s1, s2) /\ s2 \in Machines
    BY <1>1, <2>2, IsaCycles, IsaStaysMachine
  <2>4. Executed(p, s1, x) /\ s2.cc = Flagged(c.E, s1.cc)
    BY <2>2, <2>3, Executing DEF Cycled
  <2>5. s1.pc = c.E.pc
    BY <1>3, <2>2 DEF Pc1
  <2>6. ASSUME s2.stat = "AOK", NEW src \in REGS, src # x.dstM
        PROVE  s2.reg[src] = IF src = x.dstE THEN x.valE ELSE s1.reg[src]
    <3>1. s2.reg = Write(s1.reg, Access(p, s1)) /\ s1.reg \in [REGS -> Word]
      BY <1>1, <2>3, <2>6 DEF Cycled, Machines
    <3>2. Access(p, s1) = do_mem_stage(x, s1.mem)
      BY <2>4, Accessing
    <3>3. /\ do_mem_stage(x, s1.mem).dstM = x.dstM
          /\ do_mem_stage(x, s1.mem).dstE = x.dstE
          /\ do_mem_stage(x, s1.mem).valE = x.valE
      BY DEF do_mem_stage
    <3> QED  BY <2>6, <3>1, <3>2, <3>3, Written
  <2>7. c.M.icode # "ret"
    BY <1>1, <1>3
  <2> QED  BY <1>2, <1>3, <2>2, <2>3, <2>4, <2>5, <2>6, <2>7
<1>4. CASE ~Real(c.E)
  <2>1. Blank(c.E) /\ s2 = s1
    BY <1>1, <1>4 DEF Run
  <2>2. Blank(x) /\ Flagged(c.E, s1.cc) = s1.cc
    BY <2>1, Blanks
  <2>3. \A src \in REGS : src # x.dstE
    BY <2>2, Y86Assumption DEF Blank
  <2> QED  BY <1>1, <1>2, <1>4, <2>1, <2>2, <2>3
<1> QED  BY <1>3, <1>4

\* The forwarded value is that of the register after the instruction in E,
\* unless that instruction is still to load it.
LEMMA Forwards ==
    ASSUME NEW p, NEW c, NEW f, NEW m, NEW s1, NEW s2, NEW s3,
           Linked(p, c, f, m, s1, s2, s3), NEW r, NEW w, NEW x, NEW d,
           Pending(c, m, s1, r, w, x, d), s1.stat = "AOK", s2.stat = "AOK",
           NEW src \in REGS, src # c.E.dstM
    PROVE  Forwarded(src, c, x, w, r) = s2.reg[src]
<1>1. /\ m \in Machines /\ w = do_mem_stage(c.M, m.mem) /\ x = do_ex_stage(c.E, s1.cc)
      /\ r \in [REGS -> Word] /\ m.reg = Write(r, c.W) /\ m.reg \in [REGS -> Word]
  BY DEF Linked, Pending, Machines
<1>2. s2.reg[src] = IF src = x.dstE THEN x.valE ELSE s1.reg[src]
  BY <1>1, SecondStep
<1>3. s1.reg = Write(m.reg, w) /\ w.dstM = c.M.dstM /\ w.dstE = c.M.dstE /\ w.valE = c.M.valE
  BY <1>1, FirstStep
<1>4. s1.reg[src] = IF src = c.M.dstM THEN w.valM
                    ELSE IF src = c.M.dstE THEN c.M.valE ELSE m.reg[src]
  <2>1. Write(m.reg, w)[src] = IF src = w.dstM THEN w.valM
                               ELSE IF src = w.dstE THEN w.valE ELSE m.reg[src]
    BY <1>1, Written
  <2> QED  BY <1>3, <2>1
<1>5. m.reg[src] = IF src = c.W.dstM THEN c.W.valM
                   ELSE IF src = c.W.dstE THEN c.W.valE ELSE r[src]
  BY <1>1, Written
<1>6. get_reg_val(r, src) = r[src]
  BY Y86Assumption DEF get_reg_val
<1> QED  BY <1>2, <1>4, <1>5, <1>6 DEF Forwarded

\* The instruction in D is decoded with the operands it should have.
LEMMA Decodes ==
    ASSUME NEW p, NEW c, NEW f, NEW m, NEW s1, NEW s2, NEW s3,
           Linked(p, c, f, m, s1, s2, s3), NEW r, NEW w, NEW x, NEW d,
           Pending(c, m, s1, r, w, x, d), ~Gone2(c, s1, s2), ~LoadUse(c), Real(c.D)
    PROVE  Decoded(p, s2, d)
<1> DEFINE i == c.D.i
           D == Decode(p, s2)
<1>1. s1.stat = "AOK" /\ s2.stat = "AOK"
  BY DEF Gone2, Gone1
<1>2. c.D = Fetch(p, c.D.pc) /\ c.D.pc = s2.pc
  BY DEF Linked, Shaped, Filled, Follows, Pc2
<1>3. i = At(p, s2.pc) /\ c.D.valP = s2.pc + 1 /\ c.D.status = FetchStat(p, s2.pc)
  BY <1>2 DEF Fetch
<1>4. s2 \in Machines
  BY <1>1, SecondStep
<1>5. /\ D.icode = i.icode /\ D.ifun = i.ifun /\ D.valC = i.valC
      /\ D.valA = IF i.icode \in {"call", "jxx"} THEN s2.pc + 1
                  ELSE get_reg_val(s2.reg, d_srcA(i))
      /\ D.valB = get_reg_val(s2.reg, d_srcB(i))
      /\ D.dstE = d_dstE(i) /\ D.dstM = d_dstM(i)
      /\ D.status = FetchStat(p, s2.pc) /\ D.pc = s2.pc
  <2> HIDE DEF i, D
  <2> QED  BY <1>3, GoesThrough DEF Through, D
<1>6. /\ d.icode = i.icode /\ d.ifun = i.ifun /\ d.valC = i.valC
      /\ d.valA = d_valA(c, x, w, r) /\ d.valB = d_valB(c, x, w, r)
      /\ d.dstE = d_dstE(i) /\ d.dstM = d_dstM(i)
      /\ d.status = c.D.status /\ d.pc = c.D.pc
  BY DEF Pending, do_id_stage
<1>7. /\ i.icode \in UsesA \ {"call"} => d_srcA(i) \in REGS
      /\ i.icode \in UsesB => d_srcB(i) \in REGS
  <2>1. CASE s2.pc \in DOMAIN p
    <3>1. i = p[s2.pc] /\ i \in Instruction
      BY <1>3, <2>1 DEF At, Linked, Wellformed
    <3>2. /\ i.icode \in {"rrmovq", "opq", "rmmovq", "pushq"} => i.rA # NONE
          /\ i.icode \in {"opq", "rmmovq", "mrmovq", "iaddq"} => i.rB # NONE
      BY <2>1, <3>1 DEF Linked, Regular, Refused, reg_valid
    <3>3. i.rA \in REGS \cup {NONE} /\ i.rB \in REGS \cup {NONE}
      BY <3>1 DEF Instruction
    <3> HIDE DEF i
    <3> QED  BY <3>2, <3>3, Y86Assumption DEF UsesA, UsesB, d_srcA, d_srcB
  <2>2. CASE s2.pc \notin DOMAIN p
    <3>1. i.icode = "nop"
      BY <1>3, <2>2 DEF At, NOP
    <3> QED  BY <3>1 DEF UsesA, UsesB
  <2> QED  BY <2>1, <2>2
<1>8. \A src \in REGS : src \in {d_srcA(i), d_srcB(i)} => src # c.E.dstM
  <2>1. c.E.icode \in {"mrmovq", "popq"} \/ c.E.dstM = NONE
    <3>1. CASE Real(c.E)
      <4>1. Decoded(p, s1, c.E)
        BY <1>1, <3>1, SecondStep
      <4>2. c.E.icode = At(p, s1.pc).icode /\ c.E.dstM = d_dstM(At(p, s1.pc))
        BY <4>1, GoesThrough DEF Decoded, Through
      <4> QED  BY <4>2 DEF d_dstM
    <3>2. CASE ~Real(c.E)
      BY <3>2 DEF Linked, Shaped, Filled, Blank
    <3> QED  BY <3>1, <3>2
  <2> HIDE DEF i
  <2>2. c.E.icode \in {"mrmovq", "popq"} => c.E.dstM \notin {d_srcA(i), d_srcB(i)}
    BY DEF LoadUse, i
  <2> QED  BY <2>1, <2>2, Y86Assumption
<1>9. \A src \in REGS : src \in {d_srcA(i), d_srcB(i)} =>
        Forwarded(src, c, x, w, r) = get_reg_val(s2.reg, src)
  <2> HIDE DEF i
  <2>1. \A src \in REGS : get_reg_val(s2.reg, src) = s2.reg[src]
    BY Y86Assumption DEF get_reg_val
  <2>2. ASSUME NEW src \in REGS, src # c.E.dstM
        PROVE  Forwarded(src, c, x, w, r) = s2.reg[src]
    BY <1>1, <2>2, Forwards
  <2> QED  BY <1>8, <2>1, <2>2
<1> HIDE DEF i
<1>10. i.icode \in UsesB => d.valB = D.valB
  <2>1. d_valB(c, x, w, r) = Forwarded(d_srcB(i), c, x, w, r)
    BY DEF d_valB, i
  <2> QED  BY <1>5, <1>6, <1>7, <1>9, <2>1
<1>11. i.icode \in UsesA => d.valA = D.valA
  <2>1. i.icode \in UsesA => i.icode # "jxx"
    BY DEF UsesA
  <2>2. i.icode # "jxx" =>
          d_valA(c, x, w, r) = IF i.icode = "call" THEN c.D.valP
                               ELSE Forwarded(d_srcA(i), c, x, w, r)
    BY DEF d_valA, is_jle, i
  <2> QED  BY <1>3, <1>5, <1>6, <1>7, <1>9, <2>1, <2>2
<1> HIDE DEF D
<1> QED  BY <1>2, <1>3, <1>5, <1>6, <1>10, <1>11 DEF Decoded, D

\* What a cycle makes of the pipeline registers, when the instruction in M
\* has made no fault.
Advanced(p, c, f, w, x, d, c2, f2) ==
    /\ c2.W = w /\ c2.M = x
    /\ c2.E = IF E_bubble(c, x.cnd) THEN bubble.E ELSE d
    /\ c2.D = IF D_stall(c) THEN c.D ELSE IF D_bubble(c, x.cnd) THEN bubble.D ELSE f
    /\ c2.F.pc = IF F_stall(c) THEN c.F.pc ELSE f_predPC(f)
    /\ f2 = Fetch(p, f_pc(c2, f))

\* What the stages leave of the instructions in them.
LEMMA Carried ==
    ASSUME NEW p, NEW c, NEW f, NEW m, NEW s1, NEW s2, NEW s3,
           Linked(p, c, f, m, s1, s2, s3), s1.stat = "AOK", NEW r, NEW w, NEW x, NEW d,
           Pending(c, m, s1, r, w, x, d)
    PROVE  /\ w.icode = c.M.icode /\ w.ifun = c.M.ifun /\ (~Real(w) => Blank(w))
           /\ x.icode = c.E.icode /\ x.ifun = c.E.ifun /\ x.pc = c.E.pc
           /\ x.cnd = e_Cnd(c.E, s1.cc)
           /\ (Real(x) <=> Real(c.E)) /\ (~Real(x) => Blank(x))
           /\ d.icode = c.D.i.icode /\ d.ifun = c.D.i.ifun /\ d.pc = c.D.pc
           /\ (Real(d) <=> Real(c.D)) /\ (~Real(d) => Blank(d))
           /\ (d.icode = "jxx" /\ ~ShortcutD(c)) => d.valA = c.D.pc + 1
<1>1. /\ w = do_mem_stage(c.M, m.mem) /\ x = do_ex_stage(c.E, s1.cc)
      /\ d = do_id_stage(c, x, w, r)
  BY DEF Pending
<1>2. w.icode = c.M.icode /\ w.ifun = c.M.ifun /\ (~Real(w) => Blank(w))
  <2>1. w.icode = c.M.icode /\ w.ifun = c.M.ifun /\ (Real(w) <=> Real(c.M))
    BY <1>1, FirstStep
  <2>2. ~Real(c.M) => Blank(c.M)
    BY DEF Linked, Shaped, Filled
  <2> QED  BY <1>1, <2>1, <2>2, Blanks
<1>3. /\ x.icode = c.E.icode /\ x.ifun = c.E.ifun /\ x.pc = c.E.pc
      /\ x.cnd = e_Cnd(c.E, s1.cc)
      /\ (Real(x) <=> Real(c.E)) /\ (~Real(x) => Blank(x))
  BY <1>1, SecondStep
<1>4. /\ d.icode = c.D.i.icode /\ d.ifun = c.D.i.ifun /\ d.pc = c.D.pc
      /\ d.dstE = d_dstE(c.D.i) /\ d.dstM = d_dstM(c.D.i) /\ d.status = c.D.status
      /\ d.valA = d_valA(c, x, w, r)
  BY <1>1 DEF do_id_stage
<1>5. ~Real(c.D) => Blank(d)
  <2>1. ~Real(c.D) => c.D.i = NOP
    BY DEF Linked, Shaped, Filled, bubble
  <2> QED  BY <1>4, <2>1 DEF Blank, NOP, d_dstE, d_dstM
<1>6. d.icode = "jxx" /\ ~ShortcutD(c) => d.valA = c.D.pc + 1
  <2>1. d.icode = "jxx" => Real(c.D)
    BY <1>5 DEF Blank
  <2>2. Real(c.D) => c.D.valP = c.D.pc + 1
    <3>1. Real(c.D) => c.D = Fetch(p, c.D.pc)
      BY DEF Linked, Shaped, Filled
    <3> QED  BY <3>1 DEF Fetch
  <2> QED  BY <1>4, <2>1, <2>2 DEF d_valA, ShortcutD
<1>7. Real(d) <=> Real(c.D)
  BY <1>4 DEF Real
<1> QED  BY <1>2, <1>3, <1>4, <1>5, <1>6, <1>7

\* A cycle keeps the shape of the pipeline: what can stand behind a return, a
\* load or a jump.
LEMMA Shapes ==
    ASSUME NEW p, NEW c, NEW f, NEW m, NEW s1, NEW s2, NEW s3,
           Linked(p, c, f, m, s1, s2, s3), s1.stat = "AOK", NEW r, NEW w, NEW x, NEW d,
           Pending(c, m, s1, r, w, x, d), NEW c2, NEW f2,
           Advanced(p, c, f, w, x, d, c2, f2)
    PROVE  Shaped(p, c2, f2) /\ Real(f2)
<1>1. /\ w.icode = c.M.icode /\ w.ifun = c.M.ifun /\ (~Real(w) => Blank(w))
      /\ x.icode = c.E.icode /\ x.ifun = c.E.ifun /\ x.pc = c.E.pc
      /\ (Real(x) <=> Real(c.E)) /\ (~Real(x) => Blank(x))
      /\ d.icode = c.D.i.icode /\ d.ifun = c.D.i.ifun /\ d.pc = c.D.pc
      /\ (Real(d) <=> Real(c.D)) /\ (~Real(d) => Blank(d))
      /\ (d.icode = "jxx" /\ ~ShortcutD(c)) => d.valA = c.D.pc + 1
  BY Carried
<1>2. /\ IF Real(f) THEN f = Fetch(p, f.pc) ELSE f = bubble.D
      /\ IF Real(c.D) THEN c.D = Fetch(p, c.D.pc) ELSE c.D = bubble.D
      /\ c.M.icode = "ret" => ~Real(c.D)
      /\ c.E.icode = "ret" => ~Real(c.D)
  BY DEF Linked, Shaped, Filled, Rets
<1>3. /\ c2.W = w /\ c2.M = x
      /\ c2.E = IF E_bubble(c, x.cnd) THEN bubble.E ELSE d
      /\ c2.D = IF D_stall(c) THEN c.D ELSE IF D_bubble(c, x.cnd) THEN bubble.D ELSE f
      /\ f2 = Fetch(p, f_pc(c2, f))
  BY DEF Advanced
<1>4. ~Real(bubble.D) /\ ~Real(bubble.E) /\ Blank(bubble.E)
  BY DEF bubble, Real, Blank
<1>5. f2.pc = f_pc(c2, f) /\ Real(f2)
  BY <1>3 DEF Fetch, FetchStat, Real
<1>6. Filled(p, c2, f2)
  BY <1>1, <1>2, <1>3, <1>4, <1>5 DEF Filled
<1>7. Rets(c2)
  <2>1. ASSUME c2.M.icode = "ret" PROVE ~Real(c2.E) /\ ~Real(c2.D)
    <3>1. c.E.icode = "ret" /\ ~Real(c.D)
      BY <1>1, <1>2, <1>3, <2>1
    <3>2. ~D_stall(c) /\ D_bubble(c, x.cnd)
      BY <3>1 DEF D_stall, LoadUse, D_bubble, Returning
    <3> QED  BY <1>1, <1>3, <1>4, <3>1, <3>2
  <2>2. ASSUME c2.E.icode = "ret" PROVE ~Real(c2.D)
    <3>1. ~E_bubble(c, x.cnd) /\ c.D.i.icode = "ret"
      BY <1>1, <1>3, <1>4, <2>2 DEF Blank
    <3>2. ~D_stall(c) /\ D_bubble(c, x.cnd)
      BY <3>1 DEF D_stall, E_bubble, D_bubble, Returning
    <3> QED  BY <1>3, <1>4, <3>2
  <2> QED  BY <2>1, <2>2 DEF Rets
<1>8. Hold(c2, f2)
  <2> SUFFICES ASSUME c2.E.icode \in {"mrmovq", "popq"} PROVE f_pc(c2, f) = c2.F.pc
    BY <1>5 DEF Hold
  <2>1. ~E_bubble(c, x.cnd) /\ c2.E = d /\ Real(c.D)
    BY <1>1, <1>3, <1>4 DEF Blank
  <2>2. c2.W.icode # "ret" /\ ~is_andq(c2.E)
    BY <1>1, <1>2, <1>3, <2>1 DEF is_andq
  <2>3. c2.M.icode = "jxx" /\ ~c2.M.cnd => is_jle(c2.M) /\ is_andq(c2.W)
    BY <1>1, <1>3, <2>1 DEF E_bubble, Mispredicted, is_jle, is_andq
  <2> QED  BY <2>2, <2>3 DEF f_pc
<1>9. PastJump(c2)
  <2> SUFFICES ASSUME c2.E.icode = "jxx", ~ShortcutE(c2) PROVE c2.E.valA = c2.E.pc + 1
    BY DEF PastJump
  <2>1. c2.E = d
    BY <1>1, <1>3, <1>4 DEF Blank
  <2>2. ~ShortcutD(c)
    BY <1>1, <1>3, <2>1 DEF ShortcutD, ShortcutE, is_jle, is_andq
  <2> QED  BY <1>1, <2>1, <2>2
<1> QED  BY <1>5, <1>6, <1>7, <1>8, <1>9 DEF Shaped

\* A jump makes no fault.
LEMMA JumpGoes ==
    ASSUME NEW p, NEW m, At(p, m.pc).icode = "jxx", NEW t, Cycled(p, m, t)
    PROVE  /\ t.stat = "AOK"
           /\ t.pc = IF cond_holds(m.cc, At(p, m.pc).ifun) THEN At(p, m.pc).valC ELSE m.pc + 1
<1>1. m.pc \in DOMAIN p /\ p[m.pc].icode = "jxx"
  BY DEF At, NOP
<1>2. FetchStat(p, m.pc) = "AOK"
  BY <1>1 DEF FetchStat, instr_valid
<1> DEFINE i == At(p, m.pc)
           E == Decode(p, m)
           X == Execute(p, m)
           W == Access(p, m)
<1>3. Through(p, m, i, E, X, W)
  BY GoesThrough
<1>4. t.stat = W.status /\ (t.stat = "AOK" => t.pc = Follow(p, m))
  BY DEF Cycled
<1> HIDE DEF E, X, W
<1>5. W.status = "AOK"
  BY <1>2, <1>3 DEF Through, mem_read, mem_write
<1> QED  BY <1>4, <1>5 DEF Follow

\* andq of one register leaves the flags of a comparison with zero.
LEMMA AndThenJle ==
    ASSUME NEW p, Wellformed(p), Regular(p), NEW m \in Machines, m.stat = "AOK",
           is_andq(At(p, m.pc)), NEW t, Cycled(p, m, t), t.stat = "AOK",
           is_jle(At(p, t.pc))
    PROVE  cond_holds(t.cc, "le") <=> ~(Decode(p, m).valA > 0)
<1> DEFINE i == At(p, m.pc)
           E == Decode(p, m)
           v == get_reg_val(m.reg, i.rA)
<1>1. /\ m.pc \in DOMAIN p /\ i = p[m.pc] /\ i \in Instruction
      /\ i.icode = "opq" /\ i.ifun = "and"
  BY DEF At, NOP, is_andq, Wellformed
<1>2. t.pc = m.pc + 1
  BY <1>1 DEF Cycled, Follow
<1>3. t.pc \in DOMAIN p /\ At(p, t.pc) = p[t.pc]
  BY DEF At, NOP, is_jle
<1>4. i.rA = i.rB
  BY <1>1, <1>2, <1>3 DEF Regular
<1>5. v \in Word
  BY <1>1, Reads DEF Instruction
<1>6. Through(p, m, i, E, Execute(p, m), Access(p, m))
  BY GoesThrough
<1> HIDE DEF i, E
<1>7. /\ E.icode = "opq" /\ E.ifun = "and" /\ E.valA = v /\ E.valB = v
  BY <1>1, <1>4, <1>6 DEF Through, d_srcA, d_srcB
<1> HIDE DEF v
<1>8. t.cc = compute_cc("and", v, v)
  BY <1>7 DEF Cycled, Flagged, E, alufun, aluA, aluB
<1>9. compute_alu("and", v, v) = v
  BY <1>5, BitsAssumption DEF compute_alu
<1>10. t.cc = [z |-> v = 0, s |-> v < 0, o |-> FALSE]
  BY <1>8, <1>9 DEF compute_cc
<1>11. v \in Int
  BY <1>5, WordIsInt
<1>12. CASE v > 0
  <2>1. (v = 0) = FALSE /\ (v < 0) = FALSE
    BY <1>11, <1>12
  <2>2. t.cc = [z |-> FALSE, s |-> FALSE, o |-> FALSE]
    BY <1>10, <2>1, Zenon
  <2>3. ~cond_holds(t.cc, "le")
    BY <2>2 DEF cond_holds
  <2> QED  BY <1>7, <1>12, <2>3 DEF E
<1>13. CASE v = 0
  <2>1. (v = 0) = TRUE /\ (v < 0) = FALSE
    BY <1>13
  <2>2. t.cc = [z |-> TRUE, s |-> FALSE, o |-> FALSE]
    BY <1>10, <2>1, Zenon
  <2>3. cond_holds(t.cc, "le")
    BY <2>2 DEF cond_holds
  <2> QED  BY <1>7, <1>13, <2>3 DEF E
<1>14. CASE v < 0
  <2>1. (v = 0) = FALSE /\ (v < 0) = TRUE /\ ~(v > 0)
    BY <1>11, <1>14
  <2>2. t.cc = [z |-> FALSE, s |-> TRUE, o |-> FALSE]
    BY <1>10, <2>1, Zenon
  <2>3. cond_holds(t.cc, "le")
    BY <2>2 DEF cond_holds
  <2> QED  BY <1>7, <2>1, <2>3 DEF E
<1> QED  BY <1>11, <1>12, <1>13, <1>14

\* A jump in E was not taken: what is behind it gives way to what lies there.
LEMMA Turned ==
    ASSUME NEW p, NEW c, NEW f, NEW m, NEW s1, NEW s2, NEW s3,
           Linked(p, c, f, m, s1, s2, s3), s1.stat = "AOK", NEW r, NEW w, NEW x, NEW d,
           Pending(c, m, s1, r, w, x, d), NEW c2, NEW f2,
           Advanced(p, c, f, w, x, d, c2, f2), Mispredicted(c, x.cnd)
    PROVE  Follows(p, c2, f2, s1, s2, s2, s2)
<1>1. /\ c.E.icode = "jxx" /\ ~x.cnd /\ ~ShortcutE(c)
  BY DEF Mispredicted, ShortcutE
<1>2. /\ x.icode = c.E.icode /\ x.valA = c.E.valA /\ x.cnd = e_Cnd(c.E, s1.cc)
      /\ x.ifun = c.E.ifun /\ x.pc = c.E.pc
      /\ Real(c.E) /\ Real(x) /\ s1.pc = c.E.pc /\ Decoded(p, s1, c.E)
      /\ Cycled(p, s1, s2) /\ Executed(p, s1, x)
  BY <1>1, SecondStep DEF Pending, Blank
<1>3. c.E.icode = At(p, s1.pc).icode /\ c.E.ifun = At(p, s1.pc).ifun
  BY <1>2, GoesThrough DEF Decoded, Through
<1>4. s2.pc = s1.pc + 1
  <2>1. ~cond_holds(s1.cc, c.E.ifun)
    BY <1>1, <1>2 DEF e_Cnd
  <2> QED  BY <1>1, <1>2, <1>3, <2>1, JumpGoes
<1>5. c.E.valA = s2.pc
  BY <1>1, <1>2, <1>4 DEF Linked, Shaped, PastJump
<1>6. c2.W = w /\ c2.M = x /\ c2.E = bubble.E /\ c2.D = bubble.D
  BY <1>1 DEF Advanced, E_bubble, D_bubble, D_stall, LoadUse
<1>7. w.icode = c.M.icode /\ w.ifun = c.M.ifun
  BY Carried
<1>8. ~Real(bubble.E) /\ ~Real(bubble.D) /\ ~is_andq(bubble.E)
  BY DEF bubble, Real, is_andq
<1>9. f_pc(c2, f) = s2.pc
  <2>1. ~(is_jle(c2.M) /\ is_andq(c2.W))
    BY <1>1, <1>2, <1>6, <1>7 DEF ShortcutE, is_jle, is_andq
  <2> QED  BY <1>1, <1>2, <1>5, <1>6, <1>8, <2>1 DEF f_pc
<1>10. f2.pc = s2.pc /\ Real(f2)
  BY <1>9, Shapes DEF Advanced, Fetch
<1>11. /\ Pc0(c2, f2) = s1.pc /\ Pc1(c2, f2) = s2.pc
       /\ Pc2(c2, f2) = s2.pc /\ Pc3(c2, f2) = s2.pc
  BY <1>2, <1>6, <1>8, <1>10 DEF Pc0, Pc1, Pc2, Pc3
<1>12. s2 = Run(p, s1, x)
  BY <1>2 DEF Run, Linked, Follows
<1> QED  BY <1>2, <1>6, <1>8, <1>11, <1>12 DEF Follows, Run

\* D waits for the load in E.
LEMMA Stalled ==
    ASSUME NEW p, NEW c, NEW f, NEW m, NEW s1, NEW s2, NEW s3,
           Linked(p, c, f, m, s1, s2, s3), s1.stat = "AOK", NEW r, NEW w, NEW x, NEW d,
           Pending(c, m, s1, r, w, x, d), NEW c2, NEW f2,
           Advanced(p, c, f, w, x, d, c2, f2), LoadUse(c)
    PROVE  Follows(p, c2, f2, s1, s2, s2, s3)
<1>1. c.E.icode \in {"mrmovq", "popq"}
  BY DEF LoadUse
<1>2. /\ x.icode = c.E.icode /\ x.pc = c.E.pc /\ c.M.icode # "ret"
      /\ Real(c.E) /\ Real(x) /\ s1.pc = c.E.pc /\ Executed(p, s1, x)
  BY <1>1, SecondStep DEF Pending, Blank
<1>3. w.icode = c.M.icode /\ w.ifun = c.M.ifun
  BY Carried
<1>4. c2.W = w /\ c2.M = x /\ c2.E = bubble.E /\ c2.D = c.D /\ c2.F.pc = c.F.pc
  BY DEF Advanced, E_bubble, D_stall, F_stall
<1>5. ~Real(bubble.E) /\ ~is_andq(bubble.E) /\ bubble.E.icode = "nop"
  BY DEF bubble, Real, is_andq
<1>6. f_pc(c2, f) = c.F.pc
  BY <1>1, <1>2, <1>3, <1>4, <1>5 DEF f_pc, is_jle
<1>7. f2.pc = c.F.pc /\ Real(f2)
  BY <1>6, Shapes DEF Advanced, Fetch
<1>8. f.pc = c.F.pc
  BY <1>1 DEF Linked, Shaped, Hold
<1>9. /\ Pc0(c2, f2) = s1.pc /\ Pc1(c2, f2) = Pc2(c2, f2)
      /\ Pc2(c2, f2) = Pc2(c, f) /\ Pc3(c2, f2) = Pc3(c, f)
  BY <1>2, <1>4, <1>5, <1>7, <1>8 DEF Pc0, Pc1, Pc2, Pc3
<1>10. s2.stat = "AOK" => ~Gone2(c, s1, s2)
  BY <1>1, <1>2 DEF Gone2, Gone1
<1>11. Gone3(c, s1, s2, s3) => Gone3(c2, s2, s2, s3)
  <2>1. ~ShortcutD(c) /\ ~ShortcutD(c2)
    BY <1>1, <1>4, <1>5 DEF ShortcutD, is_andq
  <2>2. ~Gone2(c2, s2, s2) => ~Gone2(c, s1, s2)
    BY <1>10 DEF Gone2, Gone1
  <2> QED  BY <1>4, <2>1, <2>2 DEF Gone3
<1>12. /\ s2 = Run(p, s1, x) /\ s3 = Run(p, s2, c.D)
       /\ ~Gone2(c, s1, s2) => Pc2(c, f) = s2.pc
       /\ ~Gone3(c, s1, s2, s3) => Pc3(c, f) = s3.pc
  BY <1>2 DEF Run, Linked, Follows
<1>13. ~Gone1(c2, s2) \/ ~Gone2(c2, s2, s2) => Pc2(c, f) = s2.pc
  BY <1>10, <1>12 DEF Gone1, Gone2
<1> QED  BY <1>2, <1>4, <1>5, <1>9, <1>11, <1>12, <1>13 DEF Follows, Run

\* When nothing in E is turned down and D does not wait, the machine that D
\* works on is known as soon as E makes no fault.
LEMMA Reaches ==
    ASSUME NEW p, NEW c, NEW f, NEW m, NEW s1, NEW s2, NEW s3,
           Linked(p, c, f, m, s1, s2, s3), s1.stat = "AOK", NEW r, NEW w, NEW x, NEW d,
           Pending(c, m, s1, r, w, x, d), ~LoadUse(c), ~Mispredicted(c, x.cnd),
           c.M.icode # "ret", c.E.icode # "ret", s2.stat = "AOK"
    PROVE  /\ ~Gone2(c, s1, s2) /\ Pc2(c, f) = s2.pc
           /\ Real(d) => Decoded(p, s2, d)
<1>1. ~(c.E.icode = "jxx" /\ ~ShortcutE(c) /\ ~cond_holds(s1.cc, c.E.ifun))
  <2>1. x.cnd = e_Cnd(c.E, s1.cc)
    BY Carried
  <2> QED  BY <2>1 DEF Mispredicted, ShortcutE, e_Cnd
<1>2. ~Gone2(c, s1, s2)
  BY <1>1 DEF Gone2, Gone1
<1>3. Pc2(c, f) = s2.pc
  BY <1>2 DEF Linked, Follows
<1>4. Real(d) => Decoded(p, s2, d)
  BY <1>2, Decodes, Carried
<1> QED  BY <1>2, <1>3, <1>4

\* A return is on its way: what is fetched behind it is thrown away, until W
\* has its address.
LEMMA Returns ==
    ASSUME NEW p, NEW c, NEW f, NEW m, NEW s1, NEW s2, NEW s3,
           Linked(p, c, f, m, s1, s2, s3), s1.stat = "AOK", NEW r, NEW w, NEW x, NEW d,
           Pending(c, m, s1, r, w, x, d), NEW c2, NEW f2,
           Advanced(p, c, f, w, x, d, c2, f2),
           ~LoadUse(c), ~Mispredicted(c, x.cnd), Returning(c)
    PROVE  Follows(p, c2, f2, s1, s2, s3, s3)
<1>1. c2.W = w /\ c2.M = x /\ c2.E = d /\ c2.D = bubble.D
  BY DEF Advanced, E_bubble, D_stall, D_bubble
<1>2. /\ w.icode = c.M.icode
      /\ x.icode = c.E.icode /\ x.pc = c.E.pc
      /\ (Real(x) <=> Real(c.E)) /\ (~Real(x) => Blank(x))
      /\ d.icode = c.D.i.icode /\ d.pc = c.D.pc
      /\ (Real(d) <=> Real(c.D)) /\ (~Real(d) => Blank(d))
  BY Carried
<1>3. /\ s2 = Run(p, s1, x) /\ s3 = Run(p, s2, d)
      /\ Real(x) => Executed(p, s1, x) /\ s1.pc = c.E.pc
  <2>1. Real(c.E) => Executed(p, s1, x) /\ s1.pc = c.E.pc
    BY SecondStep DEF Pending
  <2>2. s2 = Run(p, s1, c.E) /\ s3 = Run(p, s2, c.D)
    BY DEF Linked, Follows
  <2> QED  BY <1>2, <2>1, <2>2 DEF Run
<1>4. ~Real(bubble.D) /\ s3 = Run(p, s3, bubble.D)
  BY DEF bubble, Real, Run
<1>5. f2.pc = f_pc(c2, f) /\ Real(f2)
  BY Shapes DEF Advanced, Fetch
<1>6. CASE c.M.icode = "ret"
  <2>1. ~Real(x) /\ ~Real(d) /\ Blank(x) /\ Blank(d)
    BY <1>2, <1>6 DEF Linked, Shaped, Rets
  <2>2. s2 = s1 /\ s3 = s1
    BY <1>3, <2>1 DEF Run
  <2>3. s1.pc = w.valM
    <3>1. Real(c.M)
      BY <1>6 DEF Linked, Shaped, Filled, Blank
    <3>2. /\ w = Access(p, m) /\ Cycled(p, m, s1) /\ c.M.icode = At(p, m.pc).icode
      BY <3>1, FirstStep DEF Pending
    <3> QED  BY <1>6, <3>2 DEF Cycled, Follow
  <2>4. f_pc(c2, f) = w.valM
    BY <1>1, <1>2, <1>6, <2>1 DEF f_pc, is_jle, is_andq, Blank
  <2>5. /\ Pc0(c2, f2) = s1.pc /\ Pc1(c2, f2) = s1.pc
        /\ Pc2(c2, f2) = s1.pc /\ Pc3(c2, f2) = s1.pc
    BY <1>1, <1>4, <1>5, <2>1, <2>3, <2>4 DEF Pc0, Pc1, Pc2, Pc3
  <2> QED  BY <1>1, <1>3, <1>4, <2>1, <2>2, <2>5 DEF Follows
<1>7. CASE c.E.icode = "ret"
  <2>1. Real(x)
    BY <1>2, <1>7 DEF Blank
  <2>2. Pc0(c2, f2) = s1.pc
    BY <1>1, <1>2, <1>3, <2>1 DEF Pc0
  <2>3. Gone1(c2, s2) /\ Gone2(c2, s2, s3) /\ Gone3(c2, s2, s3, s3)
    BY <1>1, <1>2, <1>7 DEF Gone1, Gone2, Gone3
  <2> QED  BY <1>1, <1>3, <1>4, <2>2, <2>3 DEF Follows
<1>8. CASE c.M.icode # "ret" /\ c.E.icode # "ret"
  <2>1. d.icode = "ret" /\ Real(d)
    BY <1>2, <1>8 DEF Returning, Blank
  <2>2. Gone2(c2, s2, s3) /\ Gone3(c2, s2, s3, s3)
    BY <1>1, <2>1 DEF Gone2, Gone3
  <2>3. Pc1(c2, f2) = c.D.pc /\ Pc2(c, f) = c.D.pc
    BY <1>1, <1>2, <2>1 DEF Pc1, Pc2
  <2>4. Pc0(c2, f2) = s1.pc
    <3>1. Pc1(c, f) = s1.pc
      BY <1>8 DEF Linked, Follows, Gone1
    <3> QED  BY <1>1, <1>2, <1>3, <2>3, <3>1 DEF Pc0, Pc1
  <2>5. s2.stat = "AOK" => Pc1(c2, f2) = s2.pc /\ Decoded(p, s2, d)
    BY <1>8, <2>1, <2>3, Reaches
  <2> QED  BY <1>1, <1>3, <1>4, <2>2, <2>4, <2>5 DEF Follows, Gone1
<1> QED  BY <1>6, <1>7, <1>8

\* What is fetched behind f is the instruction that follows it.
LEMMA Predicts ==
    ASSUME NEW p, NEW c, NEW f, NEW m, NEW s1, NEW s2, NEW s3,
           Linked(p, c, f, m, s1, s2, s3), s1.stat = "AOK", NEW r, NEW w, NEW x, NEW d,
           Pending(c, m, s1, r, w, x, d), NEW c2, NEW f2,
           Advanced(p, c, f, w, x, d, c2, f2),
           ~LoadUse(c), ~Mispredicted(c, x.cnd), ~Returning(c),
           Real(f), s2.stat = "AOK", s3.stat = "AOK", f.pc = s3.pc,
           f.i.icode # "ret",
           f.i.icode = "jxx" /\ ~ShortcutD(c2) => cond_holds(s3.cc, f.i.ifun)
    PROVE  f_pc(c2, f) = Follow(p, s3)
<1>1. c2.W = w /\ c2.M = x /\ c2.E = d /\ c2.D = f /\ c2.F.pc = f_predPC(f)
  BY DEF Advanced, E_bubble, D_stall, D_bubble, F_stall
<1>2. /\ w.icode = c.M.icode /\ w.ifun = c.M.ifun
      /\ x.icode = c.E.icode /\ x.ifun = c.E.ifun
      /\ d.icode = c.D.i.icode /\ d.ifun = c.D.i.ifun
      /\ (~Real(d) => Blank(d))
  BY Carried
<1>3. c.M.icode # "ret" /\ c.E.icode # "ret"
  BY DEF Returning
<1>4. f.i = At(p, s3.pc) /\ f.valP = s3.pc + 1
  <2>1. f = Fetch(p, f.pc)
    BY DEF Linked, Shaped, Filled
  <2> QED  BY <2>1 DEF Fetch
<1>5. f_pc(c2, f) = IF ShortcutD(c2) /\ d.valA > 0 THEN f.valP ELSE f_predPC(f)
  <2>1. c2.M.icode = "jxx" /\ ~c2.M.cnd => is_jle(c2.M) /\ is_andq(c2.W)
    BY <1>1, <1>2 DEF Mispredicted, is_jle, is_andq
  <2> QED  BY <1>1, <1>2, <1>3, <2>1 DEF f_pc, ShortcutD
<1>6. Follow(p, s3) =
        IF f.i.icode = "call" \/ (f.i.icode = "jxx" /\ cond_holds(s3.cc, f.i.ifun))
        THEN f.i.valC ELSE f.valP
  BY <1>4 DEF Follow
<1>7. CASE ~ShortcutD(c2)
  BY <1>5, <1>6, <1>7 DEF f_predPC
<1>8. CASE ShortcutD(c2)
  <2>1. is_jle(f.i) /\ is_andq(d)
    BY <1>1, <1>8 DEF ShortcutD
  <2>2. Real(d) /\ Real(c.D)
    BY <1>2, <2>1, Carried DEF is_andq, Blank
  <2>3. Decoded(p, s2, d) /\ Pc2(c, f) = s2.pc
    BY <1>3, <2>2, Reaches
  <2>4. d.valA = Decode(p, s2).valA /\ is_andq(At(p, s2.pc))
    <3>1. d.icode = At(p, s2.pc).icode /\ d.ifun = At(p, s2.pc).ifun
      BY <2>3, GoesThrough DEF Decoded, Through
    <3>2. d.icode \in UsesA
      BY <2>1 DEF is_andq, UsesA
    <3> QED  BY <2>1, <2>3, <3>1, <3>2 DEF Decoded, is_andq
  <2>5. s2 \in Machines /\ Wellformed(p) /\ Regular(p)
    BY SecondStep DEF Linked
  <2>6. Cycled(p, s2, s3)
    <3>1. s3 = step_state(p, s2)
      BY <2>2 DEF Linked, Follows, Run
    <3> QED  BY <2>5, <3>1, IsaCycles
  <2>7. cond_holds(s3.cc, "le") <=> ~(d.valA > 0)
    BY <1>4, <2>1, <2>4, <2>5, <2>6, AndThenJle
  <2>8. f.i.icode = "jxx" /\ f.i.ifun = "le"
    BY <2>1 DEF is_jle
  <2> QED  BY <1>5, <1>6, <1>8, <2>7, <2>8 DEF f_predPC
<1> QED  BY <1>7, <1>8

\* Every instruction moves on by one.
LEMMA Flows ==
    ASSUME NEW p, NEW c, NEW f, NEW m, NEW s1, NEW s2, NEW s3,
           Linked(p, c, f, m, s1, s2, s3), s1.stat = "AOK", NEW r, NEW w, NEW x, NEW d,
           Pending(c, m, s1, r, w, x, d), NEW c2, NEW f2,
           Advanced(p, c, f, w, x, d, c2, f2),
           ~LoadUse(c), ~Mispredicted(c, x.cnd), ~Returning(c)
    PROVE  Follows(p, c2, f2, s1, s2, s3, Run(p, s3, f))
<1>1. c2.W = w /\ c2.M = x /\ c2.E = d /\ c2.D = f /\ c2.F.pc = f_predPC(f)
  BY DEF Advanced, E_bubble, D_stall, D_bubble, F_stall
<1>2. /\ w.icode = c.M.icode
      /\ x.icode = c.E.icode /\ x.ifun = c.E.ifun /\ x.pc = c.E.pc
      /\ (Real(x) <=> Real(c.E)) /\ (~Real(x) => Blank(x))
      /\ d.icode = c.D.i.icode /\ d.ifun = c.D.i.ifun /\ d.pc = c.D.pc
      /\ (Real(d) <=> Real(c.D)) /\ (~Real(d) => Blank(d))
  BY Carried
<1>3. /\ s2 = Run(p, s1, x) /\ s3 = Run(p, s2, d)
      /\ Real(x) => Executed(p, s1, x)
  <2>1. Real(c.E) => Executed(p, s1, x)
    BY SecondStep DEF Pending
  <2>2. s2 = Run(p, s1, c.E) /\ s3 = Run(p, s2, c.D)
    BY DEF Linked, Follows
  <2> QED  BY <1>2, <2>1, <2>2 DEF Run
<1>4. c.M.icode # "ret" /\ c.E.icode # "ret" /\ c.D.i.icode # "ret"
  BY DEF Returning
<1>5. f2.pc = f_pc(c2, f) /\ Real(f2)
  BY Shapes DEF Advanced, Fetch
<1>6. ~Real(f) => f2.pc = c.F.pc
  <2> SUFFICES ASSUME ~Real(f) PROVE f_pc(c2, f) = c.F.pc
    BY <1>5
  <2>1. f = bubble.D /\ c = bubble
    BY DEF Linked, Shaped, Filled
  <2>2. c.F.pc = 0 /\ f_predPC(f) = 0 /\ f.i.icode = "nop"
    BY <2>1 DEF bubble, NOP, f_predPC
  <2>3. c.E.icode = "nop"
    BY <2>1 DEF bubble
  <2> QED  BY <1>1, <1>2, <1>4, <2>2, <2>3 DEF f_pc, is_jle
<1>7. /\ Pc2(c2, f2) = Pc3(c, f) /\ Pc1(c2, f2) = Pc2(c, f) /\ Pc0(c2, f2) = Pc1(c, f)
      /\ Pc3(c2, f2) = f2.pc
  BY <1>1, <1>2, <1>5, <1>6 DEF Pc0, Pc1, Pc2, Pc3
<1>8. Pc0(c2, f2) = s1.pc
  BY <1>4, <1>7 DEF Linked, Follows, Gone1
<1>9. s2.stat = "AOK" => Pc1(c2, f2) = s2.pc /\ (Real(d) => Decoded(p, s2, d))
  BY <1>4, <1>7, Reaches
<1>10. ~Gone2(c2, s2, s3) => s2.stat = "AOK" /\ s3.stat = "AOK" /\ Pc2(c2, f2) = s3.pc
  <2> SUFFICES ASSUME ~Gone2(c2, s2, s3)
               PROVE  s2.stat = "AOK" /\ s3.stat = "AOK" /\ Pc3(c, f) = s3.pc
    BY <1>7
  <2>1. s2.stat = "AOK" /\ s3.stat = "AOK"
    BY DEF Gone2, Gone1
  <2>2. ShortcutE(c2) <=> ShortcutD(c)
    BY <1>1, <1>2 DEF ShortcutE, ShortcutD, is_jle, is_andq
  <2>3. ~(c.D.i.icode = "jxx" /\ ~ShortcutD(c) /\ ~cond_holds(s2.cc, c.D.i.ifun))
    BY <1>1, <1>2, <2>2 DEF Gone2
  <2>4. ~Gone2(c, s1, s2)
    BY <1>4, <2>1, Reaches
  <2>5. ~Gone3(c, s1, s2, s3)
    BY <1>4, <2>1, <2>3, <2>4 DEF Gone3
  <2> QED  BY <2>1, <2>5 DEF Linked, Follows
<1>11. ASSUME ~Gone3(c2, s2, s3, Run(p, s3, f)) PROVE f2.pc = Run(p, s3, f).pc
  <2>1. ~Gone2(c2, s2, s3) /\ Run(p, s3, f).stat = "AOK"
    BY <1>11 DEF Gone3
  <2>2. s2.stat = "AOK" /\ s3.stat = "AOK" /\ Pc3(c, f) = s3.pc
    BY <1>7, <1>10, <2>1
  <2>3. CASE ~Real(f)
    BY <1>6, <2>2, <2>3 DEF Pc3, Run
  <2>4. CASE Real(f)
    <3>1. f.pc = s3.pc
      BY <2>2, <2>4 DEF Pc3
    <3>2. /\ f.i.icode # "ret"
          /\ f.i.icode = "jxx" /\ ~ShortcutD(c2) => cond_holds(s3.cc, f.i.ifun)
      BY <1>1, <1>11 DEF Gone3
    <3>3. f_pc(c2, f) = Follow(p, s3)
      BY <2>2, <2>4, <3>1, <3>2, Predicts
    <3>4. s3 \in Machines /\ Wellformed(p) /\ Regular(p)
      <4>1. s2 \in Machines /\ Wellformed(p) /\ Regular(p) /\ s3 = Run(p, s2, c.D)
        BY SecondStep DEF Linked, Follows
      <4> QED  BY <2>2, <4>1, IsaStaysMachine DEF Run
    <3>5. Cycled(p, s3, Run(p, s3, f))
      BY <2>2, <2>4, <3>4, IsaCycles DEF Run
    <3> QED  BY <1>5, <2>1, <3>3, <3>5 DEF Cycled
  <2> QED  BY <2>3, <2>4
<1> HIDE DEF Run
<1>12. ~Gone1(c2, s2) => s2.stat = "AOK"
  BY DEF Gone1
<1> QED  BY <1>1, <1>3, <1>7, <1>8, <1>9, <1>10, <1>11, <1>12 DEF Follows

\* A cycle keeps pipeline and instruction set together.
LEMMA Links ==
    ASSUME NEW p, NEW c, NEW f, NEW m, NEW s1, NEW s2, NEW s3,
           Linked(p, c, f, m, s1, s2, s3), s1.stat = "AOK", NEW r, NEW w, NEW x, NEW d,
           Pending(c, m, s1, r, w, x, d), NEW c2, NEW f2,
           Advanced(p, c, f, w, x, d, c2, f2)
    PROVE  \E t2, t3 : Linked(p, c2, f2, s1, s2, t2, t3)
<1>1. Wellformed(p) /\ Regular(p) /\ s1 \in Machines
  BY FirstStep DEF Linked, Pending
<1>2. Shaped(p, c2, f2)
  BY Shapes
<1>3. ASSUME NEW t2, NEW t3, Follows(p, c2, f2, s1, s2, t2, t3)
      PROVE  \E u2, u3 : Linked(p, c2, f2, s1, s2, u2, u3)
  <2>1. Linked(p, c2, f2, s1, s2, t2, t3)
    BY <1>1, <1>2, <1>3 DEF Linked
  <2> QED  BY <2>1
<1>4. CASE Mispredicted(c, x.cnd)
  BY <1>3, <1>4, Turned
<1>5. CASE LoadUse(c)
  BY <1>3, <1>5, Stalled
<1>6. CASE ~LoadUse(c) /\ ~Mispredicted(c, x.cnd) /\ Returning(c)
  BY <1>3, <1>6, Returns
<1>7. CASE ~LoadUse(c) /\ ~Mispredicted(c, x.cnd) /\ ~Returning(c)
  BY <1>3, <1>7, Flows
<1> QED  BY <1>4, <1>5, <1>6, <1>7

\* The oldest instruction on its way.
LEMMA Oldest ==
    ASSUME NEW c, NEW f
    PROVE  LET Coming == <<c.M, c.E, c.D, f>>
               Some == {k \in 1 .. 4 : Coming[k].status # "BUB"}
           IN  (IF Some = {} THEN c.F.pc ELSE Coming[Min(Some)].pc) = Pc0(c, f)
<1> DEFINE Coming == <<c.M, c.E, c.D, f>>
           Some == {k \in 1 .. 4 : Coming[k].status # "BUB"}
<1>1. /\ 1 \in Some <=> Real(c.M)
      /\ 2 \in Some <=> Real(c.E)
      /\ 3 \in Some <=> Real(c.D)
      /\ 4 \in Some <=> Real(f)
  BY DEF Real
<1>2. Coming[1] = c.M /\ Coming[2] = c.E /\ Coming[3] = c.D /\ Coming[4] = f
  OBVIOUS
<1>3. Some \subseteq {1, 2, 3, 4}
  OBVIOUS
<1> HIDE DEF Coming, Some
<1>4. ASSUME NEW k \in Some, \A j \in Some : k <= j PROVE Min(Some) = k
  <2>1. Min(Some) \in Some /\ \A j \in Some : Min(Some) <= j
    BY <1>4 DEF Min
  <2> DEFINE n == Min(Some)
  <2> HIDE DEF n
  <2>2. n \in Some /\ n <= k /\ k <= n
    BY <1>4, <2>1 DEF n
  <2>3. n \in Int /\ k \in Int
    BY <1>3, <2>2
  <2> QED  BY <2>2, <2>3 DEF n
<1>5. CASE Real(c.M)
  <2>1. Min(Some) = 1
    BY <1>1, <1>3, <1>4, <1>5
  <2> QED  BY <1>1, <1>2, <1>5, <2>1 DEF Pc0, Coming, Some
<1>6. CASE ~Real(c.M) /\ Real(c.E)
  <2>1. Min(Some) = 2
    BY <1>1, <1>3, <1>4, <1>6
  <2> QED  BY <1>1, <1>2, <1>6, <2>1 DEF Pc0, Pc1, Coming, Some
<1>7. CASE ~Real(c.M) /\ ~Real(c.E) /\ Real(c.D)
  <2>1. Min(Some) = 3
    BY <1>1, <1>3, <1>4, <1>7
  <2> QED  BY <1>1, <1>2, <1>7, <2>1 DEF Pc0, Pc1, Pc2, Coming, Some
<1>8. CASE ~Real(c.M) /\ ~Real(c.E) /\ ~Real(c.D) /\ Real(f)
  <2>1. Min(Some) = 4
    BY <1>1, <1>3, <1>4, <1>8
  <2> QED  BY <1>1, <1>2, <1>8, <2>1 DEF Pc0, Pc1, Pc2, Pc3, Coming, Some
<1>9. CASE ~Real(c.M) /\ ~Real(c.E) /\ ~Real(c.D) /\ ~Real(f)
  <2>1. Some = {}
    BY <1>1, <1>3, <1>9
  <2> QED  BY <1>9, <2>1 DEF Pc0, Pc1, Pc2, Pc3, Coming, Some
<1> QED  BY <1>5, <1>6, <1>7, <1>8, <1>9

-----------------------------------------------------------------------------
(* The refinement.  What waits to be latched is what the stages compute of *)
(* the current values; while psim runs, its registers and the machine its  *)
(* observer sees belong together.                                          *)
Wired ==
    /\ next.W = do_mem_stage(curr.M, mem)
    /\ next.M = do_ex_stage(curr.E, cc)
    /\ next.E = do_id_stage(curr, next.M, next.W, reg)
    /\ next.F.pc = f_predPC(next.D)
    /\ op = do_stall_check(curr, next.M.cnd, next.W.status)
    /\ cc_in = IF set_cc(curr.E, next.W.status, curr.W.status)
               THEN compute_cc(alufun(curr.E), aluA(curr.E), aluB(curr.E)) ELSE cc

Together ==
    status = "AOK" =>
        /\ reg \in [REGS -> Word]
        /\ \E s1, s2, s3 : /\ Linked(prog, curr, next.D, Machine, s1, s2, s3)
                           /\ cc = s1.cc

RInv == Wired /\ Together

\* At the start what waits to be latched is what the stages compute,
LEMMA InitWired == Init => Wired
<1> SUFFICES ASSUME Init PROVE Wired
  OBVIOUS
<1>1. /\ curr = bubble /\ next = bubble /\ op = [k \in Stages |-> "load"]
      /\ cc_in = cc /\ reg = [k \in REGS |-> 0]
  BY DEF Init
<1>2. compute_alu("add", 0, 0) = 0
  BY WordIsInt, Passes
<1>3. bubble.W = do_mem_stage(bubble.M, mem)
  BY DEF bubble, do_mem_stage, mem_read, mem_write
<1>4. bubble.M = do_ex_stage(bubble.E, cc)
  BY <1>2 DEF bubble, do_ex_stage, e_Cnd, e_dstE, alufun, aluA, aluB
<1>5. bubble.E = do_id_stage(bubble, bubble.M, bubble.W, reg)
  BY DEF bubble, do_id_stage, d_valA, d_valB, d_srcA, d_srcB, d_dstE, d_dstM, NOP,
         is_jle, Forwarded
<1>6. bubble.F.pc = f_predPC(bubble.D)
  BY DEF bubble, f_predPC, NOP
<1>7. [k \in Stages |-> "load"] = do_stall_check(bubble, bubble.M.cnd, bubble.W.status)
  BY Y86Assumption DEF bubble, NOP, do_stall_check, pipe_cntl, F_stall, D_stall, D_bubble, E_bubble,
     M_bubble, W_stall, LoadUse, Returning, Mispredicted, Exceptions, Stages
<1>8. ~set_cc(bubble.E, bubble.W.status, bubble.W.status)
  BY DEF set_cc, bubble
<1> QED  BY <1>1, <1>3, <1>4, <1>5, <1>6, <1>7, <1>8 DEF Wired

\* and the machine that is observed is the instruction set's.
LEMMA InitTogether ==
    ASSUME Init, \A p \in Programs : Regular(p.code)
    PROVE  Together /\ I!Init
<1> DEFINE m == Machine
<1>1. /\ curr = bubble /\ next = bubble /\ status = "AOK" /\ retired_cc = DEFAULT_CC
      /\ cc = DEFAULT_CC /\ reg = [k \in REGS |-> 0]
      /\ mem \in [Address -> Word] /\ Wellformed(prog) /\ Regular(prog)
  <2>1. PICK p \in Programs : prog = p.code /\ mem = p.image
    BY DEF Init
  <2> QED  BY <2>1, PipeAssumption DEF Init, Wellformed, Ops
<1>2. reg \in [REGS -> Word]
  BY <1>1, WordIsInt
<1>3. /\ ~Real(bubble.D) /\ ~Real(bubble.E) /\ ~Real(bubble.M) /\ ~Real(bubble.W)
      /\ Blank(bubble.E) /\ Blank(bubble.M) /\ Blank(bubble.W)
      /\ bubble.F.pc = 0 /\ bubble.M.icode = "nop" /\ bubble.E.icode = "nop"
  BY DEF bubble, Real, Blank
<1>4. m.pc = 0
  <2>1. Behind = Pc0(curr, next.D)
    BY Oldest DEF Behind
  <2>2. m.pc = Behind
    BY <1>1 DEF Machine
  <2> QED  BY <1>1, <1>3, <2>1, <2>2 DEF Pc0, Pc1, Pc2, Pc3
<1>5. WriteBack = reg /\ Visible = reg
  BY <1>1 DEF WriteBack, Visible, bubble, set_reg_val
<1>6. m.reg = reg /\ m.mem = mem /\ m.cc = DEFAULT_CC /\ m.stat = "AOK"
  BY <1>1, <1>5 DEF Machine
<1>7. m \in Machines
  <2>1. m = [pc |-> m.pc, reg |-> m.reg, mem |-> m.mem, cc |-> m.cc, stat |-> m.stat]
    BY DEF Machine
  <2>2. DEFAULT_CC \in Flags
    BY DEF DEFAULT_CC, Flags
  <2> HIDE DEF m
  <2> QED  BY <1>1, <1>2, <1>4, <1>6, <2>1, <2>2, WordIsInt DEF Machines, Ends
<1> HIDE DEF m
<1>8. Shaped(prog, bubble, bubble.D)
  BY <1>3 DEF Shaped, Filled, Rets, Hold, PastJump
<1>9. Follows(prog, bubble, bubble.D, m, m, m, m)
  BY <1>3, <1>4 DEF Follows, Run, Pc0, Pc1, Pc2, Pc3
<1>10. Linked(prog, curr, next.D, Machine, m, m, m)
  BY <1>1, <1>6, <1>7, <1>8, <1>9 DEF Linked, m
<1>11. Together
  BY <1>1, <1>2, <1>6, <1>10 DEF Together
<1>12. I!Init
  BY <1>1, <1>4, <1>6 DEF I!Init, I!Address, I!Word, I!HALF, I!DEFAULT_CC,
     Address, Word, HALF, DEFAULT_CC, m
<1> QED  BY <1>11, <1>12

\* After a cycle it is so again.
LEMMA StepWired == sim_step_pipe => Wired'
<1> SUFFICES ASSUME sim_step_pipe PROVE Wired'
  OBVIOUS
<1> DEFINE c == update_pipes
           f == do_if_stage(c, next.D)
           m == do_mem_stage(c.M, Stored)
           e == do_ex_stage(c.E, cc_in)
           d == do_id_stage(c, e, m, WriteBack)
<1>1. /\ reg' = WriteBack /\ mem' = Stored /\ cc' = cc_in /\ curr' = c
      /\ next'.F.pc = f_predPC(f)
      /\ next'.D = f /\ next'.E = d /\ next'.M = e /\ next'.W = m
      /\ op' = do_stall_check(c, e.cnd, m.status)
      /\ cc_in' = IF set_cc(c.E, m.status, c.W.status)
                  THEN compute_cc(alufun(c.E), aluA(c.E), aluB(c.E)) ELSE cc_in
  BY DEF sim_step_pipe
<1> HIDE DEF c, f
<1> QED  BY <1>1 DEF Wired

\* How the pipeline registers move when no fault is in W or about to enter it.
LEMMA Advances ==
    ASSUME Wired, curr.W.status \notin Exceptions
    PROVE  /\ update_pipes.W = next.W
           /\ next.W.status \notin Exceptions =>
                 Advanced(prog, curr, next.D, next.W, next.M, next.E, update_pipes,
                          Fetch(prog, f_pc(update_pipes, next.D)))
<1> DEFINE x == next.M
           w == next.W
<1>1. op = do_stall_check(curr, x.cnd, w.status) /\ next.F.pc = f_predPC(next.D)
  BY DEF Wired
<1> HIDE DEF x, w
<1>2. /\ op.F = IF F_stall(curr) THEN "stall" ELSE "load"
      /\ op.E = IF E_bubble(curr, x.cnd) THEN "bubble" ELSE "load"
      /\ op.M = IF M_bubble(w.status, curr.W.status) THEN "bubble" ELSE "load"
      /\ op.W = IF W_stall(curr.W.status) THEN "stall" ELSE "load"
      /\ op.D = IF D_stall(curr) THEN "stall"
                ELSE IF D_bubble(curr, x.cnd) THEN "bubble" ELSE "load"
  <2>1. ~(D_stall(curr) /\ D_bubble(curr, x.cnd))
    BY DEF D_stall, D_bubble, LoadUse, Mispredicted
  <2> QED  BY <1>1, <2>1 DEF do_stall_check, pipe_cntl
<1>3. ~W_stall(curr.W.status) /\ (w.status \notin Exceptions => ~M_bubble(w.status, curr.W.status))
  BY DEF W_stall, M_bubble
<1> DEFINE c2 == update_pipes
<1>4. /\ c2.W = next.W
      /\ op.M = "load" => c2.M = next.M
      /\ c2.E = IF op.E = "load" THEN next.E ELSE bubble.E
      /\ c2.D = IF op.D = "load" THEN next.D ELSE IF op.D = "stall" THEN curr.D ELSE bubble.D
      /\ c2.F = IF op.F = "load" THEN next.F ELSE curr.F
  BY <1>2, <1>3 DEF update_pipes, Stages
<1> HIDE DEF c2
<1>5. w.status \notin Exceptions =>
        Advanced(prog, curr, next.D, w, x, next.E, c2, Fetch(prog, f_pc(c2, next.D)))
  BY <1>1, <1>2, <1>3, <1>4 DEF Advanced, x, w
<1> QED  BY <1>4, <1>5 DEF c2, x, w

\* A cycle leaves the machine alone, or takes it one instruction on.
LEMMA StepTogether ==
    ASSUME IInv, RInv, sim_step_pipe
    PROVE  /\ Together' /\ Machine.stat = "AOK"
           /\ Machine' = Machine \/ Machine' = Left(Machine, step_state(prog, Machine))
<1> DEFINE m == Machine
           w == next.W
           x == next.M
           d == next.E
           c2 == update_pipes
<1>1. /\ status = "AOK" /\ prog' = prog
      /\ reg' = WriteBack /\ mem' = Stored /\ cc' = cc_in /\ retired_cc' = cc
      /\ curr' = c2 /\ next'.D = do_if_stage(c2, next.D)
      /\ status' = IF c2.W.status = "BUB" THEN "AOK" ELSE c2.W.status
  BY DEF sim_step_pipe
<1>2. PICK s1, s2, s3 : Linked(prog, curr, next.D, m, s1, s2, s3) /\ cc = s1.cc
  BY <1>1 DEF RInv, Together
<1>3. curr.W.status \in {"AOK", "BUB"}
  BY <1>1 DEF IInv, Statused
<1>4. /\ m.reg = WriteBack /\ WriteBack = Write(reg, curr.W) /\ m.mem = mem
      /\ m.cc = retired_cc /\ m.stat = "AOK" /\ m.reg \in [REGS -> Word]
  <2>1. m.reg = WriteBack /\ m.mem = mem /\ m.cc = retired_cc /\ m.stat = "AOK"
    BY <1>1, <1>3 DEF Machine, Visible
  <2>2. m \in Machines
    BY <1>2 DEF Linked
  <2> HIDE DEF m
  <2> QED  BY <2>1, <2>2 DEF Write, WriteBack, Machines
<1> HIDE DEF m
<1>5. Pending(curr, m, s1, reg, w, x, d)
  BY <1>1, <1>2, <1>4 DEF Pending, RInv, Wired, Together
<1>6. /\ c2.W = w
      /\ w.status \notin Exceptions =>
            Advanced(prog, curr, next.D, w, x, d, c2, next'.D)
  <2>1. do_if_stage(c2, next.D) = Fetch(prog, f_pc(c2, next.D))
    BY DEF do_if_stage, f_stat, Fetch, FetchStat, At, NOP, instr_valid
  <2>2. curr.W.status \notin Exceptions
    BY <1>3 DEF Exceptions
  <2> QED  BY <1>1, <2>1, <2>2, Advances DEF RInv
<1>7. /\ s1 \in Machines /\ s1.mem = Save(curr.M, m.mem) /\ s1 = Run(prog, m, curr.M)
      /\ w.icode = curr.M.icode /\ w.pc = curr.M.pc
      /\ s1.stat = IF Real(w) THEN w.status ELSE "AOK"
      /\ s1.stat = "AOK" => s1.reg = Write(m.reg, w)
      /\ (Real(w) <=> Real(curr.M))
      /\ Real(w) => w = Access(prog, m) /\ Cycled(prog, m, s1) /\ m.pc = w.pc
  <2>1. w = do_mem_stage(curr.M, m.mem)
    BY <1>5 DEF Pending
  <2>2. s1 = Run(prog, m, curr.M)
    BY <1>2 DEF Linked, Follows
  <2> HIDE DEF w
  <2> QED  BY <1>2, <2>1, <2>2, FirstStep
<1>8. w.status \in Statuses
  BY DEF IInv, Statused, Moving
<1> HIDE DEF w, x, d, c2
<1>9. status' = s1.stat /\ mem' = s1.mem /\ retired_cc' = s1.cc /\ reg' = m.reg
  <2>1. Stored = Save(curr.M, mem)
    BY DEF Stored, Save
  <2> QED  BY <1>1, <1>2, <1>4, <1>6, <1>7, <2>1 DEF Real
<1>10. Visible' = IF s1.stat = "AOK" THEN s1.reg ELSE m.reg
  <2>1. Visible' = IF w.status \in {"AOK", "BUB"} THEN Write(m.reg, w) ELSE m.reg
    BY <1>1, <1>6, <1>9 DEF Visible, WriteBack, Write
  <2>2. w.status \in {"AOK", "BUB"} <=> s1.stat = "AOK"
    BY <1>7 DEF Real
  <2> QED  BY <1>7, <2>1, <2>2
<1>11. CASE s1.stat # "AOK"
  <2>1. Together'
    BY <1>9, <1>11 DEF Together
  <2>2. Real(w) /\ s1.pc = w.pc
    BY <1>7, <1>11 DEF Cycled
  <2>3. Machine' = [pc |-> s1.pc, reg |-> m.reg, mem |-> s1.mem, cc |-> s1.cc,
                    stat |-> s1.stat]
    BY <1>1, <1>6, <1>9, <1>10, <1>11, <2>2 DEF Machine
  <2>4. s1.stat = "ADR" \/ s1.reg = m.reg
    BY <1>7, <1>11, <2>2 DEF Cycled
  <2>5. Machine' = Left(m, s1)
    BY <1>7, <2>3, <2>4 DEF Machines, Left
  <2> QED  BY <1>4, <1>7, <2>1, <2>2, <2>5 DEF Run, m
<1>12. CASE s1.stat = "AOK"
  <2>1. w.status \notin Exceptions
    BY <1>7, <1>8, <1>12 DEF Real, Exceptions
  <2>2. PICK t2, t3 : Linked(prog, c2, next'.D, s1, s2, t2, t3)
    BY <1>2, <1>5, <1>6, <1>12, <2>1, Links
  <2>3. cc_in = s2.cc
    <3>1. s2.cc = Flagged(curr.E, s1.cc)
      BY <1>2, <1>5, <1>12, SecondStep DEF Pending
    <3>2. curr.W.status \notin Exceptions
      BY <1>3 DEF Exceptions
    <3> QED  BY <1>2, <2>1, <3>1, <3>2 DEF RInv, Wired, Flagged, set_cc, w
  <2>4. Behind' = s1.pc
    <3>1. Behind' = Pc0(c2, next'.D)
      BY <1>1, Oldest DEF Behind
    <3> QED  BY <2>2, <3>1 DEF Linked, Follows
  <2>5. Machine' = [pc |-> s1.pc, reg |-> s1.reg, mem |-> s1.mem, cc |-> s1.cc,
                    stat |-> s1.stat]
    BY <1>9, <1>10, <1>12, <2>4 DEF Machine
  <2>6. Machine' = s1
    BY <1>7, <2>5 DEF Machines
  <2>7. Linked(prog', curr', next'.D, Machine', s2, t2, t3) /\ cc' = s2.cc
    BY <1>1, <2>2, <2>3, <2>6 DEF c2
  <2>8. reg' \in [REGS -> Word]
    BY <1>4, <1>9
  <2>9. Together'
    BY <2>7, <2>8 DEF Together
  <2>10. Machine' = Left(m, s1)
    BY <1>12, <2>6 DEF Left
  <2> QED  BY <1>4, <1>7, <2>6, <2>9, <2>10 DEF Run, m
<1> QED  BY <1>11, <1>12

\* What a step of the pipeline does to the machine, if anything.
Executes == /\ Machine.stat = "AOK"
            /\ Machine' = Left(Machine, step_state(prog, Machine))
            /\ UNCHANGED prog

\* So every step keeps the refinement's invariant and maps to a step or a stutter.
LEMMA StepRInv ==
    ASSUME IInv, RInv, [sim_step_pipe]_vars
    PROVE  RInv' /\ [Executes]_<<prog, Machine>>
<1>1. CASE UNCHANGED vars
  <2>1. RInv'
    BY <1>1 DEF RInv, Wired, Together, Machine, Behind, Visible, WriteBack, vars
  <2>2. prog' = prog /\ Machine' = Machine
    BY <1>1 DEF Machine, Behind, Visible, WriteBack, vars
  <2> QED  BY <2>1, <2>2
<1>2. CASE sim_step_pipe
  <2>1. /\ Together' /\ Machine.stat = "AOK"
        /\ Machine' = Machine \/ Machine' = Left(Machine, step_state(prog, Machine))
    BY <1>2, StepTogether
  <2>2. Wired' /\ prog' = prog
    BY <1>2, StepWired DEF sim_step_pipe
  <2> QED  BY <2>1, <2>2 DEF RInv, Executes
<1> QED  BY <1>1, <1>2

\* The pipeline executes the instruction set (what psim -t compares at the end
\* of a run, psim.c 231-262): whatever is forwarded, stalled, predicted
\* or thrown away (pipe-full.hcl), for every program that is regular (with no
\* instruction isa.c refuses, among others), every memory, any number of
\* registers and any size of words.  After a failed access the registers are
\* those before the instruction, where isa.c has moved %rsp for a pushq, call
\* or popq.
THEOREM PipelineIsIsa ==
    ASSUME \A p \in Programs : Regular(p.code)
    PROVE  Spec => Implements
<1>1. Init => RInv /\ I!Init
  BY InitWired, InitTogether DEF RInv
<1>2. IInv /\ RInv /\ [sim_step_pipe]_vars => RInv' /\ [Executes]_<<prog, Machine>>
  BY StepRInv
<1> QED  BY <1>1, <1>2, Invariant, PTL DEF Spec, Implements, Executes
=============================================================================
