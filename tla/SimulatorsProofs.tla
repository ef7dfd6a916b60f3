--------------------------- MODULE SimulatorsProofs ---------------------------
(* The sequential processor is the instruction set up to an instruction    *)
(* isa.c refuses, and so is the simulator of src/lab4 but for what Excuse  *)
(* names, for any number of registers and any sizes of words and memory.   *)
EXTENDS Simulators, TLAPS

Statuses == {"AOK", "HLT", "ADR", "INS"}
Flags == [z : BOOLEAN, s : BOOLEAN, o : BOOLEAN]
Machines == [pc : Word, reg : [REGS -> Word], mem : [Address -> Word],
             cc : Flags, stat : Statuses]
Ops == {"add", "sub", "and", "xor"}

\* A program whose instructions are well formed and lie below the last word.
Wellformed(p) ==
    \A a \in DOMAIN p : /\ a + 1 \in Word /\ p[a] \in Instruction
                        /\ p[a].icode = "opq" => p[a].ifun \in Ops
-----------------------------------------------------------------------------
(* Words. *)
LEMMA Rotate ==
    ASSUME NEW h \in Nat \ {0}, NEW n \in Int
    PROVE  /\ ((n + h) % (2 * h)) - h \in -h .. h - 1
           /\ n \in -h .. h - 1 => ((n + h) % (2 * h)) - h = n
OBVIOUS

\* Half of the words are at least one.
LEMMA HalfIsPositive == HALF \in Nat \ {0}
BY PowersAssumption DEF HALF

\* A wrapped number is a word,
LEMMA WrapIsWord == ASSUME NEW n \in Int PROVE Wrap(n) \in Word
BY HalfIsPositive, Rotate DEF Wrap, Word

\* and a word wraps to itself.
LEMMA WrapOfWord == ASSUME NEW n \in Word PROVE Wrap(n) = n
<1>1. n \in Int
  BY HalfIsPositive DEF Word
<1> QED  BY <1>1, HalfIsPositive, Rotate DEF Wrap, Word

\* Words are integers, and 0 is one.
LEMMA WordIsInt == Word \subseteq Int /\ 0 \in Word
BY HalfIsPositive DEF Word

\* The ALU computes a word,
LEMMA AluIsWord ==
    ASSUME NEW op \in Ops, NEW a \in Int, NEW b \in Int
    PROVE  compute_alu(op, a, b) \in Word
<1>1. \A B \in SUBSET (0 .. WIDTH - 1) : OfBits(B) \in Word
  BY PowersAssumption, WrapIsWord DEF OfBits
<1>2. BitAnd(a, b) \in Word
  <2> DEFINE B == {i \in 0 .. WIDTH - 1 : Bit(a, i) = 1 /\ Bit(b, i) = 1}
  <2>1. B \in SUBSET (0 .. WIDTH - 1)
    OBVIOUS
  <2> QED  BY <1>1, <2>1 DEF BitAnd
<1>3. BitXor(a, b) \in Word
  <2> DEFINE B == {i \in 0 .. WIDTH - 1 : Bit(a, i) # Bit(b, i)}
  <2>1. B \in SUBSET (0 .. WIDTH - 1)
    OBVIOUS
  <2> QED  BY <1>1, <2>1 DEF BitXor
<1>4. CASE op = "add"
  BY <1>4, WrapIsWord DEF compute_alu
<1>5. CASE op = "sub"
  BY <1>5, WrapIsWord DEF compute_alu
<1>6. CASE op = "and"
  BY <1>2, <1>6 DEF compute_alu
<1>7. CASE op = "xor"
  BY <1>3, <1>7 DEF compute_alu
<1> QED  BY <1>4, <1>5, <1>6, <1>7 DEF Ops

\* and the flags are flags.
LEMMA FlagsOfAlu == ASSUME NEW op, NEW a, NEW b PROVE compute_cc(op, a, b) \in Flags
BY DEF compute_cc, Flags

\* A value passes the ALU unchanged.
LEMMA Passes == ASSUME NEW a \in Word PROVE compute_alu("add", a, 0) = a
<1>1. a + 0 = a
  BY WordIsInt
<1>2. compute_alu("add", a, 0) = Wrap(a + 0)
  BY DEF compute_alu
<1> QED  BY <1>1, <1>2, WrapOfWord
-----------------------------------------------------------------------------
(* One cycle of ssim from machine m, with its pending writes done. *)
Fetched(p, m) == IF m.pc \notin DOMAIN p THEN NOP ELSE p[m.pc]
ValA(i, m) == get_reg_val(m.reg, srcA(i))
ValB(i, m) == get_reg_val(m.reg, srcB(i))
ValE(i, m) == compute_alu(alufun(i), aluA(i, ValA(i, m)), aluB(i, ValB(i, m)))
Cnd(i, m) == i.icode \in {"jxx", "rrmovq"} /\ cond_holds(m.cc, i.ifun)
Addr(i, m) == mem_addr(i, ValA(i, m), ValE(i, m))
DmemError(i, m) == (mem_read(i) \/ mem_write(i)) /\ Addr(i, m) \notin Address
ValM(i, m) == IF mem_read(i) /\ ~DmemError(i, m) THEN m.mem[Addr(i, m)] ELSE 0
StatOf(p, m) ==
    Stat(Fetched(p, m), m.pc \notin DOMAIN p \/ DmemError(Fetched(p, m), m))

NextPc(i, m) == new_pc(i, Cnd(i, m), ValM(i, m), m.pc + 1)
NextReg(i, m) == set_reg_val(set_reg_val(m.reg, dstE(i, Cnd(i, m)), ValE(i, m)),
                             dstM(i), ValM(i, m))
NextMem(i, m) == IF mem_write(i)
                 THEN set_word_val(m.mem, Addr(i, m), mem_data(i, ValA(i, m), m.pc + 1))
                 ELSE m.mem
NextCc(i, m) == IF set_cc(i)
                THEN compute_cc(alufun(i), aluA(i, ValA(i, m)), aluB(i, ValB(i, m)))
                ELSE m.cc

\* Machine t is what isa.c makes of machine m in the words of ssim: all writes
\* done, or none but that of the stack pointer when the instruction fails.
Cycled(p, m, t) ==
    LET i == Fetched(p, m)
    IN  /\ t.stat = StatOf(p, m)
        /\ t.stat = "AOK" => /\ t.pc = NextPc(i, m) /\ t.reg = NextReg(i, m)
                             /\ t.mem = NextMem(i, m) /\ t.cc = NextCc(i, m)
        /\ t.stat # "AOK" =>
              /\ t.pc = m.pc /\ t.mem = m.mem /\ t.cc = m.cc
              /\ t.reg = IF /\ t.stat = "ADR" /\ m.pc \in DOMAIN p
                            /\ i.icode \in {"pushq", "call", "popq"}
                         THEN [m.reg EXCEPT ![RSP] = ValE(i, m)] ELSE m.reg

\* What a cycle of ssim makes of it: no write is done when the instruction fails.
Shows(p, m, t) ==
    LET i == Fetched(p, m)
    IN  /\ t.stat = StatOf(p, m)
        /\ t.stat = "AOK" => /\ t.pc = NextPc(i, m) /\ t.reg = NextReg(i, m)
                             /\ t.mem = NextMem(i, m) /\ t.cc = NextCc(i, m)
        /\ t.stat # "AOK" =>
              t.pc = m.pc /\ t.mem = m.mem /\ t.cc = m.cc /\ t.reg = m.reg

Fields == {"pc", "reg", "mem", "cc", "stat"}
Latched == Fields \cup {"pc_in", "cc_in", "destE", "destM", "valE", "valM",
                        "mem_write", "mem_addr", "mem_data"}

\* What the clock's edge makes of the latched values.
LEMMA Updated ==
    ASSUME NEW q, DOMAIN q = Latched
    PROVE  /\ DOMAIN update_state(q) = Latched
           /\ update_state(q).pc = q.pc_in
           /\ update_state(q).cc = q.cc_in
           /\ update_state(q).stat = q.stat
           /\ update_state(q).reg =
                 set_reg_val(set_reg_val(q.reg, q.destE, q.valE), q.destM, q.valM)
           /\ update_state(q).mem = IF q.mem_write
                                    THEN set_word_val(q.mem, q.mem_addr, q.mem_data)
                                    ELSE q.mem
BY DEF update_state, Latched, Fields

\* What sim_step leaves in the fields of its state.
LEMMA Stepped ==
    ASSUME NEW p, NEW q, DOMAIN q = Latched
    PROVE  LET u == update_state(q)
               i == Fetched(p, u)
               r == sim_step(p, q)
           IN  /\ DOMAIN r = Latched
               /\ r.pc = u.pc /\ r.reg = u.reg /\ r.mem = u.mem /\ r.cc = u.cc
               /\ r.stat = StatOf(p, u)
               /\ r.pc_in = NextPc(i, u) /\ r.cc_in = NextCc(i, u)
               /\ r.destE = dstE(i, Cnd(i, u)) /\ r.valE = ValE(i, u)
               /\ r.destM = dstM(i) /\ r.valM = ValM(i, u)
               /\ r.mem_write = mem_write(i) /\ r.mem_addr = Addr(i, u)
               /\ r.mem_data = mem_data(i, ValA(i, u), u.pc + 1)
<1> DEFINE u == update_state(q)
<1>1. DOMAIN u = Latched
  BY Updated
<1> HIDE DEF u
<1> QED  BY <1>1 DEF sim_step, Fetched, StatOf, NextPc, NextCc, ValA, ValB, ValE, Cnd,
                     Addr, ValM, DmemError, Latched, Fields, u

\* ssim does a cycle in each step.
LEMMA SeqCycles ==
    ASSUME NEW q, DOMAIN q = Latched, NEW m, \A f \in Fields : update_state(q)[f] = m[f]
    PROVE  /\ Shows(prog, m, Shown(sim_step(prog, q)))
           /\ sim_step(prog, q).valE = ValE(Fetched(prog, m), m)
<1> DEFINE u == update_state(q)
           r == sim_step(prog, q)
           i == Fetched(prog, m)
<1>1. u.pc = m.pc /\ u.reg = m.reg /\ u.mem = m.mem /\ u.cc = m.cc
  BY DEF Fields
<1>2. /\ DOMAIN r = Latched
      /\ r.pc = m.pc /\ r.reg = m.reg /\ r.mem = m.mem /\ r.cc = m.cc
      /\ r.stat = StatOf(prog, m)
      /\ r.pc_in = NextPc(i, m) /\ r.cc_in = NextCc(i, m)
      /\ r.destE = dstE(i, Cnd(i, m)) /\ r.valE = ValE(i, m)
      /\ r.destM = dstM(i) /\ r.valM = ValM(i, m)
      /\ r.mem_write = mem_write(i) /\ r.mem_addr = Addr(i, m)
      /\ r.mem_data = mem_data(i, ValA(i, m), m.pc + 1)
  <2>1. Fetched(prog, u) = i
    BY <1>1 DEF Fetched
  <2> HIDE DEF u, r, i
  <2>2. /\ StatOf(prog, u) = StatOf(prog, m)
        /\ ValA(i, u) = ValA(i, m) /\ ValE(i, u) = ValE(i, m)
        /\ Cnd(i, u) = Cnd(i, m) /\ Addr(i, u) = Addr(i, m)
        /\ ValM(i, u) = ValM(i, m)
    BY <1>1, <2>1 DEF StatOf, Fetched, ValA, ValB, ValE, Cnd, Addr, ValM, DmemError
  <2>3. NextPc(i, u) = NextPc(i, m) /\ NextCc(i, u) = NextCc(i, m)
    BY <1>1, <2>2 DEF NextPc, NextCc, ValA, ValB
  <2> QED  BY <1>1, <2>1, <2>2, <2>3, Stepped DEF u, r
<1> HIDE DEF u, r, i
<1>3. CASE r.stat = "AOK"
  <2>1. Shown(r) = update_state(r)
    BY <1>3 DEF Shown
  <2> QED  BY <1>2, <1>3, <2>1, Updated DEF Shows, NextReg, NextMem, r, i
<1>4. CASE r.stat # "AOK"
  <2>1. Shown(r) = r
    BY <1>4 DEF Shown
  <2> QED  BY <1>2, <1>4, <2>1 DEF Shows, r, i
<1> QED  BY <1>3, <1>4
-----------------------------------------------------------------------------
(* The instruction set does the same cycle, instruction by instruction. *)
\* What is assumed of the instruction i at the program counter of m.
Ready(p, m, i) == /\ m \in Machines /\ m.stat = "AOK"
                  /\ m.pc \in DOMAIN p /\ i = p[m.pc] /\ i \in Instruction
                  /\ m.pc + 1 \in Word /\ ~Refused(i)

\* With a register file of words, reading gives a word.
LEMMA Reads ==
    ASSUME NEW m \in Machines, NEW id \in REGS \cup {NONE}
    PROVE  get_reg_val(m.reg, id) \in Word
BY WordIsInt DEF Machines, get_reg_val

\* Reading the stack pointer reads its register.
LEMMA StackPointer ==
    ASSUME NEW m \in Machines
    PROVE  get_reg_val(m.reg, RSP) = m.reg[RSP] /\ RSP \in REGS /\ RSP # NONE
BY Y86Assumption DEF get_reg_val

\* A move through the sequential processor is the instruction set's step,
LEMMA Moving ==
    ASSUME NEW p, NEW m, NEW i, Ready(p, m, i), i.icode \in {"rrmovq", "irmovq"}
    PROVE  Cycled(p, m, step_state(p, m))
<1>1. i = Fetched(p, m) /\ m.pc \in DOMAIN p /\ i = p[m.pc] /\ ~Refused(p[m.pc])
  BY DEF Ready, Fetched
<1>2. StatOf(p, m) = "AOK"
  BY <1>1 DEF StatOf, Stat, instr_valid, DmemError, mem_read, mem_write
<1>3. /\ NextPc(i, m) = m.pc + 1 /\ NextMem(i, m) = m.mem /\ NextCc(i, m) = m.cc
      /\ dstM(i) = NONE
  BY DEF NextPc, new_pc, NextMem, mem_write, NextCc, set_cc, dstM
<1>4. ValE(i, m) = IF i.icode = "rrmovq" THEN get_reg_val(m.reg, i.rA) ELSE i.valC
  <2>1. get_reg_val(m.reg, i.rA) \in Word /\ i.valC \in Word
    BY Reads DEF Ready, Instruction
  <2> QED  BY <2>1, Passes DEF ValE, ValA, aluA, aluB, alufun, srcA
<1>5. NextReg(i, m) =
        IF i.icode = "irmovq" \/ cond_holds(m.cc, i.ifun)
        THEN set_reg_val(m.reg, i.rB, ValE(i, m)) ELSE m.reg
  BY <1>3 DEF NextReg, dstE, Cnd, set_reg_val
<1> DEFINE t == step_state(p, m)
<1>6. /\ t.pc = m.pc + 1 /\ t.mem = m.mem /\ t.cc = m.cc /\ t.stat = m.stat
      /\ t.reg = IF i.icode = "irmovq" THEN set_reg_val(m.reg, i.rB, i.valC)
                 ELSE IF cond_holds(m.cc, i.ifun)
                 THEN set_reg_val(m.reg, i.rB, get_reg_val(m.reg, i.rA)) ELSE m.reg
  BY <1>1 DEF step_state, Ready, Machines
<1> HIDE DEF t
<1>7. t.reg = NextReg(i, m)
  BY <1>4, <1>5, <1>6
<1>8. t.stat = "AOK"
  BY <1>6 DEF Ready
<1> QED  BY <1>1, <1>2, <1>3, <1>6, <1>7, <1>8 DEF Cycled, t

\* so is an instruction that writes nothing,
LEMMA Idle ==
    ASSUME NEW p, NEW m, NEW i, Ready(p, m, i),
           i.icode \in {"nop", "halt", "jxx"} \/ ~instr_valid(i.icode)
    PROVE  Cycled(p, m, step_state(p, m))
<1>1. i = Fetched(p, m) /\ m.pc \in DOMAIN p /\ i = p[m.pc] /\ ~Refused(p[m.pc])
  BY DEF Ready, Fetched
<1>2. StatOf(p, m) = IF ~instr_valid(i.icode) THEN "INS"
                     ELSE IF i.icode = "halt" THEN "HLT" ELSE "AOK"
  BY <1>1 DEF StatOf, Stat, DmemError, mem_read, mem_write, instr_valid
<1>3. NextReg(i, m) = m.reg /\ NextMem(i, m) = m.mem /\ NextCc(i, m) = m.cc
  BY DEF NextReg, dstE, dstM, set_reg_val, NextMem, mem_write, NextCc, set_cc, instr_valid
<1>4. NextPc(i, m) = IF i.icode = "jxx" /\ cond_holds(m.cc, i.ifun) THEN i.valC ELSE m.pc + 1
  BY DEF NextPc, new_pc, Cnd, instr_valid
<1> DEFINE t == step_state(p, m)
<1>5. CASE i.icode \in {"nop", "jxx"}
  <2>1. /\ t.reg = m.reg /\ t.mem = m.mem /\ t.cc = m.cc /\ t.stat = m.stat
        /\ t.pc = NextPc(i, m)
    BY <1>1, <1>4, <1>5 DEF step_state, I_JMP, Ready, Machines
  <2> HIDE DEF t
  <2>2. t.stat = "AOK" /\ StatOf(p, m) = "AOK"
    BY <2>1, <1>2, <1>5 DEF Ready, instr_valid
  <2> QED  BY <1>1, <1>3, <2>1, <2>2 DEF Cycled, t
<1>6. CASE i.icode \notin {"nop", "jxx"}
  <2>1. t = Fault(m, StatOf(p, m))
    BY <1>1, <1>2, <1>6 DEF step_state, instr_valid
  <2>2. /\ t.reg = m.reg /\ t.mem = m.mem /\ t.cc = m.cc /\ t.pc = m.pc
        /\ t.stat = StatOf(p, m)
    BY <2>1 DEF Fault, Ready, Machines
  <2> HIDE DEF t
  <2>3. t.stat \in {"INS", "HLT"}
    BY <2>2, <1>2, <1>6
  <2> QED  BY <1>1, <2>2, <2>3 DEF Cycled, t
<1> QED  BY <1>5, <1>6

\* so is an operation,
LEMMA Operating ==
    ASSUME NEW p, NEW m, NEW i, Ready(p, m, i), i.icode \in {"opq", "iaddq"}
    PROVE  Cycled(p, m, step_state(p, m))
<1>1. i = Fetched(p, m) /\ m.pc \in DOMAIN p /\ i = p[m.pc] /\ ~Refused(p[m.pc])
  BY DEF Ready, Fetched
<1>2. StatOf(p, m) = "AOK"
  BY <1>1 DEF StatOf, Stat, instr_valid, DmemError, mem_read, mem_write
<1> DEFINE a == IF i.icode = "opq" THEN get_reg_val(m.reg, i.rA) ELSE i.valC
           b == get_reg_val(m.reg, i.rB)
           f == IF i.icode = "opq" THEN i.ifun ELSE "add"
           t == step_state(p, m)
<1>3. /\ aluA(i, ValA(i, m)) = a /\ aluB(i, ValB(i, m)) = b /\ alufun(i) = f
  BY DEF ValA, ValB, aluA, aluB, alufun, srcA, srcB
<1>4. /\ NextPc(i, m) = m.pc + 1 /\ NextMem(i, m) = m.mem
      /\ NextCc(i, m) = compute_cc(f, a, b)
      /\ NextReg(i, m) = set_reg_val(m.reg, i.rB, compute_alu(f, a, b))
  BY <1>3 DEF NextPc, new_pc, NextMem, mem_write, NextCc, set_cc, NextReg, dstE, dstM,
              set_reg_val, ValE
<1>5. t = Operate(m, f, a, b, i.rB)
  BY <1>1 DEF step_state
<1>6. /\ t.reg = set_reg_val(m.reg, i.rB, compute_alu(f, a, b))
      /\ t.cc = compute_cc(f, a, b) /\ t.pc = m.pc + 1
      /\ t.mem = m.mem /\ t.stat = m.stat
  <2> HIDE DEF a, b, f
  <2> QED  BY <1>5 DEF Operate, Ready, Machines
<1> HIDE DEF a, b, f, t
<1>7. t.stat = "AOK"
  BY <1>6 DEF Ready
<1> QED  BY <1>1, <1>2, <1>4, <1>6, <1>7 DEF Cycled, t

\* rmmovq and mrmovq.
LEMMA Accessing ==
    ASSUME NEW p, NEW m, NEW i, Ready(p, m, i), i.icode \in {"rmmovq", "mrmovq"}
    PROVE  Cycled(p, m, step_state(p, m))
<1>1. i = Fetched(p, m) /\ m.pc \in DOMAIN p /\ i = p[m.pc] /\ ~Refused(p[m.pc])
  BY DEF Ready, Fetched
<1> DEFINE addr == Wrap(i.valC + get_reg_val(m.reg, i.rB))
           t == step_state(p, m)
<1>2. ValE(i, m) = addr /\ Addr(i, m) = addr
  <2>1. ValE(i, m) = compute_alu("add", i.valC, get_reg_val(m.reg, i.rB))
    BY DEF ValE, ValA, ValB, aluA, aluB, alufun, srcA, srcB
  <2>2. ValE(i, m) = addr
    BY <2>1 DEF compute_alu
  <2> QED  BY <2>2 DEF Addr, mem_addr
<1> HIDE DEF addr
<1>3. StatOf(p, m) = IF addr \in Address THEN "AOK" ELSE "ADR"
  BY <1>1, <1>2 DEF StatOf, Stat, instr_valid, DmemError, mem_read, mem_write
<1>4. /\ NextPc(i, m) = m.pc + 1 /\ NextCc(i, m) = m.cc
      /\ addr \in Address =>
            /\ NextMem(i, m) = IF i.icode = "mrmovq" THEN m.mem
                               ELSE [m.mem EXCEPT ![addr] = get_reg_val(m.reg, i.rA)]
            /\ NextReg(i, m) = IF i.icode = "rmmovq" THEN m.reg
                               ELSE set_reg_val(m.reg, i.rA, m.mem[addr])
  BY <1>2 DEF NextPc, new_pc, NextCc, set_cc, NextMem, mem_write, set_word_val, mem_data,
              NextReg, dstE, dstM, set_reg_val, ValA, ValM, DmemError, mem_read, srcA
<1>5. t = IF i.icode = "mrmovq" THEN Load(m, i.rA, addr)
          ELSE Store(m, addr, get_reg_val(m.reg, i.rA), m.pc + 1)
  BY <1>1 DEF step_state, addr
<1>6. /\ t.cc = m.cc /\ t.stat = StatOf(p, m)
      /\ addr \in Address => t.pc = NextPc(i, m) /\ t.mem = NextMem(i, m) /\ t.reg = NextReg(i, m)
      /\ addr \notin Address => t.pc = m.pc /\ t.mem = m.mem /\ t.reg = m.reg
  BY <1>3, <1>4, <1>5 DEF Load, Store, Fault, Ready, Machines
<1> HIDE DEF t
<1> QED  BY <1>1, <1>3, <1>4, <1>6 DEF Cycled, t

\* call and pushq: the word goes below the stack pointer.
LEMMA Pushing ==
    ASSUME NEW p, NEW m, NEW i, Ready(p, m, i), i.icode \in {"call", "pushq"}
    PROVE  Cycled(p, m, step_state(p, m))
<1>1. i = Fetched(p, m) /\ m.pc \in DOMAIN p /\ i = p[m.pc] /\ ~Refused(p[m.pc])
  BY DEF Ready, Fetched
<1> DEFINE addr == Wrap(-1 + m.reg[RSP])
           val == IF i.icode = "call" THEN m.pc + 1 ELSE get_reg_val(m.reg, i.rA)
           to == IF i.icode = "call" THEN i.valC ELSE m.pc + 1
           t == step_state(p, m)
<1>2. ValE(i, m) = addr /\ Addr(i, m) = addr
  <2>1. ValE(i, m) = compute_alu("add", -1, m.reg[RSP])
    BY StackPointer DEF ValE, ValA, ValB, aluA, aluB, alufun, srcA, srcB, Ready
  <2>2. ValE(i, m) = addr
    BY <2>1 DEF compute_alu
  <2> QED  BY <2>2 DEF Addr, mem_addr
<1>3. StatOf(p, m) = IF addr \in Address THEN "AOK" ELSE "ADR"
  BY <1>1, <1>2 DEF StatOf, Stat, instr_valid, DmemError, mem_read, mem_write
<1>4. /\ NextPc(i, m) = to /\ NextCc(i, m) = m.cc
      /\ addr \in Address => NextMem(i, m) = [m.mem EXCEPT ![addr] = val]
      /\ NextReg(i, m) = [m.reg EXCEPT ![RSP] = addr]
  BY <1>2, StackPointer DEF NextPc, new_pc, NextCc, set_cc, NextMem, mem_write,
     set_word_val, mem_data, NextReg, dstE, dstM, set_reg_val, ValA, srcA, Ready
<1> DEFINE down == MoveStack(m, -1)
<1>5. /\ down.pc = m.pc /\ down.reg = [m.reg EXCEPT ![RSP] = addr]
      /\ down.mem = m.mem /\ down.cc = m.cc /\ down.stat = m.stat
      /\ down.reg[RSP] = addr
      /\ DOMAIN down = Fields
  BY StackPointer DEF MoveStack, Ready, Machines, Fields
<1>6. t = Store(down, addr, val, to)
  BY <1>1, <1>5 DEF step_state, I_CALL, I_PUSHQ
<1> HIDE DEF addr, val, to, down, t
<1>7. /\ t.cc = m.cc /\ t.stat = StatOf(p, m) /\ t.reg = [m.reg EXCEPT ![RSP] = addr]
      /\ addr \in Address => t.pc = to /\ t.mem = [m.mem EXCEPT ![addr] = val]
      /\ addr \notin Address => t.pc = m.pc /\ t.mem = m.mem
  BY <1>3, <1>5, <1>6 DEF Store, Fault, Ready, Fields
<1> QED  BY <1>1, <1>2, <1>3, <1>4, <1>7 DEF Cycled, t

\* ret and popq: the word comes from where the stack pointer was.
LEMMA Popping ==
    ASSUME NEW p, NEW m, NEW i, Ready(p, m, i), i.icode \in {"ret", "popq"}
    PROVE  Cycled(p, m, step_state(p, m))
<1>1. i = Fetched(p, m) /\ m.pc \in DOMAIN p /\ i = p[m.pc] /\ ~Refused(p[m.pc])
  BY DEF Ready, Fetched
<1> DEFINE sp == m.reg[RSP]
           up == [m.reg EXCEPT ![RSP] = Wrap(1 + sp)]
           t == step_state(p, m)
<1>2. ValE(i, m) = Wrap(1 + sp) /\ Addr(i, m) = sp
  <2>1. ValE(i, m) = compute_alu("add", 1, sp)
    BY StackPointer DEF ValE, ValA, ValB, aluA, aluB, alufun, srcA, srcB, Ready
  <2>2. Addr(i, m) = sp
    BY StackPointer DEF Addr, mem_addr, ValA, srcA, Ready
  <2> QED  BY <2>1, <2>2 DEF compute_alu
<1>3. StatOf(p, m) = IF sp \in Address THEN "AOK" ELSE "ADR"
  BY <1>1, <1>2 DEF StatOf, Stat, instr_valid, DmemError, mem_read, mem_write
<1>4. /\ NextCc(i, m) = m.cc /\ NextMem(i, m) = m.mem
      /\ sp \in Address =>
            /\ NextPc(i, m) = IF i.icode = "ret" THEN m.mem[sp] ELSE m.pc + 1
            /\ NextReg(i, m) = IF i.icode = "ret" THEN up
                               ELSE set_reg_val(up, i.rA, m.mem[sp])
  <2>1. sp \in Address => ValM(i, m) = m.mem[sp]
    BY <1>2 DEF ValM, DmemError, mem_read
  <2>2. set_reg_val(m.reg, dstE(i, Cnd(i, m)), ValE(i, m)) = up
    BY <1>2, StackPointer DEF dstE, set_reg_val, Ready
  <2> QED  BY <2>1, <2>2 DEF NextPc, new_pc, NextCc, set_cc, NextMem, mem_write, NextReg,
                             dstM, set_reg_val
<1> DEFINE moved == MoveStack(m, 1)
<1>5. /\ moved.pc = m.pc /\ moved.reg = up /\ moved.mem = m.mem
      /\ moved.cc = m.cc /\ moved.stat = m.stat
      /\ DOMAIN moved = Fields
  BY DEF MoveStack, Ready, Machines, Fields
<1>6. t = IF i.icode = "popq" THEN Load(moved, i.rA, sp)
          ELSE IF sp \in Address THEN [moved EXCEPT !.pc = m.mem[sp]]
          ELSE Fault(m, "ADR")
  BY <1>1 DEF step_state, I_RET, I_POPQ
<1> HIDE DEF sp, up, moved, t
<1>7. /\ t.cc = m.cc /\ t.mem = m.mem /\ t.stat = StatOf(p, m)
      /\ sp \in Address =>
            /\ t.pc = IF i.icode = "ret" THEN m.mem[sp] ELSE m.pc + 1
            /\ t.reg = IF i.icode = "ret" THEN up ELSE set_reg_val(up, i.rA, m.mem[sp])
      /\ sp \notin Address =>
            t.pc = m.pc /\ t.reg = IF i.icode = "popq" THEN up ELSE m.reg
  BY <1>3, <1>5, <1>6 DEF Load, Fault, Ready, Machines, Fields
<1>8. up = [m.reg EXCEPT ![RSP] = ValE(i, m)]
  BY <1>2 DEF up
<1> QED  BY <1>1, <1>3, <1>4, <1>7, <1>8 DEF Cycled, t

\* Outside the program both stop.
LEMMA Lost ==
    ASSUME NEW p, NEW m \in Machines, m.pc \notin DOMAIN p
    PROVE  Cycled(p, m, step_state(p, m))
<1>1. StatOf(p, m) = "ADR"
  BY DEF StatOf, Stat
<1>2. step_state(p, m) = Fault(m, "ADR")
  BY DEF step_state
<1> QED  BY <1>1, <1>2 DEF Cycled, Fault, Machines

\* so is every instruction that isa.c does not refuse.
LEMMA IsaCycles ==
    ASSUME NEW p, Wellformed(p), NEW m \in Machines, m.stat = "AOK",
           m.pc \in DOMAIN p => ~Refused(p[m.pc])
    PROVE  Cycled(p, m, step_state(p, m))
<1>1. CASE m.pc \notin DOMAIN p
  BY <1>1, Lost
<1>2. CASE m.pc \in DOMAIN p
  <2> DEFINE i == p[m.pc]
  <2>1. Ready(p, m, i)
    BY <1>2 DEF Wellformed, Ready
  <2>2. i.icode \in {"rrmovq", "irmovq"} \cup {"nop", "halt", "jxx"} \cup {"opq", "iaddq"}
                    \cup {"rmmovq", "mrmovq"} \cup {"call", "pushq"} \cup {"ret", "popq"}
        \/ ~instr_valid(i.icode)
    BY DEF instr_valid
  <2> HIDE DEF i
  <2> QED  BY <2>1, <2>2, Moving, Idle, Operating, Accessing, Pushing, Popping
<1> QED  BY <1>1, <1>2
-----------------------------------------------------------------------------
(* The machines stay machines. *)
LEMMA SetsWord ==
    ASSUME NEW r \in [REGS -> Word], NEW id \in REGS \cup {NONE}, NEW val \in Word
    PROVE  set_reg_val(r, id, val) \in [REGS -> Word]
BY DEF set_reg_val

\* A fault keeps the machine's type,
LEMMA FaultStays ==
    ASSUME NEW m \in Machines, NEW stat \in Statuses PROVE Fault(m, stat) \in Machines
BY DEF Fault, Machines

\* and so does a load,
LEMMA LoadStays ==
    ASSUME NEW m \in Machines, NEW id \in REGS \cup {NONE}, NEW addr, m.pc + 1 \in Word
    PROVE  Load(m, id, addr) \in Machines
<1>1. CASE addr \in Address
  <2>1. m.mem[addr] \in Word
    BY <1>1 DEF Machines
  <2>2. set_reg_val(m.reg, id, m.mem[addr]) \in [REGS -> Word]
    BY <2>1, SetsWord DEF Machines
  <2> QED  BY <1>1, <2>2 DEF Load, Machines
<1>2. CASE addr \notin Address
  BY <1>2, FaultStays DEF Load, Statuses
<1> QED  BY <1>1, <1>2

\* a store,
LEMMA StoreStays ==
    ASSUME NEW m \in Machines, NEW addr, NEW val \in Word, NEW pc \in Word
    PROVE  Store(m, addr, val, pc) \in Machines
<1>1. CASE addr \in Address
  BY <1>1 DEF Store, Machines
<1>2. CASE addr \notin Address
  BY <1>2, FaultStays DEF Store, Statuses
<1> QED  BY <1>1, <1>2

\* a move of the stack pointer
LEMMA MoveStackStays ==
    ASSUME NEW m \in Machines, NEW n \in Int
    PROVE  MoveStack(m, n) \in Machines /\ MoveStack(m, n).pc = m.pc
<1>1. Wrap(n + m.reg[RSP]) \in Word
  <2>1. m.reg[RSP] \in Int
    BY WordIsInt, Y86Assumption DEF Machines
  <2> QED  BY <2>1, WrapIsWord
<1> QED  BY <1>1 DEF MoveStack, Machines

\* and an operation,
LEMMA OperateStays ==
    ASSUME NEW m \in Machines, NEW op \in Ops, NEW a \in Word, NEW b \in Word,
           NEW id \in REGS \cup {NONE}, m.pc + 1 \in Word
    PROVE  Operate(m, op, a, b, id) \in Machines
<1>1. compute_alu(op, a, b) \in Word /\ compute_cc(op, a, b) \in Flags
  BY WordIsInt, AluIsWord, FlagsOfAlu
<1>2. set_reg_val(m.reg, id, compute_alu(op, a, b)) \in [REGS -> Word]
  BY <1>1, SetsWord DEF Machines
<1> QED  BY <1>1, <1>2 DEF Operate, Machines

\* so the instruction set's step does.
LEMMA IsaStaysMachine ==
    ASSUME NEW p, Wellformed(p), NEW m \in Machines, m.stat = "AOK"
    PROVE  step_state(p, m) \in Machines
<1> DEFINE i == p[m.pc]
           t == step_state(p, m)
<1>1. CASE m.pc \notin DOMAIN p
  BY <1>1, FaultStays DEF step_state, Statuses
<1>3. CASE m.pc \in DOMAIN p /\ Refused(p[m.pc])
  BY <1>3, FaultStays DEF step_state, Statuses
<1>2. CASE m.pc \in DOMAIN p /\ ~Refused(p[m.pc])
  <2>1. /\ m.pc + 1 \in Word /\ i \in Instruction
        /\ i.icode = "opq" => i.ifun \in Ops
    BY <1>2 DEF Wellformed
  <2>2. /\ i.valC \in Word /\ i.rA \in REGS \cup {NONE} /\ i.rB \in REGS \cup {NONE}
        /\ get_reg_val(m.reg, i.rA) \in Word /\ get_reg_val(m.reg, i.rB) \in Word
    BY <2>1, Reads DEF Instruction
  <2>3. CASE i.icode \in {"rrmovq", "irmovq"}
    <3>1. /\ set_reg_val(m.reg, i.rB, get_reg_val(m.reg, i.rA)) \in [REGS -> Word]
          /\ set_reg_val(m.reg, i.rB, i.valC) \in [REGS -> Word]
      BY <2>2, SetsWord DEF Machines
    <3> QED  BY <1>2, <2>1, <2>3, <3>1 DEF step_state, Machines
  <2>4. CASE i.icode \in {"nop", "jxx"}
    BY <1>2, <2>1, <2>2, <2>4 DEF step_state, I_JMP, Machines
  <2>5. CASE i.icode = "halt" \/ ~instr_valid(i.icode)
    BY <1>2, <2>5, FaultStays DEF step_state, instr_valid, Statuses
  <2>6. CASE i.icode \in {"opq", "iaddq"}
    <3>1. t = IF i.icode = "opq"
              THEN Operate(m, i.ifun, get_reg_val(m.reg, i.rA), get_reg_val(m.reg, i.rB), i.rB)
              ELSE Operate(m, "add", i.valC, get_reg_val(m.reg, i.rB), i.rB)
      BY <1>2, <2>6 DEF step_state
    <3> HIDE DEF i, t
    <3> QED  BY <2>1, <2>2, <2>6, <3>1, OperateStays DEF Ops, t
  <2>7. CASE i.icode \in {"rmmovq", "mrmovq"}
    <3>1. t = IF i.icode = "mrmovq"
              THEN Load(m, i.rA, Wrap(i.valC + get_reg_val(m.reg, i.rB)))
              ELSE Store(m, Wrap(i.valC + get_reg_val(m.reg, i.rB)),
                         get_reg_val(m.reg, i.rA), m.pc + 1)
      BY <1>2, <2>7 DEF step_state
    <3> HIDE DEF i, t
    <3> QED  BY <2>1, <2>2, <3>1, LoadStays, StoreStays DEF t
  <2>8. CASE i.icode \in {"call", "pushq"}
    <3> DEFINE down == MoveStack(m, -1)
    <3>1. down \in Machines /\ down.pc = m.pc
      BY MoveStackStays
    <3>2. t = IF i.icode = "call" THEN Store(down, down.reg[RSP], m.pc + 1, i.valC)
              ELSE Store(down, down.reg[RSP], get_reg_val(m.reg, i.rA), m.pc + 1)
      BY <1>2, <2>8 DEF step_state, I_CALL, I_PUSHQ
    <3> HIDE DEF i, t, down
    <3> QED  BY <2>1, <2>2, <3>1, <3>2, StoreStays DEF t
  <2>9. CASE i.icode \in {"ret", "popq"}
    <3> DEFINE up == MoveStack(m, 1)
               sp == m.reg[RSP]
    <3>1. up \in Machines /\ up.pc = m.pc
      BY MoveStackStays
    <3>2. t = IF i.icode = "popq" THEN Load(up, i.rA, sp)
              ELSE IF sp \in Address THEN [up EXCEPT !.pc = m.mem[sp]]
              ELSE Fault(m, "ADR")
      BY <1>2, <2>9 DEF step_state, I_RET, I_POPQ
    <3>3. sp \in Address => m.mem[sp] \in Word
      BY DEF Machines
    <3> HIDE DEF i, t, up, sp
    <3>4. sp \in Address => [up EXCEPT !.pc = m.mem[sp]] \in Machines
      BY <3>1, <3>3 DEF Machines
    <3>5. Fault(m, "ADR") \in Machines
      BY FaultStays DEF Statuses
    <3> QED  BY <2>1, <2>2, <3>1, <3>2, <3>4, <3>5, LoadStays DEF t
  <2>10. i.icode \in {"rrmovq", "irmovq"} \cup {"nop", "jxx"} \cup {"opq", "iaddq"}
                    \cup {"rmmovq", "mrmovq"} \cup {"call", "pushq"} \cup {"ret", "popq"}
         \/ i.icode = "halt" \/ ~instr_valid(i.icode)
    BY DEF instr_valid
  <2> HIDE DEF i
  <2> QED  BY <2>3, <2>4, <2>5, <2>6, <2>7, <2>8, <2>9, <2>10
<1> QED  BY <1>1, <1>2, <1>3
-----------------------------------------------------------------------------
IInv == /\ Wellformed(prog)
        /\ isa \in Machines
        /\ DOMAIN seq = Latched
        /\ SeqAgrees

\* The simulators start in the invariant,
LEMMA InitIInv == Init => IInv
<1> SUFFICES ASSUME Init PROVE IInv
  OBVIOUS
<1>1. PICK p \in Programs : prog = p.code /\ isa = Machine(p.image) /\ seq = sim_reset(p.image)
  BY DEF Init
<1>2. Wellformed(prog) /\ p.image \in [Address -> Word]
  BY <1>1, SimulatorsAssumption DEF Wellformed, Ops
<1>3. isa \in Machines
  BY <1>1, <1>2, WordIsInt DEF Machine, Machines, DEFAULT_CC, Flags, Statuses
<1>4. DOMAIN seq = Latched
  BY <1>1 DEF sim_reset, Latched, Fields
<1>5. \A f \in Fields : Shown(seq)[f] = isa[f]
  <2>1. seq.stat = "AOK" /\ Shown(seq) = update_state(seq)
    BY <1>1 DEF sim_reset, Shown
  <2>2. /\ seq.pc_in = 0 /\ seq.cc_in = DEFAULT_CC /\ seq.reg = [r \in REGS |-> 0]
        /\ seq.mem = p.image /\ seq.destE = NONE /\ seq.destM = NONE /\ seq.mem_write = FALSE
    BY <1>1 DEF sim_reset
  <2>3. /\ Shown(seq).pc = 0 /\ Shown(seq).cc = DEFAULT_CC
        /\ Shown(seq).reg = [r \in REGS |-> 0] /\ Shown(seq).mem = p.image
        /\ Shown(seq).stat = "AOK"
    BY <1>4, <2>1, <2>2, Updated DEF set_reg_val
  <2> QED  BY <1>1, <2>3 DEF Machine, Fields
<1>6. isa.stat = "AOK" /\ DOMAIN isa = Fields
  BY <1>1 DEF Machine, Fields
<1>7. SeqAgrees
  BY <1>5, <1>6 DEF SeqAgrees, StackFault, Fields
<1> QED  BY <1>2, <1>3, <1>4, <1>7 DEF IInv

\* a cycle of both from one machine leaves them so,
LEMMA BothCycled ==
    ASSUME isa \in Machines, isa' \in Machines, prog' = prog,
           Cycled(prog, isa, isa'), Shows(prog, isa, Shown(seq)'),
           seq'.valE = ValE(Fetched(prog, isa), isa)
    PROVE  SeqAgrees'
<1> DEFINE m == isa
           t == isa'
           u == Shown(seq)'
           v == seq'.valE
<1>1. u.stat = t.stat /\ u.pc = t.pc /\ u.mem = t.mem /\ u.cc = t.cc
  BY DEF Cycled, Shows
<1>2. t.reg = IF StackFault' THEN set_reg_val(u.reg, RSP, v) ELSE u.reg
  <2>1. CASE t.stat = "AOK"
    BY <2>1 DEF Cycled, Shows, StackFault
  <2>2. CASE t.stat # "AOK"
    <3>1. t.pc = m.pc /\ u.reg = m.reg /\ set_reg_val(u.reg, RSP, v) = [m.reg EXCEPT ![RSP] = v]
      BY <2>2, StackPointer DEF Cycled, Shows, set_reg_val
    <3>2. StackFault' <=> /\ t.stat = "ADR" /\ m.pc \in DOMAIN prog
                          /\ Fetched(prog, m).icode \in {"pushq", "call", "popq"}
      BY <3>1 DEF StackFault, Fetched
    <3> QED  BY <2>2, <3>1, <3>2 DEF Cycled
  <2> QED  BY <2>1, <2>2
<1>3. DOMAIN t = Fields
  BY DEF Machines, Fields
<1> QED  BY <1>1, <1>2, <1>3 DEF SeqAgrees, Fields

\* and each step keeps it.
LEMMA StepIInv == IInv /\ [Next]_vars => IInv'
<1> SUFFICES ASSUME IInv, [Next]_vars PROVE IInv'
  OBVIOUS
<1>1. CASE UNCHANGED vars
  BY <1>1 DEF IInv, SeqAgrees, LacksRegister, StackFault, Wellformed, Shown, vars
<1>2. CASE Next
  <2>1. /\ isa.stat = "AOK" /\ seq.stat = "AOK" /\ prog' = prog
        /\ isa' = step_state(prog, isa) /\ seq' = sim_step(prog, seq)
    BY <1>2 DEF Next
  <2>2. isa' \in Machines
    BY <2>1, IsaStaysMachine DEF IInv
  <2>3. DOMAIN seq' = Latched
    BY <2>1, Stepped DEF IInv
  <2>4. \A f \in Fields : update_state(seq)[f] = isa[f]
    <3>1. DOMAIN isa = Fields
      BY DEF IInv, Machines, Fields
    <3>2. ~LacksRegister /\ ~StackFault
      BY <2>1 DEF LacksRegister, StackFault
    <3> QED  BY <2>1, <3>1, <3>2 DEF IInv, SeqAgrees, Shown, Fields
  <2>5. /\ Shows(prog, isa, Shown(seq)')
        /\ seq'.valE = ValE(Fetched(prog, isa), isa)
    BY <2>1, <2>4, SeqCycles DEF IInv, Shown
  <2>6. SeqAgrees'
    <3>1. CASE isa.pc \in DOMAIN prog /\ Refused(prog[isa.pc])
      <4>1. isa' = Fault(isa, "INS")
        BY <2>1, <3>1 DEF step_state
      <4>2. isa'.stat = "INS" /\ isa'.pc = isa.pc
        BY <4>1 DEF IInv, Fault, Machines
      <4>3. LacksRegister'
        BY <2>1, <3>1, <4>2 DEF LacksRegister, Refused
      <4> QED  BY <4>3 DEF SeqAgrees
    <3>2. CASE isa.pc \in DOMAIN prog => ~Refused(prog[isa.pc])
      <4>1. Cycled(prog, isa, isa')
        BY <2>1, <3>2, IsaCycles DEF IInv
      <4> QED  BY <2>1, <2>2, <2>5, <4>1, BothCycled DEF IInv
    <3> QED  BY <3>1, <3>2
  <2> QED  BY <2>1, <2>2, <2>3, <2>6 DEF IInv, Wellformed
<1> QED  BY <1>1, <1>2

\* isa.c and ssim agree after every instruction, up to one that lacks a register
\* and but for the %rsp of a failed pushq, call or popq: what ssim -t checks at
\* the end of a run (ssim.c 247-281; seq-full.hcl).
THEOREM SequentialIsIsa == Spec => []SeqAgrees
<1>1. IInv => SeqAgrees
  BY DEF IInv
<1> QED  BY <1>1, InitIInv, StepIInv, PTL DEF Spec

-----------------------------------------------------------------------------
(* y64sim, instruction by instruction. *)
LEMMA SameConditions ==
    ASSUME NEW cc \in Flags, NEW cond
    PROVE  cond_doit(cc, cond) = cond_holds(cc, cond)
<1>1. cc.z \in BOOLEAN /\ cc.s \in BOOLEAN /\ cc.o \in BOOLEAN
  BY DEF Flags
<1> QED  BY <1>1 DEF cond_doit, cond_holds

\* Overflow of a subtraction, told from the signs of both arguments and the
\* result (y64sim) or with a strict test of the first (isa.c): they part only
\* at zero, where the result is the second argument.
LEMMA SameOverflow ==
    ASSUME NEW op \in Ops, NEW a \in Word, NEW b \in Word
    PROVE  overflow(op, a, b, compute_alu(op, a, b)) = compute_cc(op, a, b).o
<1> DEFINE val == compute_alu(op, a, b)
<1>1. a \in Int /\ b \in Int
  BY WordIsInt
<1>2. val \in Int
  BY <1>1, AluIsWord, WordIsInt
<1>3. compute_cc(op, a, b).o =
        (\/ op = "add" /\ (a < 0) = (b < 0) /\ (val < 0) # (a < 0)
         \/ op = "sub" /\ (a > 0) = (b < 0) /\ (val < 0) # (b < 0))
  BY DEF compute_cc
<1>4. op = "sub" /\ a = 0 => val = b
  <2>1. b - 0 = b
    BY <1>1
  <2> QED  BY <2>1, WrapOfWord DEF compute_alu
<1> HIDE DEF val
<1>5. overflow(op, a, b, val) =
        (\/ op = "add" /\ (a < 0) = (b < 0) /\ (val < 0) # (a < 0)
         \/ op = "sub" /\ (a > 0) = (b < 0) /\ (val < 0) # (b < 0))
  BY <1>1, <1>2, <1>4 DEF overflow
<1> QED  BY <1>3, <1>5 DEF val

\* The two ways to compute the flags agree where the result has the same sign
\* in either width.
LEMMA SameFlags ==
    ASSUME NEW op \in Ops, NEW a \in Word, NEW b \in Word,
           (AsInt(compute_alu(op, a, b)) < 0) = (compute_alu(op, a, b) < 0)
    PROVE  y64_compute_cc(op, a, b, compute_alu(op, a, b)) = compute_cc(op, a, b)
<1> DEFINE val == compute_alu(op, a, b)
<1>1. compute_cc(op, a, b) = [z |-> val = 0, s |-> val < 0, o |-> compute_cc(op, a, b).o]
  BY DEF compute_cc
<1>2. y64_compute_cc(op, a, b, val)
        = [z |-> val = 0, s |-> AsInt(val) < 0, o |-> overflow(op, a, b, val)]
  BY DEF y64_compute_cc
<1>3. overflow(op, a, b, val) = compute_cc(op, a, b).o
  BY SameOverflow
<1> HIDE DEF val
<1> QED  BY <1>1, <1>2, <1>3 DEF val

\* What y64sim does of instruction i is excused, or is what isa.c does of it.
LEMMA SameStep ==
    ASSUME NEW p, Wellformed(p), NEW m \in Machines, m.stat = "AOK",
           m.pc \in DOMAIN p, Excuse(p[m.pc], m, execute(m, p[m.pc])) = "none"
    PROVE  execute(m, p[m.pc]) = step_state(p, m)
<1> DEFINE i == p[m.pc]
           t == execute(m, i)
           valA == get_reg_val(m.reg, i.rA)
           valB == get_reg_val(m.reg, i.rB)
           val == compute_alu(i.ifun, valA, valB)
<1>1. /\ m.pc + 1 \in Word /\ i \in Instruction
      /\ i.icode = "opq" => i.ifun \in Ops
  BY DEF Wellformed
<1>2. /\ i.valC \in Word /\ i.rA \in REGS \cup {NONE} /\ i.rB \in REGS \cup {NONE}
      /\ valA \in Word /\ valB \in Word
  BY <1>1, Reads DEF Instruction
<1>3. /\ i.icode # "iaddq" /\ ~Refused(i)
      /\ i.icode = "popq" => m.reg[RSP] \in Address
      /\ i.icode = "opq" => (AsInt(val) < 0) = (val < 0)
  <2> HIDE DEF i, t
  <2> QED  BY DEF Excuse, t, valA, valB, val, i
<1>4. CASE i.icode \in {"rrmovq", "jxx"}
  <2>1. cond_doit(m.cc, i.ifun) = cond_holds(m.cc, i.ifun)
    BY SameConditions DEF Machines
  <2> QED  BY <1>3, <1>4, <2>1 DEF execute, step_state, I_JMP
<1>5. CASE i.icode \in {"rmmovq", "mrmovq"}
  <2> DEFINE c == i.valC
  <2>1. valB \in Int /\ c \in Int
    BY <1>2, WordIsInt
  <2> HIDE DEF valB, c
  <2>2. valB + c = c + valB
    BY <2>1
  <2>3. Wrap(valB + c) = Wrap(c + valB)
    BY <2>2
  <2> QED  BY <1>3, <1>5, <2>3 DEF execute, step_state, Load, valB, c
<1>6. CASE i.icode = "opq"
  <2>1. y64_compute_cc(i.ifun, valA, valB, val) = compute_cc(i.ifun, valA, valB)
    BY <1>1, <1>2, <1>3, <1>6, SameFlags
  <2>2. t = [m EXCEPT !.pc = m.pc + 1, !.reg = set_reg_val(@, i.rB, val),
                      !.cc = y64_compute_cc(i.ifun, valA, valB, val)]
    BY <1>6 DEF execute
  <2>3. step_state(p, m) = Operate(m, i.ifun, valA, valB, i.rB)
    BY <1>3, <1>6 DEF step_state
  <2> HIDE DEF i, t, valA, valB, val
  <2>4. t = [m EXCEPT !.pc = m.pc + 1, !.reg = set_reg_val(@, i.rB, val),
                      !.cc = compute_cc(i.ifun, valA, valB)]
    BY <2>1, <2>2
  <2>5. step_state(p, m) = [m EXCEPT !.pc = m.pc + 1, !.reg = set_reg_val(@, i.rB, val),
                                     !.cc = compute_cc(i.ifun, valA, valB)]
    BY <2>3 DEF Operate, Machines, val
  <2> QED  BY <2>4, <2>5 DEF i, t
<1>7. CASE i.icode \in {"call", "pushq"}
  BY <1>3, <1>7 DEF execute, step_state, I_CALL, I_PUSHQ
<1>8. CASE i.icode = "ret"
  BY <1>3, <1>8 DEF execute, step_state, I_RET
<1>9. CASE i.icode = "popq"
  <2> DEFINE up == MoveStack(m, 1)
             sp == m.reg[RSP]
  <2>1. up \in Machines /\ up.pc = m.pc /\ up.mem = m.mem
    <3>1. up \in Machines /\ up.pc = m.pc
      BY MoveStackStays
    <3>2. up.mem = m.mem
      BY DEF MoveStack, Machines
    <3> QED  BY <3>1, <3>2
  <2>2. t = [up EXCEPT !.pc = m.pc + 1, !.reg = set_reg_val(@, i.rA, m.mem[sp])]
    BY <1>3, <1>9 DEF execute
  <2>3. step_state(p, m) = Load(up, i.rA, sp)
    BY <1>3, <1>9 DEF step_state, I_POPQ
  <2> HIDE DEF up, t, i, sp
  <2>4. sp \in Address
    BY <1>3, <1>9 DEF sp
  <2>5. Load(up, i.rA, sp) = [up EXCEPT !.reg = set_reg_val(@, i.rA, up.mem[sp]), !.pc = @ + 1]
    BY <2>4 DEF Load
  <2> QED  BY <2>1, <2>2, <2>3, <2>5 DEF Machines, t, i
<1>10. CASE i.icode \in {"halt", "nop", "irmovq"}
  BY <1>3, <1>10 DEF execute, step_state
<1>11. CASE ~instr_valid(i.icode)
  BY <1>3, <1>11 DEF execute, step_state, instr_valid
<1> HIDE DEF i
<1> QED  BY <1>3, <1>4, <1>5, <1>6, <1>7, <1>8, <1>9, <1>10, <1>11 DEF instr_valid, i

\* y64sim is isa.c where nothing excuses it; isa.c is a machine by IInv.
Agreed == excuse = "none" => y64 = isa

\* The simulators start in agreement,
LEMMA InitAgreed == Init => Agreed
BY DEF Init, Agreed

\* and each step keeps it.
LEMMA StepAgreed == IInv /\ Agreed /\ [Next]_vars => Agreed'
<1> SUFFICES ASSUME IInv, Agreed, [Next]_vars PROVE Agreed'
  OBVIOUS
<1>1. CASE UNCHANGED vars
  BY <1>1 DEF Agreed, vars
<1>2. CASE Next
  <2> SUFFICES ASSUME excuse' = "none" PROVE y64' = isa'
    BY DEF Agreed
  <2>1. /\ isa.stat = "AOK" /\ isa' = step_state(prog, isa)
        /\ isa \in Machines /\ Wellformed(prog)
    BY <1>2 DEF Next, IInv
  <2>2. CASE excuse # "none" \/ y64.stat # "AOK"
    BY <1>2, <2>1, <2>2 DEF Next, Agreed
  <2>3. CASE excuse = "none" /\ y64.stat = "AOK"
    <3>1. /\ y64 = isa /\ y64' \in nexti(prog, isa)
          /\ isa.pc \in DOMAIN prog => Excuse(prog[isa.pc], isa, y64') = "none"
      BY <1>2, <2>3 DEF Next, Agreed
    <3>2. CASE isa.pc \notin DOMAIN prog
      BY <2>1, <3>1, <3>2 DEF nexti, step_state
    <3>3. CASE isa.pc \in DOMAIN prog
      <4> DEFINE i == prog[isa.pc]
      <4>1. ~(need_regs(i) /\ y64'.stat = "INS")
        <5> HIDE DEF i
        <5>1. Excuse(i, isa, y64') = "none"
          BY <3>1, <3>3 DEF i
        <5> QED  BY <5>1 DEF Excuse
      <4>4. ~Refused(i)
        <5> HIDE DEF i
        <5>1. Excuse(i, isa, y64') = "none"
          BY <3>1, <3>3 DEF i
        <5> QED  BY <5>1 DEF Excuse
      <4>2. Fault(isa, "INS").stat = "INS"
        BY <2>1 DEF Fault, Machines
      <4>3. y64' = execute(isa, i)
        BY <3>1, <3>3, <4>1, <4>2 DEF nexti
      <4> QED  BY <2>1, <3>1, <3>3, <4>3, SameStep
    <3> QED  BY <3>2, <3>3
  <2> QED  BY <2>2, <2>3
<1> QED  BY <1>1, <1>2

\* y64sim and isa.c, two programs written apart, have the same registers,
\* memory, flags, program counter and status after every instruction, for every
\* program and every width of words and ints, up to the first of the five
\* differences Excuse names: iaddq, an instruction without a register isa.c
\* asks for, register numbers tested unread, a pop of an invalid address, flags
\* of a result whose lower half has another sign (nexti, compute_cc and
\* cond_doit of y64sim.c; step_state of isa.c).
THEOREM SimulatorsAgree == Spec => []Y64Agrees
<1>1. Agreed => Y64Agrees
  BY DEF Agreed, Y64Agrees
<1> QED  BY <1>1, InitIInv, StepIInv, InitAgreed, StepAgreed, PTL DEF Spec
=============================================================================
