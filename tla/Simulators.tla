------------------------------ MODULE Simulators ------------------------------
(* Three machines on one program, in lockstep: isa.c's step_state, the     *)
(* sequential processor of src/lab6/seq (seq-full.hcl in ssim.c) and the   *)
(* simulator of src/lab4 (y64sim.c).  ssim -t compares the first two; the  *)
(* third was written from the same description.                            *)
EXTENDS Y86

CONSTANTS Programs,     \* the programs, with the memory each starts from
          INT_WIDTH     \* bits of an int, half of WIDTH in the code

\* The fields of an instruction.
Instruction == [icode : STRING, ifun : STRING, rA : REGS \cup {NONE},
                rB : REGS \cup {NONE}, valC : Word]

ASSUME SimulatorsAssumption ==
    /\ INT_WIDTH \in 1 .. WIDTH
    /\ \A p \in Programs : /\ p.image \in [Address -> Word]
                           /\ \A a \in DOMAIN p.code :
                                 /\ a + 1 \in Word /\ p.code[a] \in Instruction
                                 /\ p.code[a].icode = "opq" =>
                                        p.code[a].ifun \in {"add", "sub", "and", "xor"}

VARIABLES prog,     \* the program
          isa,      \* pc, reg, mem, cc, stat of isa.c
          seq,      \* those of ssim, and what its last cycle left pending
          y64,      \* those of y64sim
          excuse    \* why y64sim may differ from isa.c, once it does

vars == <<prog, isa, seq, y64, excuse>>

Machine(image) == [pc |-> 0, reg |-> [r \in REGS |-> 0], mem |-> image,
                   cc |-> DEFAULT_CC, stat |-> "AOK"]
-----------------------------------------------------------------------------
(* seq-full.hcl, for instruction i with what it reads. *)
instr_valid(icode) ==
    icode \in {"nop", "halt", "rrmovq", "irmovq", "rmmovq", "mrmovq", "opq",
               "jxx", "call", "ret", "pushq", "popq", "iaddq"}
srcA(i) ==
    IF i.icode \in {"rrmovq", "rmmovq", "opq", "pushq"} THEN i.rA
    ELSE IF i.icode \in {"popq", "ret"} THEN RSP ELSE NONE
srcB(i) ==
    IF i.icode \in {"opq", "rmmovq", "mrmovq", "iaddq"} THEN i.rB
    ELSE IF i.icode \in {"pushq", "popq", "call", "ret"} THEN RSP ELSE NONE
dstE(i, cnd) ==
    IF (i.icode = "rrmovq" /\ cnd) \/ i.icode \in {"irmovq", "opq", "iaddq"} THEN i.rB
    ELSE IF i.icode \in {"pushq", "popq", "call", "ret"} THEN RSP ELSE NONE
dstM(i) == IF i.icode \in {"mrmovq", "popq"} THEN i.rA ELSE NONE
aluA(i, valA) ==
    IF i.icode \in {"rrmovq", "opq"} THEN valA
    ELSE IF i.icode \in {"irmovq", "rmmovq", "mrmovq", "iaddq"} THEN i.valC
    ELSE IF i.icode \in {"call", "pushq"} THEN -1
    ELSE IF i.icode \in {"ret", "popq"} THEN 1 ELSE 0
aluB(i, valB) ==
    IF i.icode \in {"rmmovq", "mrmovq", "opq", "call", "pushq", "ret", "popq", "iaddq"}
    THEN valB ELSE 0
alufun(i) == IF i.icode = "opq" THEN i.ifun ELSE "add"
set_cc(i) == i.icode \in {"opq", "iaddq"}
mem_read(i) == i.icode \in {"mrmovq", "popq", "ret"}
mem_write(i) == i.icode \in {"rmmovq", "pushq", "call"}
mem_addr(i, valA, valE) ==
    IF i.icode \in {"rmmovq", "pushq", "call", "mrmovq"} THEN valE
    ELSE IF i.icode \in {"popq", "ret"} THEN valA ELSE 0
mem_data(i, valA, valP) ==
    IF i.icode \in {"rmmovq", "pushq"} THEN valA
    ELSE IF i.icode = "call" THEN valP ELSE 0
Stat(i, error) ==
    IF error THEN "ADR" ELSE IF ~instr_valid(i.icode) THEN "INS"
    ELSE IF i.icode = "halt" THEN "HLT" ELSE "AOK"
new_pc(i, cnd, valM, valP) ==
    IF i.icode = "call" \/ (i.icode = "jxx" /\ cnd) THEN i.valC
    ELSE IF i.icode = "ret" THEN valM ELSE valP
-----------------------------------------------------------------------------
(* ssim.c: a cycle first writes what the last one left pending. *)
sim_reset(image) ==
    [pc |-> 0, reg |-> [r \in REGS |-> 0], mem |-> image, cc |-> DEFAULT_CC,
     stat |-> "AOK", pc_in |-> 0, cc_in |-> DEFAULT_CC, destE |-> NONE, destM |-> NONE,
     valE |-> 0, valM |-> 0, mem_write |-> FALSE, mem_addr |-> 0, mem_data |-> 0]

\* Mutant of update_state: the two writes to %rsp in the other order.
update_stateSwapped(q) ==
    [q EXCEPT !.pc = q.pc_in, !.cc = q.cc_in,
              !.reg = set_reg_val(set_reg_val(@, q.destM, q.valM), q.destE, q.valE),
              !.mem = IF q.mem_write
                      THEN set_word_val(@, q.mem_addr, q.mem_data) ELSE @]
update_state(q) ==
    [q EXCEPT !.pc = q.pc_in, !.cc = q.cc_in,
              !.reg = set_reg_val(set_reg_val(@, q.destE, q.valE), q.destM, q.valM),
              !.mem = IF q.mem_write
                      THEN set_word_val(@, q.mem_addr, q.mem_data) ELSE @]

NOP == [icode |-> "nop", ifun |-> "yes", rA |-> NONE, rB |-> NONE, valC |-> 0]

sim_step(p, q) ==
    LET u == update_state(q)
        imem_error == u.pc \notin DOMAIN p
        i == IF imem_error THEN NOP ELSE p[u.pc]
        valP == u.pc + 1
        valA == get_reg_val(u.reg, srcA(i))
        valB == get_reg_val(u.reg, srcB(i))
        cnd == i.icode \in {"jxx", "rrmovq"} /\ cond_holds(u.cc, i.ifun)
        a == aluA(i, valA)
        b == aluB(i, valB)
        valE == compute_alu(alufun(i), a, b)
        addr == mem_addr(i, valA, valE)
        dmem_error == (mem_read(i) \/ mem_write(i)) /\ addr \notin Address
        valM == IF mem_read(i) /\ ~dmem_error THEN u.mem[addr] ELSE 0
    IN  [u EXCEPT !.destE = dstE(i, cnd), !.valE = valE,
                  !.destM = dstM(i), !.valM = valM,
                  !.cc_in = IF set_cc(i) THEN compute_cc(alufun(i), a, b) ELSE u.cc,
                  !.mem_write = mem_write(i), !.mem_addr = addr,
                  !.mem_data = mem_data(i, valA, valP),
                  !.stat = Stat(i, imem_error \/ dmem_error),
                  !.pc_in = new_pc(i, cnd, valM, valP)]
-----------------------------------------------------------------------------
(* y64sim.c's nexti, as the set of its outcomes. *)
AsInt(val) == ((val + 2 ^ (INT_WIDTH - 1)) % 2 ^ INT_WIDTH) - 2 ^ (INT_WIDTH - 1)

\* Mutant of overflow: the subtraction is taken for an addition.
overflowAdd(op, a, b, val) ==
    op \in {"add", "sub"} /\ (a < 0) = (b < 0) /\ (val < 0) # (a < 0)
overflow(op, a, b, val) ==
    \/ op = "add" /\ (a < 0) = (b < 0) /\ (val < 0) # (a < 0)
    \/ op = "sub" /\ (a < 0) # (b < 0) /\ (val < 0) = (a < 0)
y64_compute_cc(op, a, b, val) ==
    [z |-> val = 0, s |-> AsInt(val) < 0, o |-> overflow(op, a, b, val)]

cond_doit(cc, cond) ==
    \/ cond = "e" /\ cc.z
    \/ cond = "ne" /\ ~cc.z
    \/ cond = "le" /\ (cc.z \/ cc.s # cc.o)
    \/ cond = "ge" /\ cc.s = cc.o
    \/ cond = "l" /\ cc.s # cc.o
    \/ cond = "g" /\ ~(cc.z \/ cc.s # cc.o)
    \/ cond = "yes"

need_regs(i) == i.icode \in {"rrmovq", "irmovq", "rmmovq", "mrmovq", "opq", "pushq", "popq"}

execute(s, i) ==
    LET valA == get_reg_val(s.reg, i.rA)
        valB == get_reg_val(s.reg, i.rB)
        sp == s.reg[RSP]
        next == s.pc + 1
        val == compute_alu(i.ifun, valA, valB)
        popped == IF sp \in Address THEN s.mem[sp] ELSE 0
        down == MoveStack(s, -1)
        up == MoveStack(s, 1)
    IN  CASE i.icode = "halt" -> Fault(s, "HLT")
          [] i.icode = "nop" -> [s EXCEPT !.pc = next]
          [] i.icode = "rrmovq" ->
                [s EXCEPT !.pc = next,
                          !.reg = IF cond_doit(s.cc, i.ifun)
                                  THEN set_reg_val(@, i.rB, valA) ELSE @]
          [] i.icode = "irmovq" ->
                [s EXCEPT !.pc = next, !.reg = set_reg_val(@, i.rB, i.valC)]
          [] i.icode = "rmmovq" -> Store(s, Wrap(valB + i.valC), valA, next)
          [] i.icode = "mrmovq" -> Load(s, i.rA, Wrap(valB + i.valC))
          [] i.icode = "opq" ->
                [s EXCEPT !.pc = next, !.reg = set_reg_val(@, i.rB, val),
                          !.cc = y64_compute_cc(i.ifun, valA, valB, val)]
          [] i.icode = "jxx" ->
                [s EXCEPT !.pc = IF cond_doit(s.cc, i.ifun) THEN i.valC ELSE next]
          [] i.icode = "call" -> Store(down, down.reg[RSP], next, i.valC)
          [] i.icode = "ret" -> IF sp \in Address THEN [up EXCEPT !.pc = popped]
                                ELSE Fault(s, "ADR")
          [] i.icode = "pushq" -> Store(down, down.reg[RSP], valA, next)
          [] i.icode = "popq" ->
                [up EXCEPT !.pc = next, !.reg = set_reg_val(@, i.rA, popped)]
          [] OTHER -> Fault(s, "INS")

\* The register numbers are tested before they are read: whether they pass is
\* up to what the stack held.
nexti(p, s) ==
    IF s.pc \notin DOMAIN p THEN {Fault(s, "ADR")}
    ELSE {execute(s, p[s.pc])} \cup
         IF need_regs(p[s.pc]) THEN {Fault(s, "INS")} ELSE {}
-----------------------------------------------------------------------------
(* Where y64sim is known not to do what isa.c does. *)
Excuse(i, s, t) ==
    LET val == compute_alu(i.ifun, get_reg_val(s.reg, i.rA), get_reg_val(s.reg, i.rB))
    IN  CASE i.icode = "iaddq" -> "not in this instruction set"
          [] Refused(i) -> "register not asked for"
          [] ~Refused(i) /\ need_regs(i) /\ t.stat = "INS" ->
                "register numbers tested unread"
          [] i.icode = "popq" /\ s.reg[RSP] \notin Address -> "pop of an invalid address"
          [] i.icode = "opq" /\ (AsInt(val) < 0) # (val < 0) -> "sign of the lower half"
          [] OTHER -> "none"

Init ==
    /\ \E p \in Programs : /\ prog = p.code
                           /\ isa = Machine(p.image)
                           /\ seq = sim_reset(p.image)
                           /\ y64 = Machine(p.image)
    /\ excuse = "none"

\* y64sim is dropped where it first goes its own way.
Next ==
    /\ isa.stat = "AOK" /\ seq.stat = "AOK"
    /\ isa' = step_state(prog, isa)
    /\ seq' = sim_step(prog, seq)
    /\ IF excuse = "none" /\ y64.stat = "AOK"
       THEN /\ y64' \in nexti(prog, y64)
            /\ excuse' = IF y64.pc \in DOMAIN prog
                         THEN Excuse(prog[y64.pc], y64, y64') ELSE "none"
       ELSE UNCHANGED <<y64, excuse>>
    /\ UNCHANGED prog

Spec == Init /\ [][Next]_vars
-----------------------------------------------------------------------------
\* ssim's state as its next cycle finds it; once it has stopped there is no next
\* cycle, and what is pending stays so.
Shown(q) == IF q.stat = "AOK" THEN update_state(q) ELSE q

\* isa.c has stopped at an instruction that lacks a register; ssim carries it out.
LacksRegister == isa.stat = "INS" /\ isa.pc \in DOMAIN prog /\ Refused(prog[isa.pc])

\* The access of a pushq, call or popq has failed.
StackFault == /\ isa.stat = "ADR" /\ isa.pc \in DOMAIN prog
              /\ prog[isa.pc].icode \in {"pushq", "call", "popq"}

(* The sequential processor is the instruction set, up to an instruction   *)
(* without the registers isa.c asks for: after every instruction its       *)
(* memory, condition codes, program counter and status are those of isa.c, *)
(* and its registers too unless the access of a pushq, call or popq has    *)
(* failed.  Then they are those before the instruction, and isa.c has      *)
(* moved %rsp to the value ssim has pending: ssim -t (ssim.c:256) reports  *)
(* it.                                                                     *)
SeqAgrees ==
    LacksRegister \/
    /\ \A f \in DOMAIN isa \ {"reg"} : Shown(seq)[f] = isa[f]
    /\ isa.reg = IF StackFault THEN set_reg_val(Shown(seq).reg, RSP, seq.valE)
                 ELSE Shown(seq).reg

(* y64sim and isa.c, written apart, agree instruction by instruction but   *)
(* for five known differences: a pop of an invalid address, flags of a     *)
(* result whose lower half has another sign, register numbers tested       *)
(* before they are read (y64sim.c:376) and no register not refused, and    *)
(* iaddq.                                                                  *)
Y64Agrees == excuse = "none" => y64 = isa
=============================================================================
