-------------------------------- MODULE Pipe --------------------------------
(* The pipelined processor of src/lab6/pipe: the control logic of          *)
(* pipe-full.hcl in the simulator psim.c, one cycle a step.                *)
(*                                                                         *)
(* A cycle writes what the last one left pending, moves the pipeline       *)
(* registers as the last one's stall and bubble signals say, and computes  *)
(* the next value of each register and signal from their current ones.     *)
(* The limits of psim -l are not reached.                                  *)
EXTENDS Y86

CONSTANT Programs     \* the programs, with the memory each starts from

\* The fields of an instruction.
Instruction == [icode : STRING, ifun : STRING, rA : REGS \cup {NONE},
                rB : REGS \cup {NONE}, valC : Word]

ASSUME PipeAssumption ==
    \A p \in Programs : /\ p.image \in [Address -> Word]
                        /\ \A a \in DOMAIN p.code :
                              /\ a + 1 \in Word /\ p.code[a] \in Instruction
                              /\ p.code[a].icode = "opq" =>
                                     p.code[a].ifun \in {"add", "sub", "and", "xor"}

VARIABLES prog,       \* the instruction memory
          reg, mem,   \* register file and data memory
          cc, cc_in,  \* the condition codes and their pending value
          curr,       \* the pipeline registers F, D, E, M and W
          next,       \* what each of them loads next
          op,         \* what each of them does next: load, stall, bubble, error
          status,     \* Stat, psim runs while it is AOK
          retired_cc  \* the condition codes when the instruction in W set them

vars == <<prog, reg, mem, cc, cc_in, curr, next, op, status, retired_cc>>

Stages == {"F", "D", "E", "M", "W"}
Exceptions == {"ADR", "INS", "HLT"}
NOP == [icode |-> "nop", ifun |-> "none", rA |-> NONE, rB |-> NONE, valC |-> 0]

bubble ==
    [F |-> [pc |-> 0, status |-> "AOK"],
     D |-> [i |-> NOP, valP |-> 0, status |-> "BUB", pc |-> 0],
     E |-> [icode |-> "nop", ifun |-> "none", valC |-> 0, valA |-> 0, valB |-> 0,
            dstE |-> NONE, dstM |-> NONE, status |-> "BUB", pc |-> 0],
     M |-> [icode |-> "nop", ifun |-> "none", cnd |-> FALSE, valE |-> 0, valA |-> 0,
            dstE |-> NONE, dstM |-> NONE, status |-> "BUB", pc |-> 0],
     W |-> [icode |-> "nop", ifun |-> "none", valE |-> 0, valM |-> 0,
            dstE |-> NONE, dstM |-> NONE, status |-> "BUB", pc |-> 0]]

Init ==
    /\ \E p \in Programs : prog = p.code /\ mem = p.image
    /\ reg = [r \in REGS |-> 0]
    /\ cc = DEFAULT_CC /\ cc_in = DEFAULT_CC /\ retired_cc = DEFAULT_CC
    /\ curr = bubble /\ next = bubble
    /\ op = [r \in Stages |-> "load"]
    /\ status = "AOK"
-----------------------------------------------------------------------------
(* Fetch.  f is the instruction fetched in the last cycle, which f_pc      *)
(* still sees.                                                             *)
is_jle(r) == r.icode = "jxx" /\ r.ifun = "le"
is_andq(r) == r.icode = "opq" /\ r.ifun = "and"

f_pc(c, f) ==
    IF is_jle(f.i) /\ is_andq(c.E) /\ c.E.valA > 0 THEN f.valP
    ELSE IF is_jle(c.M) /\ is_andq(c.W) THEN c.F.pc
    ELSE IF c.M.icode = "jxx" /\ ~c.M.cnd THEN c.M.valA
    ELSE IF c.W.icode = "ret" THEN c.W.valM
    ELSE c.F.pc

instr_valid(icode) ==
    icode \in {"nop", "halt", "rrmovq", "irmovq", "rmmovq", "mrmovq", "opq",
               "jxx", "call", "ret", "pushq", "popq", "iaddq"}

f_stat(pc, icode) ==
    IF pc \notin DOMAIN prog THEN "ADR"
    ELSE IF ~instr_valid(icode) THEN "INS"
    ELSE IF icode = "halt" THEN "HLT"
    ELSE "AOK"

f_predPC(f) == IF f.i.icode \in {"jxx", "call"} THEN f.i.valC ELSE f.valP

do_if_stage(c, f) ==
    LET pc == f_pc(c, f)
        i == IF pc \in DOMAIN prog THEN prog[pc] ELSE NOP
    IN  [i |-> i, valP |-> pc + 1, status |-> f_stat(pc, i.icode), pc |-> pc]
-----------------------------------------------------------------------------
(* Memory. *)
mem_read(M) == M.icode \in {"mrmovq", "popq", "ret"}
mem_write(M) == M.icode \in {"rmmovq", "pushq", "call"}
mem_addr(M) ==
    IF M.icode \in {"rmmovq", "pushq", "call", "mrmovq"} THEN M.valE
    ELSE IF M.icode \in {"popq", "ret"} THEN M.valA
    ELSE 0

do_mem_stage(M, m) ==
    LET valid == mem_addr(M) \in Address
    IN  [icode |-> M.icode, ifun |-> M.ifun, valE |-> M.valE,
         valM |-> IF mem_read(M) /\ valid THEN m[mem_addr(M)] ELSE 0,
         dstE |-> M.dstE, dstM |-> M.dstM,
         status |-> IF (mem_read(M) \/ mem_write(M)) /\ ~valid THEN "ADR" ELSE M.status,
         pc |-> M.pc]
-----------------------------------------------------------------------------
(* Execute. *)
aluA(E) ==
    IF E.icode \in {"rrmovq", "opq"} THEN E.valA
    ELSE IF E.icode \in {"irmovq", "rmmovq", "mrmovq", "iaddq"} THEN E.valC
    ELSE IF E.icode \in {"call", "pushq"} THEN -1
    ELSE IF E.icode \in {"ret", "popq"} THEN 1
    ELSE 0
aluB(E) ==
    IF E.icode \in {"rmmovq", "mrmovq", "opq", "call", "pushq", "ret", "popq", "iaddq"}
    THEN E.valB ELSE 0
alufun(E) == IF E.icode = "opq" THEN E.ifun ELSE "add"

\* Mutant of set_cc: flags are set behind a fault too.
set_ccAlways(E, m_stat, W_stat) == E.icode \in {"opq", "iaddq"}

set_cc(E, m_stat, W_stat) ==
    E.icode \in {"opq", "iaddq"} /\ m_stat \notin Exceptions /\ W_stat \notin Exceptions

\* takebranch; of other instructions nobody reads it.
e_Cnd(E, flags) == E.icode \in {"jxx", "rrmovq"} /\ cond_holds(flags, E.ifun)
e_dstE(E, cnd) == IF E.icode = "rrmovq" /\ ~cnd THEN NONE ELSE E.dstE

do_ex_stage(E, flags) ==
    LET cnd == e_Cnd(E, flags)
    IN  [icode |-> E.icode, ifun |-> E.ifun, cnd |-> cnd,
         valE |-> compute_alu(alufun(E), aluA(E), aluB(E)), valA |-> E.valA,
         dstE |-> e_dstE(E, cnd), dstM |-> E.dstM, status |-> E.status, pc |-> E.pc]
-----------------------------------------------------------------------------
(* Decode.  e and m are what execute and memory have just computed. *)
d_srcA(i) ==
    IF i.icode \in {"rrmovq", "rmmovq", "opq", "pushq"} THEN i.rA
    ELSE IF i.icode \in {"popq", "ret"} THEN RSP
    ELSE NONE
d_srcB(i) ==
    IF i.icode \in {"opq", "rmmovq", "mrmovq", "iaddq"} THEN i.rB
    ELSE IF i.icode \in {"pushq", "popq", "call", "ret"} THEN RSP
    ELSE NONE
d_dstE(i) ==
    IF i.icode \in {"rrmovq", "irmovq", "opq", "iaddq"} THEN i.rB
    ELSE IF i.icode \in {"pushq", "popq", "call", "ret"} THEN RSP
    ELSE NONE
d_dstM(i) == IF i.icode \in {"mrmovq", "popq"} THEN i.rA ELSE NONE

\* Mutant of Forwarded: valE of memory goes before valM, wrong for popq %rsp.
ForwardedSwapped(src, c, e, m, r) ==
    IF src = e.dstE THEN e.valE
    ELSE IF src = c.M.dstE THEN c.M.valE
    ELSE IF src = c.M.dstM THEN m.valM
    ELSE IF src = c.W.dstM THEN c.W.valM
    ELSE IF src = c.W.dstE THEN c.W.valE
    ELSE get_reg_val(r, src)

\* The youngest value of register src on its way through the pipeline.
Forwarded(src, c, e, m, r) ==
    IF src = e.dstE THEN e.valE
    ELSE IF src = c.M.dstM THEN m.valM
    ELSE IF src = c.M.dstE THEN c.M.valE
    ELSE IF src = c.W.dstM THEN c.W.valM
    ELSE IF src = c.W.dstE THEN c.W.valE
    ELSE get_reg_val(r, src)

d_valA(c, e, m, r) ==
    LET i == c.D.i
    IN  IF is_jle(i) /\ is_andq(c.E) THEN get_reg_val(r, d_srcA(i))
        ELSE IF i.icode \in {"call", "jxx"} THEN c.D.valP
        ELSE Forwarded(d_srcA(i), c, e, m, r)
d_valB(c, e, m, r) == Forwarded(d_srcB(c.D.i), c, e, m, r)

do_id_stage(c, e, m, r) ==
    [icode |-> c.D.i.icode, ifun |-> c.D.i.ifun, valC |-> c.D.i.valC,
     valA |-> d_valA(c, e, m, r), valB |-> d_valB(c, e, m, r),
     dstE |-> d_dstE(c.D.i), dstM |-> d_dstM(c.D.i),
     status |-> c.D.status, pc |-> c.D.pc]
-----------------------------------------------------------------------------
(* Pipeline register control. *)
\* Mutant of LoadUse: the load is looked for in decode, where it waits for itself.
LoadUseInDecode(c) == /\ c.D.i.icode \in {"mrmovq", "popq"}
                      /\ d_dstM(c.D.i) \in {d_srcA(c.D.i), d_srcB(c.D.i)}
LoadUse(c) == /\ c.E.icode \in {"mrmovq", "popq"}
              /\ c.E.dstM \in {d_srcA(c.D.i), d_srcB(c.D.i)}
Returning(c) == "ret" \in {c.D.i.icode, c.E.icode, c.M.icode}
Mispredicted(c, cnd) == /\ ~(is_jle(c.E) /\ is_andq(c.M))
                        /\ c.E.icode = "jxx" /\ ~cnd

\* Mutant of D_bubble: a return bubbles what a load stalls.
D_bubbleAlways(c, cnd) == Mispredicted(c, cnd) \/ Returning(c)

F_stall(c) == LoadUse(c) \/ Returning(c)
D_stall(c) == LoadUse(c)
D_bubble(c, cnd) == Mispredicted(c, cnd) \/ (~LoadUse(c) /\ Returning(c))
E_bubble(c, cnd) == Mispredicted(c, cnd) \/ LoadUse(c)
M_bubble(m_stat, W_stat) == m_stat \in Exceptions \/ W_stat \in Exceptions
W_stall(W_stat) == W_stat \in Exceptions

pipe_cntl(stall, bubbled) ==
    IF stall THEN IF bubbled THEN "error" ELSE "stall"
    ELSE IF bubbled THEN "bubble" ELSE "load"

do_stall_check(c, cnd, m_stat) ==
    [F |-> pipe_cntl(F_stall(c), FALSE),
     D |-> pipe_cntl(D_stall(c), D_bubble(c, cnd)),
     E |-> pipe_cntl(FALSE, E_bubble(c, cnd)),
     M |-> pipe_cntl(FALSE, M_bubble(m_stat, c.W.status)),
     W |-> pipe_cntl(W_stall(c.W.status), FALSE)]
-----------------------------------------------------------------------------
update_pipes ==
    [r \in Stages |->
        IF op[r] = "load" THEN next[r]
        ELSE IF op[r] = "stall" THEN curr[r]
        ELSE IF op[r] = "bubble" THEN bubble[r]
        ELSE [bubble[r] EXCEPT !.status = "PIP"]]

\* update_state: the write back of W, valM last, and the store of M.
WriteBack == set_reg_val(set_reg_val(reg, curr.W.dstE, curr.W.valE),
                         curr.W.dstM, curr.W.valM)
Stored == IF mem_write(curr.M)
          THEN set_word_val(mem, mem_addr(curr.M), curr.M.valA) ELSE mem

sim_step_pipe ==
    LET c == update_pipes
        f == do_if_stage(c, next.D)
        m == do_mem_stage(c.M, Stored)
        e == do_ex_stage(c.E, cc_in)
        d == do_id_stage(c, e, m, WriteBack)
    IN  /\ status = "AOK"
        /\ reg' = WriteBack
        /\ mem' = Stored
        /\ cc' = cc_in
        /\ retired_cc' = cc
        /\ curr' = c
        /\ next' = [F |-> [pc |-> f_predPC(f),
                           status |-> IF f.status = "AOK" THEN "AOK" ELSE "BUB"],
                    D |-> f, E |-> d, M |-> e, W |-> m]
        /\ cc_in' = IF set_cc(c.E, m.status, c.W.status)
                    THEN compute_cc(alufun(c.E), aluA(c.E), aluB(c.E)) ELSE cc_in
        /\ op' = do_stall_check(c, e.cnd, m.status)
        /\ status' = IF c.W.status = "BUB" THEN "AOK" ELSE c.W.status
        /\ UNCHANGED prog

Spec == Init /\ [][sim_step_pipe]_vars /\ WF_vars(sim_step_pipe)
-----------------------------------------------------------------------------
(* The machine an observer of the instruction in W sees. *)

\* The instruction after it: the oldest on its way, or the one fetched last.
Behind == LET Coming == <<curr.M, curr.E, curr.D, next.D>>
              Real == {k \in 1 .. 4 : Coming[k].status # "BUB"}
          IN  IF Real = {} THEN curr.F.pc ELSE Coming[Min(Real)].pc

\* psim stops before the faulting instruction is written back.
Visible == IF curr.W.status \in {"AOK", "BUB"} THEN WriteBack ELSE reg

Machine == [pc |-> IF status = "AOK" THEN Behind ELSE curr.W.pc,
            reg |-> Visible, mem |-> mem, cc |-> retired_cc, stat |-> status]

I == INSTANCE Isa WITH s <- Machine

(* The programs the control logic is right for: there are the registers    *)
(* isa.c asks for (it stops where psim reads 0 or writes nothing), an      *)
(* operand has a register and a base is given, for RNONE equals RNONE when *)
(* values are forwarded, and andq before jle tests one register, for the   *)
(* short cut looks at one (pipe-full.hcl 146, 228-258; ncopy.ys is of this *)
(* kind).                                                                  *)
Regular(p) ==
    \A a \in DOMAIN p :
        /\ ~Refused(p[a])
        /\ p[a].icode = "opq" => p[a].rA # NONE
        /\ p[a].icode \in {"opq", "rmmovq", "mrmovq"} => p[a].rB # NONE
        /\ is_andq(p[a]) /\ a + 1 \in DOMAIN p /\ is_jle(p[a + 1]) => p[a].rA = p[a].rB

(* What psim leaves where isa.c goes from t to u.  When the access of a    *)
(* pushq, call or popq fails isa.c has moved %rsp already (isa.c:838, 875, *)
(* 898) and psim stops with it unmoved (psim.c:760): there, and only       *)
(* there, the registers differ, and psim -t reports it.                    *)
Left(t, u) == IF u.stat = "ADR" THEN [u EXCEPT !.reg = t.reg] ELSE u

(* The pipeline executes the instruction set on Regular programs: each     *)
(* instruction that reaches write back has done to registers, memory,      *)
(* condition codes, program counter and status what isa.c's step_state     *)
(* does, but for the %rsp of a failed access, whatever was forwarded,      *)
(* stalled, predicted or thrown away on its way.                           *)
Implements ==
    /\ I!Init
    /\ [][/\ Machine.stat = "AOK"
          /\ Machine' = Left(Machine, step_state(prog, Machine))
          /\ UNCHANGED prog]_<<prog, Machine>>

(* No register is told to stall and to take a bubble at once, which        *)
(* pipe_cntl takes for an error of the control logic (psim.c:1583).        *)
NoConflict == \A r \in Stages : op[r] # "error"

(* When psim stops at a halt or a fault nothing behind that instruction    *)
(* has touched the condition codes: psim -t compares the last ones set.    *)
Precise == status # "AOK" => cc = retired_cc

(* The pipeline never holds its breath for ever: while psim runs,          *)
(* instructions keep reaching write back.                                  *)
Progress == []<>(status # "AOK" \/ curr.W.status # "BUB")
=============================================================================
