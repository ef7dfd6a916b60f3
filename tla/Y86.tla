-------------------------------- MODULE Y86 --------------------------------
(* What the Y86-64 tools of src/lab6 share: words, registers, memory, the  *)
(* ALU, the conditions, and the instruction set as isa.c executes it.      *)
(*                                                                         *)
(* An instruction is a record at an address of its own: the address of the *)
(* next one is one more.  Data memory is counted in words, so a step of 8  *)
(* bytes is a step of 1, and it is apart from the program.                 *)
EXTENDS Integers, FiniteSetsExt

CONSTANTS WIDTH,      \* bits of a word, 64 in the code
          REGS,       \* the registers
          RSP,        \* the stack pointer, one of them
          NONE,       \* REG_NONE, no register
          MEM_SIZE    \* words of data memory

ASSUME Y86Assumption == /\ WIDTH \in Nat \ {0}
                        /\ RSP \in REGS /\ NONE \notin REGS
                        /\ MEM_SIZE \in Nat \ {0}

\* Powers and folds are opaque to the provers: what they need to know of them.
ASSUME PowersAssumption ==
    /\ 2 ^ (WIDTH - 1) \in Nat \ {0}
    /\ \A B \in SUBSET (0 .. WIDTH - 1) : SumSet({2 ^ i : i \in B}) \in Int
-----------------------------------------------------------------------------
HALF == 2 ^ (WIDTH - 1)
Word == -HALF .. HALF - 1
Wrap(n) == ((n + HALF) % (2 * HALF)) - HALF
Address == 0 .. MEM_SIZE - 1

Bit(a, i) == (a \div 2 ^ i) % 2
OfBits(B) == Wrap(SumSet({2 ^ i : i \in B}))
BitAnd(a, b) == OfBits({i \in 0 .. WIDTH - 1 : Bit(a, i) = 1 /\ Bit(b, i) = 1})
BitXor(a, b) == OfBits({i \in 0 .. WIDTH - 1 : Bit(a, i) # Bit(b, i)})

\* The bits that a word has in common with itself are the word.
ASSUME BitsAssumption == \A a \in Word : BitAnd(a, a) = a

get_reg_val(r, id) == IF id = NONE THEN 0 ELSE r[id]
set_reg_val(r, id, val) == IF id = NONE THEN r ELSE [r EXCEPT ![id] = val]
set_word_val(m, pos, val) == IF pos \in Address THEN [m EXCEPT ![pos] = val] ELSE m

(* What the ALU does with A and B, and the flags the result leaves. *)
compute_alu(op, a, b) ==
    CASE op = "add" -> Wrap(a + b)
      [] op = "sub" -> Wrap(b - a)
      [] op = "and" -> BitAnd(a, b)
      [] op = "xor" -> BitXor(a, b)

compute_cc(op, a, b) ==
    LET val == compute_alu(op, a, b)
    IN  [z |-> val = 0,
         s |-> val < 0,
         o |-> \/ op = "add" /\ (a < 0) = (b < 0) /\ (val < 0) # (a < 0)
               \/ op = "sub" /\ (a > 0) = (b < 0) /\ (val < 0) # (b < 0)]

DEFAULT_CC == [z |-> TRUE, s |-> FALSE, o |-> FALSE]

cond_holds(cc, cond) ==
    CASE cond = "yes" -> TRUE
      [] cond = "le" -> cc.s # cc.o \/ cc.z
      [] cond = "l" -> cc.s # cc.o
      [] cond = "e" -> cc.z
      [] cond = "ne" -> ~cc.z
      [] cond = "ge" -> cc.s = cc.o
      [] cond = "g" -> cc.s = cc.o /\ ~cc.z
      [] OTHER -> FALSE
-----------------------------------------------------------------------------
(* One instruction of program p, executed at once. *)
Fault(s, stat) == [s EXCEPT !.stat = stat]

Load(s, id, addr) ==
    IF addr \in Address
    THEN [s EXCEPT !.reg = set_reg_val(@, id, s.mem[addr]), !.pc = @ + 1]
    ELSE Fault(s, "ADR")

Store(s, addr, val, pc) ==
    IF addr \in Address
    THEN [s EXCEPT !.mem[addr] = val, !.pc = pc]
    ELSE Fault(s, "ADR")

\* The stack pointer has moved by n when the access is tried.
MoveStack(s, n) == [s EXCEPT !.reg[RSP] = Wrap(n + @)]

Operate(s, op, a, b, id) ==
    [s EXCEPT !.reg = set_reg_val(@, id, compute_alu(op, a, b)),
              !.cc = compute_cc(op, a, b), !.pc = @ + 1]

I_JMP(s, cond, dest) ==
    [s EXCEPT !.pc = IF cond_holds(s.cc, cond) THEN dest ELSE @ + 1]

I_CALL(s, dest) ==
    LET down == MoveStack(s, -1)
    IN  Store(down, down.reg[RSP], s.pc + 1, dest)

I_RET(s) ==
    LET sp == s.reg[RSP]
    IN  IF sp \in Address
        THEN [MoveStack(s, 1) EXCEPT !.pc = s.mem[sp]]
        ELSE Fault(s, "ADR")

I_PUSHQ(s, val) ==
    LET down == MoveStack(s, -1)
    IN  Store(down, down.reg[RSP], val, s.pc + 1)

I_POPQ(s, id) == Load(MoveStack(s, 1), id, s.reg[RSP])

(* Instructions without a register where isa.c asks for a valid one (opq   *)
(* and the base of an address are not asked).                              *)
reg_valid(id) == id # NONE
Refused(i) ==
    \/ /\ i.icode \in {"rrmovq", "rmmovq", "mrmovq", "pushq", "popq"}
       /\ ~reg_valid(i.rA)
    \/ i.icode \in {"rrmovq", "irmovq", "iaddq"} /\ ~reg_valid(i.rB)

step_state(p, s) ==
    IF s.pc \notin DOMAIN p THEN Fault(s, "ADR")
    ELSE IF Refused(p[s.pc]) THEN Fault(s, "INS") ELSE
    LET i == p[s.pc]
        valA == get_reg_val(s.reg, i.rA)
        valB == get_reg_val(s.reg, i.rB)
        next == s.pc + 1
    IN  CASE i.icode = "nop" -> [s EXCEPT !.pc = next]
          [] i.icode = "halt" -> Fault(s, "HLT")
          [] i.icode = "rrmovq" ->
                [s EXCEPT !.pc = next,
                          !.reg = IF cond_holds(s.cc, i.ifun)
                                  THEN set_reg_val(@, i.rB, valA) ELSE @]
          [] i.icode = "irmovq" ->
                [s EXCEPT !.pc = next, !.reg = set_reg_val(@, i.rB, i.valC)]
          [] i.icode = "rmmovq" -> Store(s, Wrap(i.valC + valB), valA, next)
          [] i.icode = "mrmovq" -> Load(s, i.rA, Wrap(i.valC + valB))
          [] i.icode = "opq" -> Operate(s, i.ifun, valA, valB, i.rB)
          [] i.icode = "iaddq" -> Operate(s, "add", i.valC, valB, i.rB)
          [] i.icode = "jxx" -> I_JMP(s, i.ifun, i.valC)
          [] i.icode = "call" -> I_CALL(s, i.valC)
          [] i.icode = "ret" -> I_RET(s)
          [] i.icode = "pushq" -> I_PUSHQ(s, valA)
          [] i.icode = "popq" -> I_POPQ(s, i.rA)
          [] OTHER -> Fault(s, "INS")
=============================================================================
