------------------------------- MODULE MCCode -------------------------------
(* Y86-64 programs for the model checker: a prologue that gives the        *)
(* registers values, a body, and a halt.                                   *)
EXTENDS Integers, Sequences, TLC

CONSTANT NONE

Instr(icode, ifun, rA, rB, valC) ==
    [icode |-> icode, ifun |-> ifun, rA |-> rA, rB |-> rB, valC |-> valC]
Plain(icode) == Instr(icode, "none", NONE, NONE, 0)
Jump(cond, target) == Instr("jxx", cond, NONE, NONE, target)
Put(val, id) == Instr("irmovq", "none", NONE, id, val)
Op(f, a, b) == Instr("opq", f, a, b, 0)
Add(val, id) == Instr("iaddq", "none", NONE, id, val)
Move(cond, a, b) == Instr("rrmovq", cond, a, b, 0)
Get(rA, rB, offset) == Instr("mrmovq", "none", rA, rB, offset)
Save(rA, rB, offset) == Instr("rmmovq", "none", rA, rB, offset)
Push(rA) == Instr("pushq", "none", rA, NONE, 0)
Pop(rA) == Instr("popq", "none", rA, NONE, 0)
Call(target) == Instr("call", "none", NONE, NONE, target)

Prologue == <<Put(1, "rsp"), Put(-1, "rax")>>
Image == (0 :> 4) @@ (1 :> 3) @@ (2 :> -2)
Program(b) ==
    LET q == Prologue \o b \o <<Plain("halt")>>
    IN  [code |-> [a \in 0 .. Len(q) - 1 |-> q[a + 1]], image |-> Image]
=============================================================================
