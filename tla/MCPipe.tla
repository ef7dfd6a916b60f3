------------------------------- MODULE MCPipe -------------------------------
(* Programs for the pipeline: three instructions in every combination.     *)
(* Apart from them are the two patterns the pipeline gets wrong: andq of   *)
(* two registers before jle, and an access without a base register.  In    *)
(* the place of MCPrograms either makes Implements fail, and so does an    *)
(* instruction that isa.c refuses.                                         *)
EXTENDS Pipe

INSTANCE MCCode

Body ==
    {Plain("ret"), Plain("bad"), Plain("halt"), Call(4), Push("rax"),
     Pop("rax"), Pop("rsp"), Get("rax", "rsp", 0), Get("rsp", "rsp", -1),
     Save("rsp", "rax", 2), Move("le", "rax", "rcx"), Move("yes", "rcx", "rax"),
     Add(5, "rax"), Op("sub", "rax", "rcx"), Op("and", "rax", "rax"),
     Jump("le", 2), Jump("le", 5), Jump("ne", 4), Jump("yes", 5)}

MCPrograms == {Program(b) : b \in Body \X Body \X Body}

MCAndJle == {Program(<<Put(val, "rcx"), Op("and", a, b), Jump("le", target)>>) :
                val \in {1, 2}, a \in {"rax", "rcx"}, b \in {"rax", "rcx"},
                target \in {2, 5}}
MCAbsolute == {Program(<<y, x, Get("rcx", b, 1)>>) :
                x \in {Save("rax", "rsp", 0), Get("rax", "rsp", 0)},
                y \in {Plain("nop"), Op("sub", "rax", "rax")}, b \in {NONE, "rsp"}}

\* The programs of the run are among those of the theorem, the others are not.
ASSUME MCRegular == /\ \A p \in MCPrograms : Regular(p.code)
                    /\ \E p \in MCAndJle : ~Regular(p.code)
                    /\ \E p \in MCAbsolute : ~Regular(p.code)
=============================================================================
