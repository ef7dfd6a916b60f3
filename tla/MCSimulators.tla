---------------------------- MODULE MCSimulators ----------------------------
(* Programs for the simulators: three instructions in every combination.   *)
EXTENDS Simulators

INSTANCE MCCode

Body ==
    {Plain("nop"), Plain("ret"), Plain("bad"), Plain("halt"), Call(4),
     Push("rax"), Push("rsp"), Pop("rax"), Pop("rsp"), Get("rax", "rsp", 0),
     Get("rsp", "rax", 2), Save("rsp", "rax", 2), Save("rax", NONE, 0),
     Get(NONE, "rsp", 0), Move("yes", "rax", NONE),
     Move("le", "rax", "rcx"), Move("g", "rcx", "rax"), Add(5, "rax"), Put(-8, "rcx"),
     Op("add", "rax", "rax"), Op("sub", "rax", "rcx"), Op("sub", "rcx", "rax"),
     Op("and", "rax", "rcx"), Op("xor", "rcx", "rax"),
     Jump("le", 2), Jump("l", 5), Jump("e", 2), Jump("ne", 4), Jump("ge", 5),
     Jump("g", 6), Jump("yes", 5)}

MCPrograms == {Program(b) : b \in Body \X Body \X Body}
=============================================================================
