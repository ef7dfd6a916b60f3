-------------------------------- MODULE Isa --------------------------------
(* The instruction set as a machine: isa.c's step_state, repeated while    *)
(* the status is AOK.  It is what the processors of src/lab6 are compared  *)
(* with (psim -t, ssim -t).                                                *)
EXTENDS Y86

VARIABLES prog,   \* the program, addresses to instructions
          s       \* the machine: pc, reg, mem, cc, stat

\* new_state, with whatever memory the image has left.
Init == /\ s.pc = 0
        /\ s.reg = [r \in REGS |-> 0]
        /\ s.mem \in [Address -> Word]
        /\ s.cc = DEFAULT_CC
        /\ s.stat = "AOK"

Step == /\ s.stat = "AOK"
        /\ s' = step_state(prog, s)
        /\ UNCHANGED prog

Spec == Init /\ [][Step]_<<prog, s>>
=============================================================================
