-------------------------------- MODULE Yas --------------------------------
(* The other Y86-64 assembler, src/lab6/misc/yas.c, on the input of the    *)
(* first: it reads the file twice, for the labels and then for the code.   *)
(* It was written apart, and what the two make of a file should be equal.  *)
EXTENDS Asm

CONSTANT LIMIT           \* the highest address print_code writes, 0xFFFF

ASSUME YasAssumption == LIMIT \in Nat

VARIABLES pass,          \* 1 or 2, or 3 when the program has ended
          lineno,        \* the next line
          bytepos,       \* its address
          symbol_table,  \* the labels, in the order they were met
          hit_error,     \* an error has been reported
          outfile        \* the lines of the .yo file: address and code

yas_vars == <<pass, lineno, bytepos, symbol_table, hit_error, outfile>>
-----------------------------------------------------------------------------
\* Names yas looks for in the tables: of two labels it finds the first.
Symbol(name) == SelectInSeq(symbol_table, LAMBDA sym : sym.name = name)

\* Where a line leaves bytepos.  An instruction without operands it can read
\* has its size all the same: it is the jmp of the first assembler.
Size(l) == instr_set[IF l.op = "bad" THEN "jmp" ELSE l.op].bytes
Past(l) == CASE l.op \in {NONE, "unknown"} -> bytepos
             [] l.op = "pos" -> l.val
             [] l.op = "align" -> ((bytepos + l.val - 1) \div l.val) * l.val
             [] OTHER -> bytepos + Size(l)

\* Where print_code says the line is.
Printed(l) == IF l.op \in {"pos", "align"} THEN Past(l) ELSE bytepos

\* print_code gives up on a line with tokens behind the limit.
Exceeds(l) == (l.label # NONE \/ l.op # NONE) /\ Printed(l) > LIMIT

\* get_num fails: there is no number and no label, or one nobody defined.
NoNumber(l) == l.op = "bad" \/ (l.sym # NONE /\ Symbol(l.sym) = 0)

\* The bytes of a line; of a failed one nobody looks at them.
Encoded(l) ==
    LET val == IF l.sym = NONE THEN l.val ELSE symbol_table[Symbol(l.sym)].addr
    IN  IF NoNumber(l) THEN << >>
        ELSE CASE l.op \in {NONE, "pos", "align"} -> << >>
               [] l.op = "nop" -> <<16>>
               [] l.op = "jmp" -> <<112>> \o Bytes(val, 8)
               [] l.op = "irmovq" -> <<48, 240>> \o Bytes(val, 8)
               [] l.op \in Data -> Bytes(val, Size(l))

yas_init == /\ pass = 1 /\ lineno = 1 /\ bytepos = 0
            /\ symbol_table = << >> /\ hit_error = FALSE /\ outfile = << >>

\* finish_line in the first pass.  A label counts even if the rest is bad.
label_line ==
    /\ pass = 1 /\ lineno <= Len(file)
    /\ LET l == file[lineno]
       IN  /\ symbol_table' = IF l.label = NONE THEN symbol_table
                  ELSE Append(symbol_table, [name |-> l.label, addr |-> bytepos])
           /\ hit_error' = (hit_error \/ l.op = "unknown")
           /\ bytepos' = Past(l)
    /\ lineno' = lineno + 1
    /\ UNCHANGED <<pass, outfile>>

\* Mutant of between_passes: the second pass starts where the first ended.
between_passes_on == /\ pass = 1 /\ lineno > Len(file)
                     /\ pass' = IF hit_error THEN 3 ELSE 2
                     /\ lineno' = 1
                     /\ UNCHANGED <<bytepos, symbol_table, hit_error, outfile>>
between_passes == /\ pass = 1 /\ lineno > Len(file)
                  /\ pass' = IF hit_error THEN 3 ELSE 2
                  /\ lineno' = 1 /\ bytepos' = 0
                  /\ UNCHANGED <<symbol_table, hit_error, outfile>>

\* finish_line in the second pass.  Errors do not keep it from going on.
code_line ==
    /\ pass = 2 /\ lineno <= Len(file)
    /\ ~Exceeds(file[lineno])
    /\ LET l == file[lineno]
       IN  /\ outfile' = Append(outfile, [addr |-> Printed(l), codes |-> Encoded(l)])
           /\ hit_error' = (hit_error \/ NoNumber(l))
           /\ bytepos' = Past(l)
    /\ lineno' = lineno + 1
    /\ UNCHANGED <<pass, symbol_table>>

\* But print_code ends the program there and then.
limit_exceeded == /\ pass = 2 /\ lineno <= Len(file)
                  /\ Exceeds(file[lineno])
                  /\ pass' = 3 /\ hit_error' = TRUE
                  /\ UNCHANGED <<lineno, bytepos, symbol_table, outfile>>

finished == /\ pass = 2 /\ lineno > Len(file)
            /\ pass' = 3
            /\ UNCHANGED <<lineno, bytepos, symbol_table, hit_error, outfile>>

yas == label_line \/ between_passes \/ code_line \/ limit_exceeded \/ finished
-----------------------------------------------------------------------------
(* The user gives a file to one assembler and then to the other.           *)
InitBoth == Init /\ yas_init
NextBoth == \/ Next /\ UNCHANGED yas_vars
            \/ pc \in {"done", "error", "overrun"} /\ yas /\ UNCHANGED vars
SpecBoth == InitBoth /\ [][NextBoth]_<<vars, yas_vars>>
            /\ WF_<<vars, yas_vars>>(NextBoth)

\* Lines both can read whose symbols have labels.
Readable == \A i \in DOMAIN file :
                /\ file[i].op \notin {"bad", "unknown"}
                /\ file[i].sym # NONE => Labelled(file[i].sym) # {}

\* No line is behind the limit; .pos and .align are where they move to.
Low == \A i \in DOMAIN file :
          file[i].label # NONE \/ file[i].op # NONE =>
              Start[IF file[i].op \in {"pos", "align"} THEN i + 1 ELSE i] <= LIMIT

At(line) == [a \in line.addr .. line.addr + Len(line.codes) - 1 |->
                line.codes[a - line.addr + 1]]

(* Both assemblers write the same bytes at the same addresses for whatever *)
(* y64asm takes, if no line is behind the limit of yas (and but for .pos   *)
(* that goes back and symbols in a .long).  Within the limit yas takes     *)
(* more, a label twice, a symbol in a byte and a number to jump to, and no *)
(* input that cannot be read; what it writes is what the input means, its  *)
(* two passes giving every line the same address (finish_line, print_code).*)
AssemblersAgree ==
    pass = 3 =>
        /\ ~hit_error <=> Readable /\ Low
        /\ ~hit_error =>
             /\ Len(outfile) = Len(file)
             /\ \A i \in DOMAIN file : At(outfile[i]) = Emitted(i)
        /\ pc = "done" =>
             /\ Low => ~hit_error
             /\ Low /\ Forward /\ Wide =>
                  /\ DOMAIN image = UNION {DOMAIN At(outfile[i]) : i \in DOMAIN outfile}
                  /\ \A i \in DOMAIN outfile : \A a \in DOMAIN At(outfile[i]) :
                        image[a] = outfile[i].codes[a - outfile[i].addr + 1]
=============================================================================
