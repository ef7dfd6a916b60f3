-------------------------------- MODULE Asm --------------------------------
(* The Y86-64 assembler of src/lab5/y64asm.c: lines are parsed one by one, *)
(* with a symbol for each label and a relocation for each use of one; then *)
(* the uses are filled in, and the bytes are put into an image, which is   *)
(* written.  A line of the input is a record of tokens; a byte is a number.*)
EXTENDS Integers, Sequences, SequencesExt, FiniteSets

CONSTANTS Files,      \* the inputs: sequences of lines
          UPPER       \* weight of the upper half of an address, 2^32

NONE == "none"        \* no label, no instruction, or no symbol

(* instr_set: the first byte and the number of bytes of an instruction.    *)
instr_set == [nop    |-> [code |-> 16, bytes |-> 1],
              irmovq |-> [code |-> 48, bytes |-> 10],
              jmp    |-> [code |-> 112, bytes |-> 9],
              byte   |-> [code |-> 192, bytes |-> 1],
              long   |-> [code |-> 192, bytes |-> 4],
              quad   |-> [code |-> 192, bytes |-> 8],
              pos    |-> [code |-> 193, bytes |-> 0],
              align  |-> [code |-> 194, bytes |-> 0]]
Data == {"byte", "long", "quad"}

\* A line: its label, the instruction ("bad" if its operands cannot be read,
\* "unknown" if it is none), and its symbol or number.
InputLine == [label : STRING, op : DOMAIN instr_set \cup {NONE, "bad", "unknown"},
              sym : STRING, val : Int]

\* Addresses are not negative, and .align divides by its number.  Byte cuts the
\* numbers and addresses at 256 ^ SMALL: they are to stay under it.
ASSUME AsmAssumption ==
    /\ UPPER \in Nat \ {0}
    /\ \A f \in Files :
          /\ f \in Seq(InputLine)
          /\ \A i \in DOMAIN f :
                /\ f[i].sym # NONE => f[i].op \in {"jmp", "irmovq"} \cup Data
                /\ f[i].op = "pos" => f[i].val >= 0
                /\ f[i].op = "align" => f[i].val > 0

VARIABLES file,       \* the input, fixed
          pc,         \* where main is
          lines,      \* the list of lines, each with its address and bytes
          vmaddr,     \* the address of the next line
          symtab,     \* the symbols, in the order they were met
          reltab,     \* the relocations not done yet
          placed,     \* lines whose bytes are in the image
          image,      \* the bytes of the image that have been written
          bytes_sum   \* bytes of the image that go to the file

vars == <<file, pc, lines, vmaddr, symtab, reltab, placed, image, bytes_sum>>
-----------------------------------------------------------------------------
\* The bytes of a value, the lowest first.  Values stay under 256 ^ SMALL.
SMALL == 3
Byte(val, k) == IF k < SMALL THEN (val \div 256 ^ k) % 256 ELSE 0
Bytes(val, n) == [k \in 1 .. n |-> Byte(val, k - 1)]

find_symbol(name) == SelectInSeq(symtab, LAMBDA sym : sym.name = name)

Aligned(addr, val) == IF addr % val = 0 THEN addr ELSE addr + (val - (addr % val))

(* Where a line leaves vmaddr: its bytes, and .pos and .align.             *)
Advance(l) == CASE l.op = NONE -> vmaddr
                [] l.op = "pos" -> l.val
                [] l.op = "align" -> Aligned(vmaddr, l.val)
                [] OTHER -> vmaddr + instr_set[l.op].bytes

(* The address of a line: .pos and .align take the one they move to.       *)
LineAddress(l) == IF l.op \in {"pos", "align"} THEN Advance(l) ELSE vmaddr

(* The bytes of a line before relocation: zeros where a symbol goes, and   *)
(* in .long and .quad the instruction's code until something is put there. *)
Codes(l) ==
    LET inst == instr_set[l.op]
        operand == IF l.sym = NONE THEN Bytes(l.val, 8) ELSE Bytes(0, 8)
    IN  CASE l.op \in {NONE, "pos", "align"} -> << >>
          [] l.op \in {"nop"} -> <<inst.code>>
          [] l.op = "jmp" -> <<inst.code>> \o operand
          [] l.op = "irmovq" -> <<inst.code, 240>> \o operand
          [] l.op \in Data -> IF l.sym = NONE THEN Bytes(l.val, inst.bytes)
                              ELSE <<inst.code>> \o Bytes(0, inst.bytes - 1)

\* Mutant of Duplicate: a label may be defined again.
DuplicateNever(l) == FALSE
Duplicate(l) == l.label # NONE /\ find_symbol(l.label) # 0

(* What parse_line rejects: a label met before, no instruction, an operand *)
(* that cannot be read, a number to jump to, and a symbol in a datum of    *)
(* fewer than 4 bytes.                                                     *)
Rejected(l) == \/ Duplicate(l)
               \/ l.op \in {"bad", "unknown"}
               \/ l.op = "jmp" /\ l.sym = NONE
               \/ l.op \in Data /\ l.sym # NONE /\ instr_set[l.op].bytes < 4

\* Mutant of Use: only the symbols known already are relocated.
UseOfKnown(l, at) == IF l.sym = NONE \/ find_symbol(l.sym) = 0 THEN << >>
                     ELSE << [name |-> l.sym, line |-> at] >>
Use(l, at) == IF l.sym = NONE THEN << >> ELSE << [name |-> l.sym, line |-> at] >>

Init == /\ file \in Files
        /\ pc = "assemble"
        /\ lines = << >> /\ symtab = << >> /\ reltab = << >>
        /\ vmaddr = 0
        /\ placed = 0 /\ image = << >> /\ bytes_sum = 0

Fail == /\ pc' = "error"
        /\ UNCHANGED <<file, lines, vmaddr, symtab, reltab, placed, image, bytes_sum>>

(* The next line is parsed.  Its label gets the address before it, and its *)
(* own label is known when its operands are read.                          *)
parse_line ==
    /\ pc = "assemble" /\ Len(lines) < Len(file)
    /\ LET l == file[Len(lines) + 1]
       IN  /\ ~Rejected(l)
           /\ symtab' = IF l.label = NONE THEN symtab
                        ELSE Append(symtab, [name |-> l.label, addr |-> vmaddr])
           /\ lines' = Append(lines, [addr |-> LineAddress(l), codes |-> Codes(l)])
           /\ vmaddr' = Advance(l)
           /\ reltab' = reltab \o Use(l, Len(lines) + 1)
    /\ UNCHANGED <<file, pc, placed, image, bytes_sum>>

parse_error == /\ pc = "assemble" /\ Len(lines) < Len(file)
               /\ Rejected(file[Len(lines) + 1])
               /\ Fail

end_of_file == /\ pc = "assemble" /\ Len(lines) = Len(file)
               /\ pc' = "relocate"
               /\ UNCHANGED <<file, lines, vmaddr, symtab, reltab, placed, image,
                              bytes_sum>>
-----------------------------------------------------------------------------
(* The 4 bytes of a relocation start 8 bytes before the end of the line.   *)
(* A .long has only 4: they end up before its bytes, in the upper half of  *)
(* the line's address.                                                     *)
Relocated(line, addr) ==
    LET at == Len(line.codes) - 8
    IN  IF at < 0 THEN [line EXCEPT !.addr = @ + UPPER * addr]
        ELSE [line EXCEPT !.codes = SubSeq(@, 1, at) \o Bytes(addr, 4)
                                           \o SubSeq(@, at + 5, Len(@))]

relocate ==
    /\ pc = "relocate" /\ reltab # << >>
    /\ LET rel == Head(reltab)
           s == find_symbol(rel.name)
       IN  /\ s # 0
           /\ lines' = [lines EXCEPT ![rel.line] = Relocated(@, symtab[s].addr)]
    /\ reltab' = Tail(reltab)
    /\ UNCHANGED <<file, pc, vmaddr, symtab, placed, image, bytes_sum>>

relocate_error == /\ pc = "relocate" /\ reltab # << >>
                  /\ find_symbol(Head(reltab).name) = 0
                  /\ Fail

relocated == /\ pc = "relocate" /\ reltab = << >>
             /\ pc' = "binfile"
             /\ UNCHANGED <<file, lines, vmaddr, symtab, reltab, placed, image,
                            bytes_sum>>

(* Whether the bytes of a line lie in the image, which has been allocated  *)
(* with as many bytes as the last line's vmaddr says.                      *)
Inside(line) == line.codes # << >> => line.addr + Len(line.codes) <= vmaddr

(* One line goes into the image; the last line with bytes ends the file.   *)
binfile ==
    /\ pc = "binfile" /\ placed < Len(lines)
    /\ Inside(lines[placed + 1])
    /\ LET line == lines[placed + 1]
           n == Len(line.codes)
           at == line.addr .. line.addr + n - 1
       IN  /\ image' = [a \in DOMAIN image \cup at |->
                          IF a \in at THEN line.codes[a - line.addr + 1] ELSE image[a]]
           /\ bytes_sum' = IF n = 0 THEN bytes_sum ELSE line.addr + n
    /\ placed' = placed + 1
    /\ UNCHANGED <<file, pc, lines, vmaddr, symtab, reltab>>

(* A line is written outside the image.  What becomes of the heap, of the  *)
(* file and of the program itself is undetermined: no step is left.        *)
binfile_overrun == /\ pc = "binfile" /\ placed < Len(lines)
                   /\ ~Inside(lines[placed + 1])
                   /\ pc' = "overrun"
                   /\ UNCHANGED <<file, lines, vmaddr, symtab, reltab, placed, image,
                                  bytes_sum>>

written == /\ pc = "binfile" /\ placed = Len(lines)
           /\ pc' = "done"
           /\ UNCHANGED <<file, lines, vmaddr, symtab, reltab, placed, image,
                          bytes_sum>>

Next == \/ parse_line \/ parse_error \/ end_of_file
        \/ relocate \/ relocate_error \/ relocated
        \/ binfile \/ binfile_overrun \/ written

Spec == Init /\ [][Next]_vars /\ WF_vars(Next)
-----------------------------------------------------------------------------
(* What the input means, read as a whole: where each line is, what each    *)
(* label stands for, and the bytes, with no relocation.                    *)
After(l, past) ==                                 \* a line l that starts at past
    CASE l.op \in DOMAIN instr_set \ {"pos", "align"} -> past + instr_set[l.op].bytes
      [] l.op = "pos" -> l.val
      [] l.op = "align" -> CHOOSE a \in past .. past + l.val - 1 : a % l.val = 0
      [] OTHER -> past
Start[i \in 1 .. Len(file) + 1] ==                  \* where line i starts
    IF i = 1 THEN 0 ELSE After(file[i - 1], Start[i - 1])

Labelled(name) == {i \in DOMAIN file : file[i].label = name}
ValueOf(l) == IF l.sym = NONE THEN l.val
              ELSE Start[CHOOSE i \in Labelled(l.sym) : \A j \in Labelled(l.sym) : i <= j]

(* The bytes of line i by address.                                         *)
Emitted(i) ==
    LET l == file[i]
        s == Start[i]
        Field(first, n) == [a \in first .. first + n - 1 |->
                              Byte(ValueOf(l), a - first)]
        With(f, a, b) == [x \in DOMAIN f \cup {a} |-> IF x = a THEN b ELSE f[x]]
    IN  CASE l.op = "nop" -> [a \in {s} |-> 16]
          [] l.op = "jmp" -> With(Field(s + 1, 8), s, 112)
          [] l.op = "irmovq" -> With(With(Field(s + 2, 8), s, 48), s + 1, 240)
          [] l.op \in Data -> Field(s, instr_set[l.op].bytes)
          [] OTHER -> << >>

WellFormed == /\ \A i \in DOMAIN file :
                    /\ file[i].op \notin {"bad", "unknown"}
                    /\ file[i].op = "byte" => file[i].sym = NONE
                    /\ file[i].op = "jmp" => file[i].sym # NONE
              /\ \A i \in DOMAIN file : file[i].label # NONE =>
                                            Cardinality(Labelled(file[i].label)) = 1
              /\ \A i \in DOMAIN file : file[i].sym # NONE => Labelled(file[i].sym) # {}

(* What the assembler takes for granted: .pos never goes back to bytes     *)
(* already given, and a symbol's value goes into 8 bytes.                  *)
Forward == \A i \in DOMAIN file : file[i].op = "pos" => Start[i] <= file[i].val
Wide == \A i \in DOMAIN file : file[i].op = "long" => file[i].sym = NONE

(* The inputs binfile has an image for: no line ends behind the last one,  *)
(* and a .long with a symbol keeps its address, the symbol being 0.        *)
Fits == \A i \in DOMAIN file :
           /\ file[i].op \notin {NONE, "pos", "align"} =>
                 Start[i] + instr_set[file[i].op].bytes <= Start[Len(file) + 1]
           /\ file[i].op = "long" /\ file[i].sym # NONE => ValueOf(file[i]) = 0

(* The file written holds the bytes of every line at its address, labels   *)
(* used before their definition included, zeros between, and ends with the *)
(* last byte given; and no byte is written outside the image that binfile  *)
(* has allocated, if .pos does not go back and no .long has a symbol       *)
(* (parse_line, relocate, binfile).                                        *)
Resolved ==
    /\ pc = "overrun" => ~(Forward /\ Wide)
    /\ pc = "done" /\ WellFormed /\ Forward /\ Wide =>
        /\ \A i \in DOMAIN file : \A a \in DOMAIN Emitted(i) :
                a \in DOMAIN image /\ image[a] = Emitted(i)[a]
        /\ DOMAIN image = UNION {DOMAIN Emitted(i) : i \in DOMAIN file}
        /\ \A a \in DOMAIN image : a < bytes_sum
        /\ bytes_sum > 0 => bytes_sum - 1 \in DOMAIN image
        /\ bytes_sum <= vmaddr

(* The assembler ends: with an error exactly for the inputs with a line    *)
(* that cannot be read or a symbol without its one label, with a file for  *)
(* the others that fit, and outside the image of binfile for those that do *)
(* not (parse_line, add_symbol, relocate, binfile).                        *)
Decides == <>(pc = IF ~WellFormed THEN "error"
                   ELSE IF Fits THEN "done" ELSE "overrun")
=============================================================================
