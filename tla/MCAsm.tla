------------------------------- MODULE MCAsm -------------------------------
(* The assemblers on every file of a few lines.                            *)
EXTENDS Yas

Line(label, op, sym, val) == [label |-> label, op |-> op, sym |-> sym, val |-> val]

\* .pos 300 needs two bytes and is the highest address yas writes, .pos 3 may
\* go back and leave lines outside the image, .align 4 may stay.
MCLines ==
    {Line(lab, "nop", NONE, 0) : lab \in {NONE, "a", "b"}}
    \cup {Line(lab, NONE, NONE, 0) : lab \in {NONE, "a"}}
    \cup {Line(lab, "jmp", s, 0) : lab \in {NONE, "a"}, s \in {"a", "b"}}
    \cup {Line(NONE, "irmovq", "b", 0), Line(NONE, "irmovq", NONE, 258)}
    \cup {Line(NONE, "quad", "a", 0), Line("b", "quad", NONE, 515)}
    \cup {Line(NONE, "long", "a", 0), Line(NONE, "long", NONE, 515)}
    \cup {Line(NONE, "byte", "a", 0), Line(NONE, "byte", NONE, 7)}
    \cup {Line(NONE, "pos", NONE, 300), Line("b", "pos", NONE, 3)}
    \cup {Line("b", "align", NONE, 4), Line(NONE, "jmp", NONE, 7)}
    \cup {Line("b", "bad", NONE, 0), Line("a", "unknown", NONE, 0)}

\* Of the files of four lines, those made of these.
MCFew ==
    {Line("a", "nop", NONE, 0), Line(NONE, "jmp", "a", 0), Line("b", "jmp", "b", 0),
     Line("b", NONE, NONE, 0), Line("a", "irmovq", "b", 0), Line(NONE, "quad", "a", 0),
     Line(NONE, "byte", NONE, 7), Line(NONE, "pos", NONE, 300),
     Line("b", "align", NONE, 4)}

MCFiles == UNION {[1 .. n -> MCLines] : n \in 0 .. 3} \cup [1 .. 4 -> MCFew]
=============================================================================
