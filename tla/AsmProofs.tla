------------------------------- MODULE AsmProofs -------------------------------
(* The two assemblers, for every input: the file y64asm writes is what the *)
(* input means, and yas writes the same.                                   *)
EXTENDS Yas, FiniteSetTheorems, SequenceTheorems, WellFoundedInduction, TLAPS

-----------------------------------------------------------------------------
(* Induction, and a function defined by recursion. *)
LEMMA LeastNat ==
    ASSUME NEW S \in SUBSET Nat, S # {}
    PROVE  \E x \in S : \A y \in S : x <= y
<1> DEFINE R == {ss \in Nat \X Nat : ss[1] < ss[2]}
<1>1. IsWellFoundedOn(R, Nat)
  BY NatLessThanWellFounded, Zenon DEF OpToRel
<1> HIDE DEF R
<1>2. PICK x \in S : \A y \in S : ~(<<y, x>> \in R)
  <2>1. S \subseteq Nat
    OBVIOUS
  <2> QED  BY <1>1, <2>1, WFMin, Zenon
<1>3. ASSUME NEW y \in S PROVE x <= y
  <2>1. y < x => <<y, x>> \in R
    BY DEF R
  <2> QED  BY <1>2, <2>1
<1> QED  BY <1>3

\* Induction, for a set of numbers.
LEMMA Induction ==
    ASSUME NEW S, 0 \in S, \A n \in Nat : n \in S => n + 1 \in S
    PROVE  Nat \subseteq S
<1> SUFFICES ASSUME Nat \ S # {} PROVE FALSE
  OBVIOUS
<1>1. Nat \ S \in SUBSET Nat
  OBVIOUS
<1>2. PICK x \in Nat \ S : \A y \in Nat \ S : x <= y
  BY <1>1, LeastNat
<1>3. x # 0 /\ x \in Nat
  OBVIOUS
<1>4. x - 1 \in Nat /\ ~(x <= x - 1) /\ (x - 1) + 1 = x
  BY <1>3
<1>5. x - 1 \in S
  BY <1>2, <1>4
<1> QED  BY <1>4, <1>5

\* What a chain of steps makes of 0.
LEMMA Iterates ==
    ASSUME NEW n \in Nat, NEW T \in [1 .. n -> [Nat -> Nat]]
    PROVE  \E f \in [1 .. n + 1 -> Nat] :
              f[1] = 0 /\ \A i \in 1 .. n : f[i + 1] = T[i][f[i]]
<1> DEFINE Good(k) == \E f \in [1 .. k + 1 -> Nat] :
                          f[1] = 0 /\ \A i \in 1 .. k : f[i + 1] = T[i][f[i]]
           S == {k \in Nat : k <= n => Good(k)}
<1> HIDE DEF Good
<1>1. Good(0)
  <2> DEFINE f == [x \in 1 .. 1 |-> 0]
  <2>1. f \in [1 .. 0 + 1 -> Nat] /\ f[1] = 0 /\ \A i \in 1 .. 0 : f[i + 1] = T[i][f[i]]
    OBVIOUS
  <2> QED  BY <2>1 DEF Good
<1>2. ASSUME NEW k \in Nat, k + 1 <= n, Good(k) PROVE Good(k + 1)
  <2>1. PICK f \in [1 .. k + 1 -> Nat] :
            f[1] = 0 /\ \A i \in 1 .. k : f[i + 1] = T[i][f[i]]
    BY <1>2 DEF Good
  <2> DEFINE v == T[k + 1][f[k + 1]]
             h == [x \in 1 .. (k + 1) + 1 |-> IF x <= k + 1 THEN f[x] ELSE v]
  <2>2. v \in Nat
    <3>1. k + 1 \in 1 .. n /\ k + 1 \in 1 .. k + 1
      BY <1>2
    <3>2. T[k + 1] \in [Nat -> Nat] /\ f[k + 1] \in Nat
      BY <3>1
    <3> QED  BY <3>2
  <2> HIDE DEF v
  <2>3. h \in [1 .. (k + 1) + 1 -> Nat] /\ h[1] = 0 /\ h[(k + 1) + 1] = v
    BY <2>1, <2>2
  <2>4. \A i \in 1 .. k + 1 : h[i] = f[i]
    OBVIOUS
  <2>5. ASSUME NEW i \in 1 .. k + 1 PROVE h[i + 1] = T[i][h[i]]
    <3>1. CASE i = k + 1
      BY <2>3, <2>4, <3>1 DEF v
    <3>2. CASE i # k + 1
      <4>1. i \in 1 .. k /\ i + 1 \in 1 .. k + 1
        BY <3>2
      <4> QED  BY <2>1, <2>4, <4>1
    <3> QED  BY <3>1, <3>2
  <2> HIDE DEF h
  <2> QED  BY <2>3, <2>5 DEF Good
<1>3. ASSUME NEW k \in Nat, k \in S PROVE k + 1 \in S
  BY <1>2, <1>3
<1>4. 0 \in S
  BY <1>1
<1> HIDE DEF S
<1>5. n \in S
  BY <1>3, <1>4, Induction
<1>6. Good(n)
  BY <1>5 DEF S
<1> QED  BY <1>6 DEF Good

-----------------------------------------------------------------------------
(* The address .align moves to: the only multiple in a window. *)
LEMMA Multiple ==
    ASSUME NEW a \in Int, NEW v \in Nat \ {0}
    PROVE  /\ a \div v \in Int /\ a % v \in 0 .. v - 1
           /\ a = v * (a \div v) + (a % v)
OBVIOUS

\* Different multiples of a size are at least that size apart.
LEMMA NotLess == ASSUME NEW v \in Nat \ {0}, NEW p \in Int, NEW q \in Int, p < q
                 PROVE  v * p + v <= v * q
<1>1. q - p - 1 \in Nat
  OBVIOUS
<1>2. v * (q - p - 1) >= 0
  BY <1>1
<1>3. v * (q - p - 1) = v * q - v * p - v
  OBVIOUS
<1> QED  BY <1>2, <1>3

\* Of v numbers in a row only one is a multiple of v.
LEMMA OneMultiple ==
    ASSUME NEW a \in Int, NEW v \in Nat \ {0}, NEW x \in a .. a + v - 1, x % v = 0,
           NEW y \in a .. a + v - 1, y % v = 0
    PROVE  x = y
<1> DEFINE p == x \div v
           q == y \div v
<1>1. p \in Int /\ q \in Int /\ x = v * p /\ y = v * q
  BY Multiple
<1> HIDE DEF p, q
<1>2. p < q => v * p + v <= v * q
  BY <1>1, NotLess
<1>3. q < p => v * q + v <= v * p
  BY <1>1, NotLess
<1>4. ~(p < q) /\ ~(q < p)
  BY <1>1, <1>2, <1>3
<1> QED  BY <1>1, <1>4

\* A multiple leaves no remainder.
LEMMA MultipleHas ==
    ASSUME NEW v \in Nat \ {0}, NEW q \in Int
    PROVE  (v * q) % v = 0
<1> DEFINE p == (v * q) \div v
           r == (v * q) % v
<1>1. p \in Int /\ r \in 0 .. v - 1 /\ v * q = v * p + r
  <2> DEFINE a == v * q
  <2>1. a \in Int
    OBVIOUS
  <2> HIDE DEF a
  <2>2. a \div v \in Int /\ a % v \in 0 .. v - 1 /\ a = v * (a \div v) + (a % v)
    BY <2>1, Multiple
  <2> QED  BY <2>2 DEF a
<1> HIDE DEF p
<1>2. p < q => v * p + v <= v * q
  BY <1>1, NotLess
<1>3. q < p => v * q + v <= v * p
  BY <1>1, NotLess
<1> HIDE DEF r
<1>4. ~(p < q) /\ ~(q < p)
  BY <1>1, <1>2, <1>3
<1>5. p = q
  BY <1>1, <1>4
<1>6. r = 0
  BY <1>1, <1>5
<1> QED  BY <1>6 DEF r

\* The three ways to align an address give that multiple.
LEMMA Rounding ==
    ASSUME NEW a \in Nat, NEW v \in Nat \ {0}
    PROVE  /\ Aligned(a, v) \in a .. a + v - 1 /\ Aligned(a, v) % v = 0
           /\ Aligned(a, v) = CHOOSE x \in a .. a + v - 1 : x % v = 0
           /\ ((a + v - 1) \div v) * v = Aligned(a, v)
<1> DEFINE q == a \div v
           r == a % v
           x == Aligned(a, v)
<1>1. q \in Int /\ r \in 0 .. v - 1 /\ a = v * q + r
  BY Multiple
<1>2. x = IF r = 0 THEN a ELSE a + (v - r)
  BY DEF Aligned
<1> HIDE DEF q, r, x
<1>3. x \in a .. a + v - 1
  BY <1>1, <1>2
<1>4. v * (q + 1) = v * q + v
  BY <1>1
<1>5. x = IF r = 0 THEN v * q ELSE v * (q + 1)
  BY <1>1, <1>2, <1>4
<1>6. x % v = 0
  <2>1. \A n \in Int : (v * n) % v = 0
    BY MultipleHas
  <2>2. q \in Int /\ q + 1 \in Int
    BY <1>1
  <2>3. (v * q) % v = 0 /\ (v * (q + 1)) % v = 0
    BY <2>1, <2>2
  <2> QED  BY <1>5, <2>3, Zenon
<1>7. ASSUME NEW y \in a .. a + v - 1, y % v = 0 PROVE y = x
  <2>1. a \in Int
    OBVIOUS
  <2> QED  BY <1>3, <1>6, <1>7, <2>1, OneMultiple, Zenon
<1>8. x = CHOOSE y \in a .. a + v - 1 : y % v = 0
  BY <1>3, <1>6, <1>7
<1> DEFINE k == (a + v - 1) \div v
           e == (a + v - 1) % v
<1>9. k \in Int /\ e \in 0 .. v - 1 /\ a + v - 1 = v * k + e
  <2> DEFINE c == a + v - 1
  <2>1. c \in Int
    OBVIOUS
  <2> HIDE DEF c
  <2>2. c \div v \in Int /\ c % v \in 0 .. v - 1 /\ c = v * (c \div v) + (c % v)
    BY <2>1, Multiple
  <2> QED  BY <2>2 DEF c
<1> HIDE DEF k, e
<1>10. v * k \in a .. a + v - 1 /\ (v * k) % v = 0 /\ k * v = v * k
  <2>1. (v * k) % v = 0
    BY <1>9, MultipleHas
  <2> DEFINE w == v * k
  <2>2. w \in Int /\ k * v = w
    BY <1>9
  <2> HIDE DEF w
  <2>3. w \in a .. a + v - 1
    BY <1>9, <2>2 DEF w
  <2> QED  BY <2>1, <2>2, <2>3 DEF w
<1> QED  BY <1>3, <1>6, <1>7, <1>8, <1>10 DEF x, k

-----------------------------------------------------------------------------
(* What a line is, and where the lines start. *)
IsLine(l) == /\ l \in InputLine
             /\ l.sym # NONE => l.op \in {"jmp", "irmovq"} \cup Data
             /\ l.op = "pos" => l.val >= 0
             /\ l.op = "align" => l.val > 0
FileOK == file \in Seq(InputLine) /\ \A i \in 1 .. Len(file) : IsLine(file[i])

Instructions == {"nop", "irmovq", "jmp", "byte", "long", "quad", "pos", "align"}

\* The number of bytes of a line.
Width(op) == CASE op = "nop" -> 1 [] op = "irmovq" -> 10 [] op = "jmp" -> 9
               [] op = "byte" -> 1 [] op = "long" -> 4 [] op = "quad" -> 8
               [] OTHER -> 0

\* The sizes of instr_set.
LEMMA Widths ==
    /\ DOMAIN instr_set = Instructions
    /\ \A op \in Instructions : instr_set[op].bytes = Width(op)
    /\ \A op : Width(op) \in Nat
<1>1. DOMAIN instr_set = Instructions
  BY DEF instr_set, Instructions
<1>2. ASSUME NEW op \in Instructions PROVE instr_set[op].bytes = Width(op)
  BY DEF instr_set, Instructions, Width
<1>3. \A op : Width(op) \in Nat
  BY DEF Width
<1> QED  BY <1>1, <1>2, <1>3

\* Where the next line starts, whatever the line.
LEMMA AfterIs ==
    ASSUME NEW l, IsLine(l), NEW a \in Nat
    PROVE  /\ After(l, a) \in Nat
           /\ After(l, a) = CASE l.op = "pos" -> l.val
                              [] l.op = "align" -> Aligned(a, l.val)
                              [] OTHER -> a + Width(l.op)
<1>1. l.val \in Int /\ l.op \in Instructions \cup {NONE, "bad", "unknown"}
  BY Widths DEF IsLine, InputLine
<1>2. CASE l.op = "pos"
  BY <1>1, <1>2, Widths DEF After, IsLine
<1>3. CASE l.op = "align"
  <2>1. l.val \in Nat \ {0}
    BY <1>1, <1>3 DEF IsLine
  <2>2. /\ Aligned(a, l.val) \in a .. a + l.val - 1
        /\ Aligned(a, l.val) = CHOOSE x \in a .. a + l.val - 1 : x % l.val = 0
    BY <2>1, Rounding
  <2>3. After(l, a) = Aligned(a, l.val)
    BY <1>3, <2>2 DEF After
  <2>4. Aligned(a, l.val) \in Nat
    BY <2>1, <2>2
  <2> QED  BY <1>3, <2>3, <2>4
<1>4. CASE l.op \in Instructions \ {"pos", "align"}
  <2>1. After(l, a) = a + Width(l.op)
    BY <1>4, Widths DEF After
  <2>2. Width(l.op) \in Nat
    BY Widths
  <2> QED  BY <1>4, <2>1, <2>2
<1>5. CASE l.op \notin Instructions
  <2>1. After(l, a) = a
    BY <1>5, Widths DEF After, Instructions
  <2>2. Width(l.op) = 0
    BY <1>5 DEF Width, Instructions
  <2> QED  BY <1>5, <2>1, <2>2 DEF Instructions
<1> QED  BY <1>2, <1>3, <1>4, <1>5

\* The lines of a file one after the other.
LEMMA StartIs ==
    ASSUME FileOK
    PROVE  /\ Start \in [1 .. Len(file) + 1 -> Nat]
           /\ Start[1] = 0
           /\ \A i \in 1 .. Len(file) : Start[i + 1] = After(file[i], Start[i])
<1> DEFINE n == Len(file)
           T == [i \in 1 .. n |-> [a \in Nat |-> After(file[i], a)]]
           Rule(f) == f = [i \in 1 .. n + 1 |->
                              IF i = 1 THEN 0 ELSE After(file[i - 1], f[i - 1])]
<1>1. n \in Nat
  BY DEF FileOK
<1>2. T \in [1 .. n -> [Nat -> Nat]]
  BY AfterIs DEF FileOK
<1> HIDE DEF T, n
<1>3. PICK f \in [1 .. n + 1 -> Nat] :
          f[1] = 0 /\ \A i \in 1 .. n : f[i + 1] = T[i][f[i]]
  BY <1>1, <1>2, Iterates, Zenon
<1>4. ASSUME NEW i \in 1 .. n PROVE f[i + 1] = After(file[i], f[i])
  <2>1. f[i] \in Nat
    BY <1>1, <1>3
  <2> QED  BY <1>3, <2>1 DEF T
<1>5. Rule(f)
  <2> DEFINE h == [i \in 1 .. n + 1 |-> IF i = 1 THEN 0 ELSE After(file[i - 1], f[i - 1])]
  <2>1. ASSUME NEW i \in 1 .. n + 1 PROVE f[i] = h[i]
    <3>1. CASE i = 1
      BY <1>3, <3>1
    <3>2. CASE i # 1
      <4>1. i - 1 \in 1 .. n /\ (i - 1) + 1 = i
        BY <1>1, <3>2
      <4> QED  BY <1>4, <3>2, <4>1
    <3> QED  BY <3>1, <3>2
  <2>2. DOMAIN f = DOMAIN h /\ f = [i \in DOMAIN f |-> f[i]]
    BY <1>3
  <2>3. f = h
    BY <2>1, <2>2
  <2> QED  BY <2>3
<1>6. Start = CHOOSE g : Rule(g)
  BY DEF Start, n
<1> HIDE DEF Rule
<1>7. Rule(Start)
  BY <1>5, <1>6
<1>8. /\ DOMAIN Start = 1 .. n + 1 /\ Start[1] = 0
      /\ \A i \in 1 .. n : Start[i + 1] = After(file[i], Start[i])
  <2> DEFINE S == Start
  <2>1. Rule(S)
    BY <1>7
  <2> HIDE DEF S
  <2>2. S = [i \in 1 .. n + 1 |-> IF i = 1 THEN 0 ELSE After(file[i - 1], S[i - 1])]
    BY <2>1 DEF Rule
  <2>3. DOMAIN S = 1 .. n + 1
    BY <2>2
  <2>4. \A i \in 1 .. n + 1 : S[i] = IF i = 1 THEN 0 ELSE After(file[i - 1], S[i - 1])
    BY <2>2
  <2>5. S[1] = 0
    BY <1>1, <2>4
  <2>6. ASSUME NEW i \in 1 .. n PROVE S[i + 1] = After(file[i], S[i])
    <3>1. i + 1 \in 1 .. n + 1 /\ i + 1 # 1 /\ (i + 1) - 1 = i
      BY <1>1
    <3> QED  BY <2>4, <3>1
  <2> QED  BY <2>3, <2>5, <2>6 DEF S
<1> DEFINE S == {k \in Nat : k <= n => Start[k + 1] \in Nat}
<1>9. 0 \in S
  BY <1>8
<1>10. ASSUME NEW k \in Nat, k \in S PROVE k + 1 \in S
  <2> SUFFICES ASSUME k + 1 <= n PROVE Start[(k + 1) + 1] \in Nat
    OBVIOUS
  <2>1. k + 1 \in 1 .. n /\ k <= n
    BY <1>1
  <2>2. IsLine(file[k + 1]) /\ Start[k + 1] \in Nat
    BY <1>10, <2>1 DEF FileOK, n
  <2> QED  BY <1>8, <2>1, <2>2, AfterIs
<1> HIDE DEF S
<1>11. Nat \subseteq S
  BY <1>9, <1>10, Induction
<1>12. ASSUME NEW i \in 1 .. n + 1 PROVE Start[i] \in Nat
  <2>1. i - 1 \in Nat /\ i - 1 <= n /\ (i - 1) + 1 = i
    BY <1>1
  <2>2. i - 1 \in S
    BY <1>11, <2>1
  <2> QED  BY <2>1, <2>2 DEF S
<1>13. Start = [i \in DOMAIN Start |-> Start[i]]
  BY <1>7 DEF Rule
<1> QED  BY <1>8, <1>12, <1>13 DEF n

-----------------------------------------------------------------------------
(* The bytes of a line. *)
ByteValues == {16, 48, 112, 192, 240} \cup {Byte(val, k) : val \in Int, k \in Int}

\* The k-th byte of line l when its operand is val.
CodeAt(l, val, k) ==
    CASE l.op = "nop" -> 16
      [] l.op = "jmp" -> IF k = 1 THEN 112 ELSE Byte(val, k - 2)
      [] l.op = "irmovq" -> IF k = 1 THEN 48 ELSE IF k = 2 THEN 240 ELSE Byte(val, k - 3)
      [] OTHER -> Byte(val, k - 1)

\* c holds the bytes of l with operand val.
Coded(c, l, val) == /\ c \in Seq(ByteValues) /\ Len(c) = Width(l.op)
                    /\ \A k \in 1 .. Width(l.op) : c[k] = CodeAt(l, val, k)

Readable1(l) == l.op \notin {"bad", "unknown"}

\* A number is as many bytes as asked for.
LEMMA BytesAre ==
    ASSUME NEW val \in Int, NEW n \in Nat
    PROVE  /\ Bytes(val, n) \in Seq(ByteValues) /\ Len(Bytes(val, n)) = n
           /\ \A k \in 1 .. n : Bytes(val, n)[k] = Byte(val, k - 1)
<1>1. \A k \in 1 .. n : Byte(val, k - 1) \in ByteValues
  BY DEF ByteValues
<1> QED  BY <1>1 DEF Bytes

\* u is s with one byte b, or with the bytes b and c, before it.
One(u, b, s) == /\ u \in Seq(ByteValues) /\ Len(u) = Len(s) + 1 /\ u[1] = b
                /\ \A k \in 2 .. Len(s) + 1 : u[k] = s[k - 1]
Two(u, b, c, s) == /\ u \in Seq(ByteValues) /\ Len(u) = Len(s) + 2 /\ u[1] = b /\ u[2] = c
                   /\ \A k \in 3 .. Len(s) + 2 : u[k] = s[k - 2]

\* One byte, or two, and then a number.
LEMMA OneThen ==
    ASSUME NEW b \in ByteValues, NEW s \in Seq(ByteValues)
    PROVE  One(<<b>> \o s, b, s)
<1> DEFINE t == <<b>>
<1>1. t \in Seq(ByteValues) /\ Len(t) = 1 /\ t[1] = b
  OBVIOUS
<1>2. Len(s) \in Nat
  OBVIOUS
<1> HIDE DEF t
<1>3. /\ t \o s \in Seq(ByteValues) /\ Len(t \o s) = Len(t) + Len(s)
      /\ \A i \in 1 .. Len(t) + Len(s) : (t \o s)[i] = IF i <= Len(t) THEN t[i] ELSE s[i - Len(t)]
  BY <1>1, ConcatProperties
<1> DEFINE u == t \o s
<1> HIDE DEF u
<1>4. One(u, b, s)
  BY <1>1, <1>2, <1>3 DEF u, One
<1> QED  BY <1>4 DEF u, t

\* A sequence that starts with two given bytes.
LEMMA TwoThen ==
    ASSUME NEW b \in ByteValues, NEW c \in ByteValues, NEW s \in Seq(ByteValues)
    PROVE  Two(<<b, c>> \o s, b, c, s)
<1> DEFINE t == <<b, c>>
<1>1. t \in Seq(ByteValues) /\ Len(t) = 2 /\ t[1] = b /\ t[2] = c
  OBVIOUS
<1>2. Len(s) \in Nat
  OBVIOUS
<1> HIDE DEF t
<1>3. /\ t \o s \in Seq(ByteValues) /\ Len(t \o s) = Len(t) + Len(s)
      /\ \A i \in 1 .. Len(t) + Len(s) : (t \o s)[i] = IF i <= Len(t) THEN t[i] ELSE s[i - Len(t)]
  BY <1>1, ConcatProperties
<1> DEFINE u == t \o s
<1> HIDE DEF u
<1>4. Two(u, b, c, s)
  BY <1>1, <1>2, <1>3 DEF u, Two
<1> QED  BY <1>4 DEF u, t

\* What yas writes of a line: its instruction and the bytes of its operand.
Whole(l, val) ==
    CASE l.op = "nop" -> <<16>>
      [] l.op = "jmp" -> <<112>> \o Bytes(val, 8)
      [] l.op = "irmovq" -> <<48, 240>> \o Bytes(val, 8)
      [] l.op \in Data -> Bytes(val, Width(l.op))
      [] OTHER -> << >>

\* The bytes of a line place by place: code, registers, number.
LEMMA WholeIs ==
    ASSUME NEW l, IsLine(l), Readable1(l), NEW val \in Int
    PROVE  Coded(Whole(l, val), l, val)
<1> DEFINE s == Bytes(val, 8)
<1>1. s \in Seq(ByteValues) /\ Len(s) = 8 /\ \A k \in 1 .. 8 : s[k] = Byte(val, k - 1)
  BY BytesAre
<1>2. l.op \in {"nop", "jmp", "irmovq"} \cup Data \cup {"pos", "align", NONE}
  BY Widths DEF IsLine, Readable1, InputLine, Instructions, Data
<1>3. 16 \in ByteValues /\ 48 \in ByteValues /\ 112 \in ByteValues /\ 240 \in ByteValues
  BY DEF ByteValues
<1> HIDE DEF s
<1>4. CASE l.op = "nop"
  <2>1. Whole(l, val) = <<16>>
    BY <1>4 DEF Whole, Data
  <2>2. <<16>> \in Seq(ByteValues) /\ Len(<<16>>) = 1 /\ <<16>>[1] = 16
    BY <1>3
  <2> QED  BY <1>4, <2>1, <2>2 DEF Coded, CodeAt, Width
<1>5. CASE l.op = "jmp"
  <2> DEFINE b == 112
             t == <<b>> \o s
  <2>1. Whole(l, val) = t
    BY <1>5 DEF Whole, Data, s
  <2>0. b \in ByteValues
    BY <1>3
  <2> HIDE DEF b
  <2>9. One(t, b, s)
    BY <1>1, <2>0, OneThen, Zenon
  <2> HIDE DEF t
  <2>2. t \in Seq(ByteValues) /\ Len(t) = 9 /\ t[1] = 112 /\ \A k \in 2 .. 9 : t[k] = s[k - 1]
    BY <1>1, <2>9 DEF b, One
  <2>3. \A k \in 1 .. 9 : t[k] = CodeAt(l, val, k)
    BY <1>1, <1>5, <2>2 DEF CodeAt
  <2> QED  BY <1>5, <2>1, <2>2, <2>3 DEF Coded, Width
<1>6. CASE l.op = "irmovq"
  <2> DEFINE b == 48
             c == 240
             t == <<b, c>> \o s
  <2>1. Whole(l, val) = t
    BY <1>6 DEF Whole, Data, s
  <2>0. b \in ByteValues /\ c \in ByteValues
    BY <1>3
  <2> HIDE DEF b, c
  <2>9. Two(t, b, c, s)
    BY <1>1, <2>0, TwoThen, Zenon
  <2> HIDE DEF t
  <2>2. /\ t \in Seq(ByteValues) /\ Len(t) = 10 /\ t[1] = 48 /\ t[2] = 240
        /\ \A k \in 3 .. 10 : t[k] = s[k - 2]
    BY <1>1, <2>9 DEF b, c, Two
  <2>3. \A k \in 1 .. 10 : t[k] = CodeAt(l, val, k)
    BY <1>1, <1>6, <2>2 DEF CodeAt
  <2> QED  BY <1>6, <2>1, <2>2, <2>3 DEF Coded, Width
<1>7. CASE l.op \in Data
  <2>1. Whole(l, val) = Bytes(val, Width(l.op))
    BY <1>7 DEF Whole, Data
  <2>2. Width(l.op) \in Nat
    BY Widths
  <2>3. \A k : CodeAt(l, val, k) = Byte(val, k - 1)
    BY <1>7 DEF CodeAt, Data
  <2> QED  BY <2>1, <2>2, <2>3, BytesAre DEF Coded
<1>8. CASE l.op \in {"pos", "align", NONE}
  <2>1. Whole(l, val) = << >> /\ Width(l.op) = 0
    BY <1>8 DEF Whole, Data, NONE, Width
  <2> QED  BY <2>1 DEF Coded
<1> QED  BY <1>2, <1>4, <1>5, <1>6, <1>7, <1>8

-----------------------------------------------------------------------------
(* What the input means, line by line. *)
LineAt(i) == IF file[i].op \in {"pos", "align"} THEN Start[i + 1] ELSE Start[i]

Bounds(i) == Start[i] .. Start[i] + Width(file[i].op) - 1

\* The reference emits those bytes where the line starts.
LEMMA EmittedIs ==
    ASSUME FileOK, NEW i \in 1 .. Len(file)
    PROVE  Emitted(i) = [a \in Bounds(i) |->
                            CodeAt(file[i], ValueOf(file[i]), a - Start[i] + 1)]
<1> DEFINE l == file[i]
           s == Start[i]
           v == ValueOf(l)
           g == [a \in Bounds(i) |-> CodeAt(l, v, a - s + 1)]
<1>1. s \in Nat
  <2>1. i \in 1 .. Len(file) + 1
    BY DEF FileOK
  <2> QED  BY <2>1, StartIs
<1>2. l.op \in {"nop", "jmp", "irmovq"} \cup Data \cup {"pos", "align", NONE, "bad", "unknown"}
  BY Widths DEF FileOK, IsLine, InputLine, Instructions, Data
<1> DEFINE Field(first, n) == [a \in first .. first + n - 1 |-> Byte(v, a - first)]
           With(f, a, b) == [x \in DOMAIN f \cup {a} |-> IF x = a THEN b ELSE f[x]]
<1>3. /\ l.op = "nop" => Emitted(i) = [a \in {s} |-> 16]
      /\ l.op = "jmp" => Emitted(i) = With(Field(s + 1, 8), s, 112)
      /\ l.op = "irmovq" => Emitted(i) = With(With(Field(s + 2, 8), s, 48), s + 1, 240)
      /\ l.op \in Data => Emitted(i) = Field(s, instr_set[l.op].bytes)
      /\ l.op \in {"pos", "align", NONE, "bad", "unknown"} => Emitted(i) = << >>
  <2>1. l.op = "nop" => Emitted(i) = [a \in {s} |-> 16]
    BY DEF Emitted, Data
  <2>2. l.op = "jmp" => Emitted(i) = With(Field(s + 1, 8), s, 112)
    BY DEF Emitted, Data
  <2>3. l.op = "irmovq" => Emitted(i) = With(With(Field(s + 2, 8), s, 48), s + 1, 240)
    BY DEF Emitted, Data
  <2>4. l.op \in Data => Emitted(i) = Field(s, instr_set[l.op].bytes)
    BY DEF Emitted, Data
  <2>5. l.op \in {"pos", "align", NONE, "bad", "unknown"} => Emitted(i) = << >>
    BY DEF Emitted, Data, NONE
  <2> QED  BY <2>1, <2>2, <2>3, <2>4, <2>5
<1>4. g = [a \in s .. s + Width(l.op) - 1 |-> CodeAt(l, v, a - s + 1)]
  BY DEF Bounds
<1> HIDE DEF l, s, v, g
<1>10. Emitted(i) = g
  <2>5. CASE l.op = "nop"
    <3>1. s .. s + Width(l.op) - 1 = {s}
      BY <1>1, <2>5 DEF Width
    <3>2. \A k : CodeAt(l, v, k) = 16
      BY <2>5 DEF CodeAt
    <3>3. Emitted(i) = [a \in {s} |-> 16]
      BY <1>3, <2>5
    <3> QED  BY <1>4, <3>1, <3>2, <3>3
  <2>6. CASE l.op = "jmp"
    <3>1. Emitted(i) = With(Field(s + 1, 8), s, 112)
      BY <1>3, <2>6
    <3>2. g = [a \in s .. s + 8 |-> IF a = s THEN 112 ELSE Byte(v, a - (s + 1))]
      <4>1. ASSUME NEW a \in s .. s + 8
            PROVE  CodeAt(l, v, a - s + 1) = IF a = s THEN 112 ELSE Byte(v, a - (s + 1))
        <5>1. (a - s + 1) - 2 = a - (s + 1) /\ (a - s + 1 = 1 <=> a = s)
          BY <1>1
        <5> QED  BY <2>6, <5>1 DEF CodeAt
      <4>2. s + Width(l.op) - 1 = s + 8
        BY <1>1, <2>6 DEF Width
      <4> QED  BY <1>4, <4>1, <4>2
    <3>3. s + 1 + 8 - 1 = s + 8 /\ (s + 1 .. s + 8) \cup {s} = s .. s + 8
      BY <1>1
    <3>4. DOMAIN Field(s + 1, 8) = s + 1 .. s + 8
      BY <3>3
    <3>5. \A a \in s + 1 .. s + 8 : Field(s + 1, 8)[a] = Byte(v, a - (s + 1))
      BY <3>3
    <3> HIDE DEF Field
    <3>6. Emitted(i) = [x \in s .. s + 8 |-> IF x = s THEN 112 ELSE Field(s + 1, 8)[x]]
      BY <3>1, <3>3, <3>4
    <3>7. \A x \in s .. s + 8 : x = s \/ x \in s + 1 .. s + 8
      BY <1>1
    <3> QED  BY <3>2, <3>5, <3>6, <3>7
  <2>7. CASE l.op = "irmovq"
    <3>1. Emitted(i) = With(With(Field(s + 2, 8), s, 48), s + 1, 240)
      BY <1>3, <2>7
    <3>2. g = [a \in s .. s + 9 |-> IF a = s + 1 THEN 240 ELSE IF a = s THEN 48
                                    ELSE Byte(v, a - (s + 2))]
      <4>1. ASSUME NEW a \in s .. s + 9
            PROVE  CodeAt(l, v, a - s + 1) = IF a = s + 1 THEN 240 ELSE IF a = s THEN 48
                                             ELSE Byte(v, a - (s + 2))
        <5>1. (a - s + 1) - 3 = a - (s + 2) /\ (a - s + 1 = 1 <=> a = s)
              /\ (a - s + 1 = 2 <=> a = s + 1) /\ s # s + 1
          BY <1>1
        <5> QED  BY <2>7, <5>1 DEF CodeAt
      <4>2. s + Width(l.op) - 1 = s + 9
        BY <1>1, <2>7 DEF Width
      <4> QED  BY <1>4, <4>1, <4>2
    <3>3. s + 2 + 8 - 1 = s + 9 /\ ((s + 2 .. s + 9) \cup {s}) \cup {s + 1} = s .. s + 9
      BY <1>1
    <3>4. DOMAIN Field(s + 2, 8) = s + 2 .. s + 9
      BY <3>3
    <3>5. \A a \in s + 2 .. s + 9 : Field(s + 2, 8)[a] = Byte(v, a - (s + 2))
      BY <3>3
    <3> HIDE DEF Field
    <3>6. Emitted(i) = [x \in s .. s + 9 |-> IF x = s + 1 THEN 240
                                             ELSE With(Field(s + 2, 8), s, 48)[x]]
      BY <3>1, <3>3, <3>4
    <3>7. \A x \in s .. s + 9 : x = s \/ x = s + 1 \/ x \in s + 2 .. s + 9
      BY <1>1
    <3>8. \A x \in (s + 2 .. s + 9) \cup {s} :
              With(Field(s + 2, 8), s, 48)[x] = IF x = s THEN 48 ELSE Field(s + 2, 8)[x]
      BY <3>4
    <3> HIDE DEF With
    <3> QED  BY <3>2, <3>5, <3>6, <3>7, <3>8
  <2>8. CASE l.op \in Data
    <3>1. Emitted(i) = Field(s, Width(l.op))
      <4>1. Emitted(i) = Field(s, instr_set[l.op].bytes)
        BY <1>3, <2>8
      <4>2. instr_set[l.op].bytes = Width(l.op)
        BY <2>8, Widths DEF Data, Instructions
      <4> QED  BY <4>1, <4>2
    <3>2. \A a \in s .. s + Width(l.op) - 1 : CodeAt(l, v, a - s + 1) = Byte(v, a - s)
      <4>1. \A a \in s .. s + Width(l.op) - 1 : (a - s + 1) - 1 = a - s
        BY <1>1
      <4>2. \A k : CodeAt(l, v, k) = Byte(v, k - 1)
        BY <2>8 DEF CodeAt, Data
      <4> QED  BY <4>1, <4>2
    <3> QED  BY <1>4, <3>1, <3>2
  <2>9. CASE l.op \in {"pos", "align", NONE, "bad", "unknown"}
    <3>1. Emitted(i) = << >>
      BY <1>3, <2>9
    <3>2. Width(l.op) = 0
      BY <2>9 DEF Width, NONE
    <3>3. s .. s + Width(l.op) - 1 = {}
      BY <1>1, <3>2
    <3>4. g = [a \in {} |-> CodeAt(l, v, a - s + 1)]
      BY <1>4, <3>3
    <3> QED  BY <3>1, <3>4
  <2> QED  BY <1>2, <2>5, <2>6, <2>7, <2>8, <2>9
<1> QED  BY <1>10 DEF g, l, s, v

\* The line a name stands for is the first it labels.
FirstAt(name) == CHOOSE i \in Labelled(name) : \A j \in Labelled(name) : i <= j

\* A label that is defined has a first line.
LEMMA FirstLabelled ==
    ASSUME FileOK, NEW name, Labelled(name) # {}
    PROVE  /\ FirstAt(name) \in 1 .. Len(file) /\ file[FirstAt(name)].label = name
           /\ \A i \in 1 .. Len(file) :
                file[i].label = name /\ (\A j \in 1 .. Len(file) : file[j].label = name => i <= j)
                    => FirstAt(name) = i
<1> DEFINE L == Labelled(name)
<1>1. L = {i \in 1 .. Len(file) : file[i].label = name} /\ L \in SUBSET Nat
  BY DEF FileOK, Labelled
<1>2. FirstAt(name) = CHOOSE i \in L : \A j \in L : i <= j
  BY DEF FirstAt
<1> HIDE DEF L
<1>3. \E i \in L : \A j \in L : i <= j
  <2>1. L # {}
    BY DEF L
  <2> QED  BY <1>1, <2>1, LeastNat
<1>4. FirstAt(name) \in L /\ \A j \in L : FirstAt(name) <= j
  BY <1>2, <1>3
<1>5. \A i \in L : (\A j \in L : i <= j) => FirstAt(name) = i
  BY <1>1, <1>4
<1> QED  BY <1>1, <1>4, <1>5

\* What a line uses is its number or the start of that line.
LEMMA ValueIs ==
    ASSUME FileOK, NEW i \in 1 .. Len(file),
           file[i].sym # NONE => Labelled(file[i].sym) # {}
    PROVE  /\ ValueOf(file[i]) \in Int
           /\ ValueOf(file[i]) = IF file[i].sym = NONE THEN file[i].val
                                 ELSE Start[FirstAt(file[i].sym)]
<1>1. ValueOf(file[i]) = IF file[i].sym = NONE THEN file[i].val
                         ELSE Start[FirstAt(file[i].sym)]
  BY DEF ValueOf, FirstAt
<1>2. file[i].val \in Int
  BY DEF FileOK, IsLine, InputLine
<1>3. file[i].sym # NONE => Start[FirstAt(file[i].sym)] \in Int
  <2> SUFFICES ASSUME file[i].sym # NONE PROVE Start[FirstAt(file[i].sym)] \in Int
    OBVIOUS
  <2>1. FirstAt(file[i].sym) \in 1 .. Len(file)
    BY FirstLabelled
  <2>2. FirstAt(file[i].sym) \in 1 .. Len(file) + 1 /\ Start \in [1 .. Len(file) + 1 -> Nat]
    BY <2>1, StartIs DEF FileOK
  <2> QED  BY <2>2
<1> QED  BY <1>1, <1>2, <1>3

-----------------------------------------------------------------------------
(* The tables of symbols: the same in both assemblers. *)
SymbolEntry == [name : STRING, addr : Int]

\* s is where name is found in tab, or 0.
Found(s, tab, name) ==
    \/ s = 0 /\ \A k \in 1 .. Len(tab) : tab[k].name # name
    \/ s \in 1 .. Len(tab) /\ tab[s].name = name /\ \A k \in 1 .. s - 1 : tab[k].name # name

\* What find_symbol finds: the first entry with the name, or none.
LEMMA FindIs ==
    ASSUME NEW tab \in Seq(SymbolEntry), NEW name, NEW s,
           s = LET I == {i \in 1 .. Len(tab) : tab[i].name = name}
               IN  IF I # {} THEN Min(I) ELSE 0
    PROVE  Found(s, tab, name)
<1> DEFINE I == {i \in 1 .. Len(tab) : tab[i].name = name}
           n == Len(tab)
<1>1. s = IF I # {} THEN CHOOSE x \in I : \A y \in I : x <= y ELSE 0
  BY DEF Min
<1>2. I = {i \in 1 .. n : tab[i].name = name} /\ n \in Nat
  OBVIOUS
<1> HIDE DEF I, n
<1>3. CASE I = {}
  <2>1. s = 0 /\ \A k \in 1 .. n : tab[k].name # name
    BY <1>1, <1>2, <1>3
  <2> QED  BY <2>1 DEF Found, n
<1>4. CASE I # {}
  <2>1. I \in SUBSET Nat
    BY <1>2
  <2>2. \E x \in I : \A y \in I : x <= y
    BY <1>4, <2>1, LeastNat
  <2>3. s \in I /\ \A y \in I : s <= y
    BY <1>1, <1>4, <2>2
  <2>4. ASSUME NEW k \in 1 .. s - 1 PROVE tab[k].name # name
    BY <1>2, <2>3
  <2> QED  BY <1>2, <2>3, <2>4 DEF Found, n
<1> QED  BY <1>3, <1>4

\* find_symbol returns the entry of the name, if there is one.
LEMMA FindSymbol == ASSUME symtab \in Seq(SymbolEntry), NEW name
                    PROVE  Found(find_symbol(name), symtab, name)
<1> DEFINE s == find_symbol(name)
<1>1. s = LET I == {i \in 1 .. Len(symtab) : symtab[i].name = name}
          IN  IF I # {} THEN Min(I) ELSE 0
  BY DEF find_symbol, SelectInSeq
<1> HIDE DEF s
<1>2. Found(s, symtab, name)
  BY <1>1, FindIs
<1> QED  BY <1>2 DEF s

\* So does the reference assembler's search.
LEMMA FindYasSymbol == ASSUME symbol_table \in Seq(SymbolEntry), NEW name
                       PROVE  Found(Symbol(name), symbol_table, name)
<1> DEFINE s == Symbol(name)
<1>1. s = LET I == {i \in 1 .. Len(symbol_table) : symbol_table[i].name = name}
          IN  IF I # {} THEN Min(I) ELSE 0
  BY DEF Symbol, SelectInSeq
<1> HIDE DEF s
<1>2. Found(s, symbol_table, name)
  BY <1>1, FindIs
<1> QED  BY <1>2 DEF s

(* tab after the first n lines: every entry is the label of one of them,   *)
(* unless an earlier entry has it too the first, with its address if it is *)
(* in E, and every label is there.                                         *)
Tabled(tab, n, E) ==
    /\ tab \in Seq(SymbolEntry)
    /\ \A k \in 1 .. Len(tab) : tab[k].name # NONE /\ \E i \in 1 .. n :
          /\ file[i].label = tab[k].name
          /\ i \in E => tab[k].addr = Start[i]
          /\ \A j \in 1 .. i - 1 : file[j].label = tab[k].name =>
                \E r \in 1 .. k - 1 : tab[r].name = tab[k].name
    /\ \A i \in 1 .. n : file[i].label # NONE =>
          \E k \in 1 .. Len(tab) : tab[k].name = file[i].label

\* The address found is where the label's line starts.
LEMMA TabledValue ==
    ASSUME FileOK, NEW n \in Nat, n <= Len(file), NEW tab, NEW E, Tabled(tab, n, E),
           NEW name, NEW s, Found(s, tab, name), s # 0
    PROVE  Labelled(name) # {} /\ (FirstAt(name) \in E => tab[s].addr = Start[FirstAt(name)])
<1> DEFINE N == Len(file)
<1>1. N \in Nat /\ n <= N
  BY DEF FileOK
<1>2. s \in 1 .. Len(tab) /\ tab[s].name = name /\ \A k \in 1 .. s - 1 : tab[k].name # name
  BY DEF Found
<1>3. PICK i \in 1 .. n : /\ file[i].label = name
                          /\ i \in E => tab[s].addr = Start[i]
                          /\ \A j \in 1 .. i - 1 : file[j].label # name
  BY <1>2 DEF Tabled
<1>4. Labelled(name) = {j \in 1 .. N : file[j].label = name}
  BY DEF Labelled, FileOK
<1>5. (\A j \in 1 .. N : file[j].label = name => i <= j) /\ i \in 1 .. N
  <2> HIDE DEF N
  <2>1. ASSUME NEW j \in 1 .. N, file[j].label = name PROVE i <= j
    <3>1. ~(j \in 1 .. i - 1)
      BY <1>3, <2>1
    <3> QED  BY <1>1, <3>1
  <2> QED  BY <1>1, <2>1
<1>6. Labelled(name) # {}
  BY <1>3, <1>4, <1>5
<1>7. FirstAt(name) = i
  BY <1>3, <1>5, <1>6, FirstLabelled
<1> QED  BY <1>3, <1>6, <1>7

\* Once every line is tabled, nothing is found only if nobody defines it.
LEMMA TabledNone ==
    ASSUME FileOK, NEW tab, NEW E, Tabled(tab, Len(file), E),
           NEW name, name # NONE, NEW s, Found(s, tab, name)
    PROVE  s = 0 <=> Labelled(name) = {}
<1>1. Len(file) \in Nat /\ Labelled(name) = {j \in 1 .. Len(file) : file[j].label = name}
  BY DEF Labelled, FileOK
<1>2. s # 0 => Labelled(name) # {}
  BY <1>1, TabledValue
<1>3. ASSUME s = 0, Labelled(name) # {} PROVE FALSE
  <2>1. PICK i \in 1 .. Len(file) : file[i].label = name
    BY <1>1, <1>3
  <2>2. PICK k \in 1 .. Len(tab) : tab[k].name = name
    BY <2>1 DEF Tabled
  <2> QED  BY <1>3, <2>2 DEF Found
<1> QED  BY <1>2, <1>3

\* The table stays right when a line is added to it.
LEMMA TabledStep ==
    ASSUME FileOK, NEW n \in Nat, n + 1 <= Len(file), NEW tab, NEW E,
           Tabled(tab, n, E), NEW addr \in Int, n + 1 \in E => addr = Start[n + 1],
           NEW new, new = IF file[n + 1].label = NONE THEN tab
                          ELSE Append(tab, [name |-> file[n + 1].label, addr |-> addr])
    PROVE  Tabled(new, n + 1, E)
<1> DEFINE lab == file[n + 1].label
           m == Len(tab)
           e == [name |-> lab, addr |-> addr]
<1>1. tab \in Seq(SymbolEntry) /\ m \in Nat
  BY DEF Tabled
<1>2. \A k \in 1 .. m : tab[k].name # NONE /\ \E i \in 1 .. n :
          /\ file[i].label = tab[k].name
          /\ i \in E => tab[k].addr = Start[i]
          /\ \A j \in 1 .. i - 1 : file[j].label = tab[k].name =>
                \E r \in 1 .. k - 1 : tab[r].name = tab[k].name
  BY DEF Tabled
<1>3. \A i \in 1 .. n : file[i].label # NONE => \E k \in 1 .. m : tab[k].name = file[i].label
  BY DEF Tabled
<1>4. CASE lab = NONE
  <2>1. new = tab
    BY <1>4
  <2>2. \A i \in 1 .. n : i \in 1 .. n + 1
    OBVIOUS
  <2>3. \A i \in 1 .. n + 1 : file[i].label # NONE => i \in 1 .. n
    BY <1>4
  <2> HIDE DEF m
  <2>4. \A k \in 1 .. m : tab[k].name # NONE /\ \E i \in 1 .. n + 1 :
          /\ file[i].label = tab[k].name
          /\ i \in E => tab[k].addr = Start[i]
          /\ \A j \in 1 .. i - 1 : file[j].label = tab[k].name =>
                \E r \in 1 .. k - 1 : tab[r].name = tab[k].name
    BY <1>2, <2>2
  <2>5. \A i \in 1 .. n + 1 : file[i].label # NONE =>
            \E k \in 1 .. m : tab[k].name = file[i].label
    BY <1>3, <2>3
  <2>6. Tabled(tab, n + 1, E)
    BY <1>1, <2>4, <2>5, Zenon DEF Tabled, m
  <2> QED  BY <2>1, <2>6
<1>5. CASE lab # NONE
  <2>1. e \in SymbolEntry
    <3>1. n + 1 \in 1 .. Len(file)
      BY DEF FileOK
    <3>2. lab \in STRING
      BY <3>1 DEF FileOK, IsLine, InputLine
    <3> QED  BY <3>2 DEF SymbolEntry
  <2>2. e.name = lab /\ e.addr = addr
    OBVIOUS
  <2>3. new = Append(tab, e)
    BY <1>5
  <2> HIDE DEF e, m, lab
  <2>4. /\ new \in Seq(SymbolEntry) /\ Len(new) = m + 1 /\ new[m + 1] = e
        /\ \A k \in 1 .. m : new[k] = tab[k]
    BY <1>1, <2>1, <2>3, AppendProperties DEF m
  <2>5. ASSUME NEW k \in 1 .. m + 1
        PROVE  new[k].name # NONE /\ \E i \in 1 .. n + 1 :
                  /\ file[i].label = new[k].name
                  /\ i \in E => new[k].addr = Start[i]
                  /\ \A j \in 1 .. i - 1 : file[j].label = new[k].name =>
                        \E r \in 1 .. k - 1 : new[r].name = new[k].name
    <3>1. CASE k \in 1 .. m
      <4>1. new[k] = tab[k] /\ \A r \in 1 .. k - 1 : new[r] = tab[r]
        BY <1>1, <2>4, <3>1
      <4>2. PICK i \in 1 .. n :
                  /\ file[i].label = tab[k].name
                  /\ i \in E => tab[k].addr = Start[i]
                  /\ \A j \in 1 .. i - 1 : file[j].label = tab[k].name =>
                        \E r \in 1 .. k - 1 : tab[r].name = tab[k].name
        BY <1>2, <3>1
      <4>3. i \in 1 .. n + 1
        OBVIOUS
      <4>4. \A j \in 1 .. i - 1 : file[j].label = new[k].name =>
                        \E r \in 1 .. k - 1 : new[r].name = new[k].name
        BY <4>1, <4>2
      <4>5. new[k].name # NONE
        BY <1>2, <3>1, <4>1
      <4> QED  BY <4>1, <4>2, <4>3, <4>4, <4>5
    <3>2. CASE k = m + 1
      <4>1. new[k].name = lab /\ new[k].addr = addr
        BY <2>2, <2>4, <3>2
      <4>2. ASSUME NEW j \in 1 .. (n + 1) - 1, file[j].label = lab
            PROVE  \E r \in 1 .. k - 1 : new[r].name = lab
        <5>1. j \in 1 .. n
          OBVIOUS
        <5>2. PICK r \in 1 .. m : tab[r].name = lab
          BY <1>3, <1>5, <4>2, <5>1
        <5>3. r \in 1 .. k - 1 /\ new[r].name = lab
          BY <1>1, <2>4, <3>2, <5>2
        <5> QED  BY <5>3
      <4>3. n + 1 \in 1 .. n + 1 /\ file[n + 1].label = lab
        BY DEF lab
      <4> QED  BY <1>5, <4>1, <4>2, <4>3
    <3>3. k \in 1 .. m \/ k = m + 1
      BY <1>1
    <3> QED  BY <3>1, <3>2, <3>3, Zenon
  <2>6. ASSUME NEW i \in 1 .. n + 1, file[i].label # NONE
        PROVE  \E k \in 1 .. m + 1 : new[k].name = file[i].label
    <3>1. CASE i \in 1 .. n
      <4>1. PICK k \in 1 .. m : tab[k].name = file[i].label
        BY <1>3, <2>6, <3>1
      <4>2. k \in 1 .. m + 1 /\ new[k].name = file[i].label
        BY <1>1, <2>4, <4>1
      <4> QED  BY <4>2
    <3>2. CASE i = n + 1
      <4>1. m + 1 \in 1 .. m + 1 /\ new[m + 1].name = file[i].label
        BY <1>1, <2>2, <2>4, <3>2 DEF lab
      <4> QED  BY <4>1
    <3>3. i \in 1 .. n \/ i = n + 1
      OBVIOUS
    <3> QED  BY <3>1, <3>2, <3>3, Zenon
  <2> QED  BY <2>4, <2>5, <2>6 DEF Tabled
<1> QED  BY <1>4, <1>5

-----------------------------------------------------------------------------
(* The bytes y64asm gives a line, before and after its relocation. *)
Line == [addr : Int, codes : Seq(ByteValues)]

\* What parse_line takes.
Accepted(l) == /\ Readable1(l)
               /\ l.op = "jmp" => l.sym # NONE
               /\ l.op = "byte" => l.sym = NONE

\* The bytes of a line with a symbol before there is a value for it.
Open(c, l) ==
    /\ c \in Seq(ByteValues) /\ Len(c) = Width(l.op) /\ Width(l.op) \in {8, 9, 10}
    /\ \A k \in 1 .. Width(l.op) - 8 : \A v \in Int : c[k] = CodeAt(l, v, k)
    /\ \A k \in Width(l.op) - 3 .. Width(l.op) : c[k] = 0

\* Addresses have no more than three bytes that are not zero.
LEMMA HighBytes == ASSUME NEW v \in Int, NEW k \in Int, k >= 3 PROVE Byte(v, k) = 0
BY DEF Byte, SMALL

\* The bytes of zero, one by one.
LEMMA ZeroBytes ==
    ASSUME NEW n \in Nat
    PROVE  /\ Bytes(0, n) \in Seq(ByteValues) /\ Len(Bytes(0, n)) = n
           /\ \A k \in 1 .. n : Bytes(0, n)[k] = Byte(0, k - 1)
<1> DEFINE z == 0
<1>1. z \in Int
  OBVIOUS
<1> HIDE DEF z
<1>2. /\ Bytes(z, n) \in Seq(ByteValues) /\ Len(Bytes(z, n)) = n
      /\ \A k \in 1 .. n : Bytes(z, n)[k] = Byte(z, k - 1)
  BY <1>1, BytesAre
<1> QED  BY <1>2 DEF z

\* A line without a symbol needs no relocation.
LEMMA CodesNumber ==
    ASSUME NEW l, IsLine(l), Accepted(l), l.sym = NONE
    PROVE  Coded(Codes(l), l, l.val)
<1>1. l.val \in Int /\ Readable1(l)
  BY DEF IsLine, InputLine, Accepted
<1>2. l.op \in {"nop", "jmp", "irmovq"} \cup Data \cup {"pos", "align", NONE}
  BY Widths DEF IsLine, Accepted, Readable1, InputLine, Instructions, Data
<1>3. l.op # "jmp"
  BY DEF Accepted
<1>4. Codes(l) = Whole(l, l.val)
  <2>1. CASE l.op \in {"nop", "pos", "align", NONE}
    BY <2>1 DEF Codes, Whole, Data, NONE, instr_set
  <2>2. CASE l.op = "irmovq"
    BY <2>2 DEF Codes, Whole, Data, NONE, instr_set
  <2>3. CASE l.op \in Data
    BY <2>3 DEF Codes, Whole, Data, NONE, instr_set, Width
  <2> QED  BY <1>2, <1>3, <2>1, <2>2, <2>3
<1> QED  BY <1>1, <1>4, WholeIs

\* A line with a symbol has zeros in its place.
LEMMA CodesSymbol ==
    ASSUME NEW l, IsLine(l), Accepted(l), l.sym # NONE
    PROVE  /\ Codes(l) \in Seq(ByteValues) /\ Len(Codes(l)) = Width(l.op)
           /\ l.op # "long" => Open(Codes(l), l)
           /\ l.op = "long" => Width(l.op) = 4
<1>1. l.op \in {"jmp", "irmovq", "long", "quad"}
  BY DEF IsLine, Accepted, Data
<1>2. 48 \in ByteValues /\ 112 \in ByteValues /\ 240 \in ByteValues /\ 192 \in ByteValues
  BY DEF ByteValues
<1>3. CASE l.op = "jmp"
  <2> DEFINE s == Bytes(0, 8)
             b == 112
             t == <<b>> \o s
  <2>1. Codes(l) = t
    BY <1>3 DEF Codes, instr_set, Data, NONE
  <2>2. s \in Seq(ByteValues) /\ Len(s) = 8 /\ \A k \in 1 .. 8 : s[k] = Byte(0, k - 1)
    BY ZeroBytes
  <2>3. b \in ByteValues /\ b = 112
    BY <1>2
  <2> HIDE DEF s, b
  <2>4. One(t, b, s)
    BY <2>2, <2>3, OneThen, Zenon
  <2> HIDE DEF t
  <2>5. t \in Seq(ByteValues) /\ Len(t) = 9 /\ t[1] = 112 /\ \A k \in 2 .. 9 : t[k] = Byte(0, k - 2)
    <3>1. t \in Seq(ByteValues) /\ Len(t) = 9 /\ t[1] = 112 /\ \A k \in 2 .. 9 : t[k] = s[k - 1]
      BY <2>2, <2>3, <2>4 DEF One
    <3>2. \A k \in 2 .. 9 : k - 1 \in 1 .. 8 /\ (k - 1) - 1 = k - 2
      OBVIOUS
    <3> QED  BY <2>2, <3>1, <3>2
  <2>6. \A k \in 6 .. 9 : t[k] = 0
    BY <2>5, HighBytes
  <2>7. \A v \in Int : CodeAt(l, v, 1) = 112
    BY <1>3 DEF CodeAt
  <2> QED  BY <1>3, <2>1, <2>5, <2>6, <2>7 DEF Open, Width
<1>4. CASE l.op = "irmovq"
  <2> DEFINE s == Bytes(0, 8)
             b == 48
             c == 240
             t == <<b, c>> \o s
  <2>1. Codes(l) = t
    BY <1>4 DEF Codes, instr_set, Data, NONE
  <2>2. s \in Seq(ByteValues) /\ Len(s) = 8 /\ \A k \in 1 .. 8 : s[k] = Byte(0, k - 1)
    BY ZeroBytes
  <2>3. b \in ByteValues /\ b = 48 /\ c \in ByteValues /\ c = 240
    BY <1>2
  <2> HIDE DEF s, b, c
  <2>4. Two(t, b, c, s)
    BY <2>2, <2>3, TwoThen, Zenon
  <2> HIDE DEF t
  <2>5. /\ t \in Seq(ByteValues) /\ Len(t) = 10 /\ t[1] = 48 /\ t[2] = 240
        /\ \A k \in 3 .. 10 : t[k] = Byte(0, k - 3)
    <3>1. /\ t \in Seq(ByteValues) /\ Len(t) = 10 /\ t[1] = 48 /\ t[2] = 240
          /\ \A k \in 3 .. 10 : t[k] = s[k - 2]
      BY <2>2, <2>3, <2>4 DEF Two
    <3>2. \A k \in 3 .. 10 : k - 2 \in 1 .. 8 /\ (k - 2) - 1 = k - 3
      OBVIOUS
    <3> QED  BY <2>2, <3>1, <3>2
  <2>6. \A k \in 7 .. 10 : t[k] = 0
    BY <2>5, HighBytes
  <2>7. \A v \in Int : CodeAt(l, v, 1) = 48 /\ CodeAt(l, v, 2) = 240
    BY <1>4 DEF CodeAt
  <2> QED  BY <1>4, <2>1, <2>5, <2>6, <2>7 DEF Open, Width
<1>5. ASSUME NEW n \in {3, 7}
      PROVE  /\ <<192>> \o Bytes(0, n) \in Seq(ByteValues)
             /\ Len(<<192>> \o Bytes(0, n)) = n + 1
             /\ \A k \in 5 .. n + 1 : (<<192>> \o Bytes(0, n))[k] = 0
  <2> DEFINE s == Bytes(0, n)
             b == 192
             t == <<b>> \o s
  <2>1. n \in Nat
    OBVIOUS
  <2>2. s \in Seq(ByteValues) /\ Len(s) = n /\ \A k \in 1 .. n : s[k] = Byte(0, k - 1)
    BY <2>1, ZeroBytes
  <2>3. b \in ByteValues /\ b = 192
    BY <1>2
  <2> HIDE DEF s, b
  <2>4. One(t, b, s)
    BY <2>2, <2>3, OneThen, Zenon
  <2> HIDE DEF t
  <2>5. t \in Seq(ByteValues) /\ Len(t) = n + 1 /\ \A k \in 2 .. n + 1 : t[k] = s[k - 1]
    BY <2>2, <2>4 DEF One
  <2>6. ASSUME NEW k \in 5 .. n + 1 PROVE t[k] = 0
    <3>1. k - 1 \in 1 .. n /\ k \in 2 .. n + 1 /\ (k - 1) - 1 >= 3 /\ (k - 1) - 1 \in Int
      BY <2>1
    <3>2. t[k] = Byte(0, (k - 1) - 1)
      BY <2>2, <2>5, <3>1
    <3> QED  BY <3>1, <3>2, HighBytes
  <2> QED  BY <2>5, <2>6 DEF t, s, b
<1>6. CASE l.op = "long"
  <2>1. Codes(l) = <<192>> \o Bytes(0, 3) /\ Width(l.op) = 4
    BY <1>6 DEF Codes, instr_set, Data, NONE, Width
  <2> DEFINE t == <<192>> \o Bytes(0, 3)
  <2>2. t \in Seq(ByteValues) /\ Len(t) = 3 + 1
    BY <1>5
  <2> HIDE DEF t
  <2> QED  BY <1>6, <2>1, <2>2 DEF t
<1>7. CASE l.op = "quad"
  <2> DEFINE t == <<192>> \o Bytes(0, 7)
  <2>1. Codes(l) = t /\ Width(l.op) = 8
    BY <1>7 DEF Codes, instr_set, Data, NONE, Width
  <2>2. t \in Seq(ByteValues) /\ Len(t) = 7 + 1 /\ \A k \in 5 .. 7 + 1 : t[k] = 0
    BY <1>5
  <2> HIDE DEF t
  <2> QED  BY <1>7, <2>1, <2>2 DEF Open
<1> QED  BY <1>1, <1>3, <1>4, <1>6, <1>7

\* r is c with b in place of 4 of its bytes, those after the first n.
Parts(r, c, b, n) == /\ r \in Seq(ByteValues) /\ Len(r) = n + 8
                     /\ \A k \in 1 .. n : r[k] = c[k]
                     /\ \A k \in n + 1 .. n + 4 : r[k] = b[k - n]
                     /\ \A k \in n + 5 .. n + 8 : r[k] = c[k]

\* u is s and then t.
Joined(u, s, t) == /\ u \in Seq(ByteValues) /\ Len(u) = Len(s) + Len(t)
                   /\ \A k \in 1 .. Len(s) : u[k] = s[k]
                   /\ \A k \in Len(s) + 1 .. Len(s) + Len(t) : u[k] = t[k - Len(s)]

\* Sequences of bytes joined, place by place.
LEMMA Joins == ASSUME NEW s \in Seq(ByteValues), NEW t \in Seq(ByteValues)
               PROVE  Joined(s \o t, s, t)
<1> DEFINE u == s \o t
<1>1. /\ u \in Seq(ByteValues) /\ Len(u) = Len(s) + Len(t)
      /\ \A i \in 1 .. Len(s) + Len(t) : u[i] = IF i <= Len(s) THEN s[i] ELSE t[i - Len(s)]
  BY ConcatProperties
<1> DEFINE m == Len(s)
           n == Len(t)
<1>2. m \in Nat /\ n \in Nat
  OBVIOUS
<1> HIDE DEF u
<1>3. Joined(u, s, t)
  <2>1. /\ u \in Seq(ByteValues) /\ Len(u) = m + n
        /\ \A i \in 1 .. m + n : u[i] = IF i <= m THEN s[i] ELSE t[i - m]
    BY <1>1
  <2> HIDE DEF m, n
  <2>2. \A k \in 1 .. m : u[k] = s[k]
    BY <1>2, <2>1
  <2>3. \A k \in m + 1 .. m + n : u[k] = t[k - m]
    BY <1>2, <2>1
  <2> QED  BY <2>1, <2>2, <2>3 DEF Joined, m, n
<1> QED  BY <1>3 DEF u

\* The code written around a relocated word is what was there before.
LEMMA PartsJoined ==
    ASSUME NEW c \in Seq(ByteValues), NEW n \in Nat, NEW b \in Seq(ByteValues), Len(b) = 4,
           NEW p, Len(p) = n, \A i \in 1 .. n : p[i] = c[i],
           NEW q, Len(q) = 4, \A i \in 1 .. 4 : q[i] = c[n + 4 + i],
           NEW u, Joined(u, p, b), NEW r, Joined(r, u, q)
    PROVE  Parts(r, c, b, n)
<1>1. /\ Len(u) = n + 4 /\ \A k \in 1 .. n : u[k] = p[k]
      /\ \A k \in n + 1 .. n + 4 : u[k] = b[k - n]
  BY DEF Joined
<1>2. /\ r \in Seq(ByteValues) /\ Len(r) = (n + 4) + 4 /\ \A k \in 1 .. n + 4 : r[k] = u[k]
      /\ \A k \in (n + 4) + 1 .. (n + 4) + 4 : r[k] = q[k - (n + 4)]
  BY <1>1 DEF Joined
<1>3. \A k \in 1 .. n : r[k] = c[k]
  BY <1>1, <1>2, SMTT(30)
<1>4. \A k \in n + 1 .. n + 4 : r[k] = b[k - n]
  BY <1>1, <1>2, SMTT(30)
<1>5. ASSUME NEW k \in n + 5 .. n + 8 PROVE r[k] = c[k]
  <2> DEFINE i == k - (n + 4)
  <2>1. k \in (n + 4) + 1 .. (n + 4) + 4 /\ i \in 1 .. 4 /\ n + 4 + i = k
    OBVIOUS
  <2>2. r[k] = q[i]
    BY <1>2, <2>1
  <2> HIDE DEF i
  <2>3. q[i] = c[n + 4 + i]
    BY <2>1
  <2> QED  BY <2>1, <2>2, <2>3
<1> QED  BY <1>2, <1>3, <1>4, <1>5 DEF Parts

\* Four bytes of a line replaced, place by place.
LEMMA ThreeParts ==
    ASSUME NEW c \in Seq(ByteValues), NEW n \in Nat, Len(c) = n + 8,
           NEW b \in Seq(ByteValues), Len(b) = 4
    PROVE  Parts(SubSeq(c, 1, n) \o b \o SubSeq(c, n + 5, Len(c)), c, b, n)
<1> DEFINE p == SubSeq(c, 1, n)
           m == Len(c)
           f == n + 5
           q == SubSeq(c, f, m)
           u == p \o b
           r == u \o q
<1>1. m \in Int /\ f \in Int /\ m = n + 8 /\ f = n + 5
  OBVIOUS
<1>2. \A i \in 1 .. n + 8 : c[i] \in ByteValues
  OBVIOUS
<1>3. p \in Seq(ByteValues) /\ Len(p) = n /\ \A i \in 1 .. n : p[i] = c[i]
  <2>1. \A i \in 1 .. n : c[i] \in ByteValues
    BY <1>2
  <2>2. /\ SubSeq(c, 1, n) \in Seq(ByteValues)
        /\ Len(SubSeq(c, 1, n)) = IF 1 <= n THEN n - 1 + 1 ELSE 0
        /\ \A i \in 1 .. n - 1 + 1 : SubSeq(c, 1, n)[i] = c[1 + i - 1]
    BY <2>1, SubSeqProperties
  <2> HIDE DEF p
  <2> QED  BY <2>2 DEF p
<1> HIDE DEF m, f
<1>4. q \in Seq(ByteValues) /\ Len(q) = 4 /\ \A i \in 1 .. 4 : q[i] = c[n + 4 + i]
  <2>1. \A i \in f .. m : c[i] \in ByteValues
    BY <1>1, <1>2
  <2>2. /\ SubSeq(c, f, m) \in Seq(ByteValues)
        /\ Len(SubSeq(c, f, m)) = IF f <= m THEN m - f + 1 ELSE 0
        /\ \A i \in 1 .. m - f + 1 : SubSeq(c, f, m)[i] = c[f + i - 1]
    BY <1>1, <2>1, SubSeqProperties
  <2> HIDE DEF q
  <2>3. m - f + 1 = 4 /\ f <= m
    BY <1>1
  <2>4. \A i \in 1 .. 4 : f + i - 1 = n + 4 + i
    BY <1>1
  <2> QED  BY <2>2, <2>3, <2>4 DEF q
<1> HIDE DEF p, q
<1>5. Joined(u, p, b)
  BY <1>3, Joins, Zenon
<1> HIDE DEF u
<1>6. Joined(r, u, q)
  <2>1. u \in Seq(ByteValues)
    BY <1>5 DEF Joined
  <2> QED  BY <1>4, <2>1, Joins, Zenon
<1> HIDE DEF r
<1>7. Parts(r, c, b, n)
  BY <1>3, <1>4, <1>5, <1>6, PartsJoined
<1> QED  BY <1>7 DEF r, u, p, q, f, m

\* Relocation makes a line whole, unless it is a .long.
LEMMA Relocation ==
    ASSUME NEW l, IsLine(l), Accepted(l), l.sym # NONE, NEW v \in Nat,
           NEW line \in Line, line.codes = Codes(l)
    PROVE  /\ Relocated(line, v) \in Line
           /\ l.op # "long" => /\ Relocated(line, v).addr = line.addr
                               /\ Coded(Relocated(line, v).codes, l, v)
<1> DEFINE c == line.codes
           n == Len(c) - 8
           b == Bytes(v, 4)
           r == SubSeq(c, 1, n) \o b \o SubSeq(c, n + 5, Len(c))
<1>1. c \in Seq(ByteValues) /\ line.addr \in Int /\ c = Codes(l)
  BY DEF Line
<1>2. Relocated(line, v) = IF n < 0 THEN [line EXCEPT !.addr = @ + UPPER * v]
                           ELSE [line EXCEPT !.codes = r]
  BY DEF Relocated
<1>3. CASE l.op = "long"
  <2>1. n < 0
    BY <1>1, <1>3, CodesSymbol
  <2>2. Relocated(line, v) = [line EXCEPT !.addr = @ + UPPER * v]
    BY <1>2, <2>1
  <2>3. line.addr + UPPER * v \in Int
    BY <1>1, AsmAssumption
  <2> QED  BY <1>3, <2>2, <2>3 DEF Line
<1>4. CASE l.op # "long"
  <2>1. Open(c, l)
    BY <1>1, <1>4, CodesSymbol
  <2>2. n \in Nat /\ n = Width(l.op) - 8 /\ Len(c) = n + 8 /\ Width(l.op) = n + 8
    BY <2>1 DEF Open
  <2>3. b \in Seq(ByteValues) /\ Len(b) = 4 /\ \A k \in 1 .. 4 : b[k] = Byte(v, k - 1)
    <3>1. v \in Int
      OBVIOUS
    <3> QED  BY <3>1, BytesAre
  <2>4. Relocated(line, v) = [line EXCEPT !.codes = r]
    BY <1>2, <2>2
  <2> HIDE DEF b, n, c
  <2>0. Parts(r, c, b, n)
    BY <1>1, <2>2, <2>3, ThreeParts, Zenon
  <2> HIDE DEF r
  <2>5. /\ r \in Seq(ByteValues) /\ Len(r) = n + 8
        /\ \A k \in 1 .. n : r[k] = c[k]
        /\ \A k \in n + 1 .. n + 4 : r[k] = b[k - n]
        /\ \A k \in n + 5 .. n + 8 : r[k] = c[k]
    BY <2>0 DEF Parts
  <2>6. /\ \A k \in 1 .. n : c[k] = CodeAt(l, v, k)
        /\ \A k \in n + 5 .. n + 8 : c[k] = 0
    BY <2>1, <2>2 DEF Open
  <2>7. ASSUME NEW k \in n + 1 .. n + 8 PROVE CodeAt(l, v, k) = Byte(v, k - n - 1)
    <3>1. l.op \in {"jmp", "irmovq", "quad"}
      BY <1>4 DEF IsLine, Accepted, Data
    <3>2. CASE l.op = "jmp"
      <4>1. n = 1
        BY <2>2, <3>2 DEF Width
      <4> QED  BY <3>2, <4>1 DEF CodeAt
    <3>3. CASE l.op = "irmovq"
      <4>1. n = 2
        BY <2>2, <3>3 DEF Width
      <4> QED  BY <3>3, <4>1 DEF CodeAt
    <3>4. CASE l.op = "quad"
      <4>1. n = 0
        BY <2>2, <3>4 DEF Width
      <4> QED  BY <3>4, <4>1 DEF CodeAt
    <3> QED  BY <3>1, <3>2, <3>3, <3>4
  <2>8. ASSUME NEW k \in 1 .. n + 8 PROVE r[k] = CodeAt(l, v, k)
    <3>1. CASE k \in 1 .. n
      BY <2>5, <2>6, <3>1
    <3>2. CASE k \in n + 1 .. n + 4
      <4>1. k - n \in 1 .. 4 /\ (k - n) - 1 = k - n - 1 /\ k \in n + 1 .. n + 8
        BY <2>2, <3>2, SMTT(30)
      <4> QED  BY <2>3, <2>5, <2>7, <3>2, <4>1
    <3>3. CASE k \in n + 5 .. n + 8
      <4>1. k - n - 1 >= 3 /\ k - n - 1 \in Int /\ k \in n + 1 .. n + 8
        BY <2>2, <3>3
      <4>2. Byte(v, k - n - 1) = 0
        BY <4>1, HighBytes
      <4> QED  BY <2>5, <2>6, <2>7, <3>3, <4>1, <4>2
    <3> QED  BY <2>2, <3>1, <3>2, <3>3
  <2>9. Coded(r, l, v)
    BY <2>2, <2>5, <2>8 DEF Coded
  <2>10. [line EXCEPT !.codes = r] \in Line
    BY <2>5 DEF Line
  <2>11. [line EXCEPT !.codes = r].addr = line.addr /\ [line EXCEPT !.codes = r].codes = r
    BY DEF Line
  <2> QED  BY <2>4, <2>9, <2>10, <2>11
<1> QED  BY <1>3, <1>4

-----------------------------------------------------------------------------
(* y64asm parses: the lines read so far, their addresses and their labels. *)
Parsed == /\ FileOK
          /\ pc \in {"assemble", "relocate", "binfile", "done", "error", "overrun"}
          /\ lines \in Seq(Line) /\ Len(lines) <= Len(file)
          /\ vmaddr = Start[Len(lines) + 1]
          /\ pc \in {"relocate", "binfile", "done"} => Len(lines) = Len(file)
          /\ \A i \in 1 .. Len(lines) : Accepted(file[i])
          /\ Tabled(symtab, Len(lines), Nat)

\* What depends on the file alone stays as it is.
LEMMA SameFile ==
    ASSUME file' = file
    PROVE  /\ Start' = Start /\ FileOK' = FileOK
           /\ \A name : (Labelled(name))' = Labelled(name)
           /\ \A l : (ValueOf(l))' = ValueOf(l)
           /\ \A i : (LineAt(i))' = LineAt(i)
           /\ \A i : (Bounds(i))' = Bounds(i)
           /\ \A i : (Emitted(i))' = Emitted(i)
<1>1. Start' = Start
  BY DEF Start
<1>2. FileOK' = FileOK
  BY DEF FileOK
<1>3. ASSUME NEW name PROVE (Labelled(name))' = Labelled(name)
  BY DEF Labelled
<1>4. ASSUME NEW l PROVE (ValueOf(l))' = ValueOf(l)
  BY <1>1 DEF ValueOf, Labelled
<1>5. ASSUME NEW i PROVE (LineAt(i))' = LineAt(i)
  BY <1>1 DEF LineAt
<1>6. ASSUME NEW i PROVE (Bounds(i))' = Bounds(i)
  BY <1>1 DEF Bounds
<1>7. ASSUME NEW i PROVE (Emitted(i))' = Emitted(i)
  <2>1. (ValueOf(file[i]))' = ValueOf(file[i])
    BY <1>1 DEF ValueOf, Labelled
  <2> QED  BY <1>1, <2>1 DEF Emitted
<1> QED  BY <1>1, <1>2, <1>3, <1>4, <1>5, <1>6, <1>7

\* A file of the constants is a sequence of lines.
LEMMA FilesAreLines == ASSUME file \in Files PROVE FileOK
BY AsmAssumption DEF FileOK, IsLine

\* parse_line moves vmaddr to where the next line starts.
LEMMA AdvanceIs ==
    ASSUME NEW l, IsLine(l), Accepted(l), vmaddr \in Nat
    PROVE  Advance(l) = After(l, vmaddr)
<1>1. l.op \in Instructions \cup {NONE}
  BY Widths DEF IsLine, Accepted, Readable1, InputLine
<1>2. CASE l.op = NONE
  BY <1>2, AfterIs DEF Advance, NONE, Width
<1>3. CASE l.op \in {"pos", "align"}
  BY <1>3, AfterIs DEF Advance, NONE
<1>4. CASE l.op \in Instructions \ {"pos", "align"}
  <2>1. Advance(l) = vmaddr + instr_set[l.op].bytes
    BY <1>4 DEF Advance, NONE, Instructions
  <2>2. instr_set[l.op].bytes = Width(l.op)
    BY <1>4, Widths
  <2>3. After(l, vmaddr) = vmaddr + Width(l.op)
    BY <1>4, AfterIs
  <2> QED  BY <2>1, <2>2, <2>3
<1> QED  BY <1>1, <1>2, <1>3, <1>4

\* What holds of a line that is not rejected.
LEMMA AcceptedIs == ASSUME NEW l, ~Rejected(l) PROVE Accepted(l)
<1>1. instr_set["byte"].bytes = 1
  BY DEF instr_set
<1> QED  BY <1>1 DEF Rejected, Accepted, Readable1, Data

\* Before its first line a file has defined nothing.
LEMMA TabledNothing == ASSUME NEW E PROVE Tabled(<< >>, 0, E)
<1>1. << >> \in Seq(SymbolEntry) /\ Len(<< >>) = 0
  OBVIOUS
<1>2. \A k \in 1 .. 0 : FALSE
  OBVIOUS
<1> DEFINE t == << >>
<1>3. t \in Seq(SymbolEntry) /\ Len(t) = 0
  BY <1>1
<1> HIDE DEF t
<1>4. Tabled(t, 0, E)
  BY <1>2, <1>3 DEF Tabled
<1> QED  BY <1>4 DEF t

\* At the start nothing has been parsed.
LEMMA InitParsed == ASSUME Init PROVE Parsed
<1>1. FileOK
  BY FilesAreLines DEF Init
<1>2. lines = << >> /\ pc = "assemble" /\ vmaddr = 0 /\ symtab = << >>
  BY DEF Init
<1>3. Len(lines) = 0 /\ lines \in Seq(Line) /\ Len(file) \in Nat
  BY <1>1, <1>2 DEF FileOK
<1>4. Tabled(symtab, Len(lines), Nat)
  <2>1. Tabled(<< >>, 0, Nat)
    BY TabledNothing
  <2> QED  BY <1>2, <1>3, <2>1
<1>5. vmaddr = Start[Len(lines) + 1]
  BY <1>1, <1>2, <1>3, StartIs
<1>6. Len(lines) <= Len(file) /\ \A i \in 1 .. Len(lines) : Accepted(file[i])
  <2>1. 0 <= Len(file) /\ \A i \in 1 .. 0 : FALSE
    BY <1>3
  <2> QED  BY <1>3, <2>1
<1>7. pc \in {"assemble", "relocate", "binfile", "done", "error", "overrun"}
      /\ ~(pc \in {"relocate", "binfile", "done"})
  BY <1>2
<1> QED  BY <1>1, <1>3, <1>4, <1>5, <1>6, <1>7, Zenon DEF Parsed

\* What parse_line finds and does with line n + 1.
LEMMA LineParsed ==
    ASSUME Parsed, parse_line, NEW n, n = Len(lines), NEW l, l = file[n + 1]
    PROVE  /\ n \in Nat /\ n + 1 <= Len(file) /\ n + 1 \in 1 .. Len(file)
           /\ IsLine(l) /\ Accepted(l) /\ vmaddr = Start[n + 1] /\ vmaddr \in Nat
           /\ vmaddr' = Start[n + 2]
           /\ LineAddress(l) = LineAt(n + 1)
           /\ [addr |-> LineAddress(l), codes |-> Codes(l)] \in Line
           /\ lines' \in Seq(Line) /\ Len(lines') = n + 1
           /\ \A i \in 1 .. n : lines'[i] = lines[i]
           /\ lines'[n + 1] = [addr |-> LineAt(n + 1), codes |-> Codes(l)]
<1> DEFINE N == Len(file)
           L == [addr |-> LineAddress(l), codes |-> Codes(l)]
<1>1. n \in Nat /\ N \in Nat /\ n < N /\ FileOK
  BY DEF Parsed, FileOK, parse_line
<1>2. n + 1 <= N /\ n + 1 \in 1 .. N /\ n + 1 \in 1 .. N + 1 /\ (n + 1) + 1 = n + 2
  <2> HIDE DEF N
  <2> QED  BY <1>1
<1>3. IsLine(l)
  BY <1>1, <1>2 DEF FileOK
<1>4. Accepted(l)
  BY AcceptedIs DEF parse_line
<1>5. vmaddr = Start[n + 1] /\ vmaddr \in Nat
  <2>1. Start \in [1 .. N + 1 -> Nat] /\ vmaddr = Start[n + 1]
    BY <1>1, StartIs DEF Parsed
  <2> QED  BY <1>2, <2>1
<1>6. Advance(l) = Start[n + 2]
  <2>1. Start[(n + 1) + 1] = After(file[n + 1], Start[n + 1])
    BY <1>1, <1>2, StartIs
  <2>2. Advance(l) = After(l, vmaddr)
    BY <1>3, <1>4, <1>5, AdvanceIs
  <2> QED  BY <1>2, <1>5, <2>1, <2>2
<1>7. LineAddress(l) = LineAt(n + 1)
  BY <1>2, <1>5, <1>6 DEF LineAddress, LineAt
<1>8. LineAddress(l) \in Int
  <2>1. After(l, vmaddr) \in Nat
    BY <1>3, <1>5, AfterIs
  <2>2. Advance(l) = After(l, vmaddr)
    BY <1>3, <1>4, <1>5, AdvanceIs
  <2> QED  BY <1>5, <2>1, <2>2 DEF LineAddress
<1>9. Codes(l) \in Seq(ByteValues)
  <2>1. CASE l.sym = NONE
    BY <1>3, <1>4, <2>1, CodesNumber DEF Coded
  <2>2. CASE l.sym # NONE
    BY <1>3, <1>4, <2>2, CodesSymbol
  <2> QED  BY <2>1, <2>2
<1>10. L \in Line
  BY <1>8, <1>9 DEF Line
<1>11. lines' = Append(lines, L) /\ vmaddr' = Advance(l)
  BY DEF parse_line
<1>12. L = [addr |-> LineAt(n + 1), codes |-> Codes(l)]
  BY <1>7
<1> HIDE DEF L
<1>13. /\ lines' \in Seq(Line) /\ Len(lines') = Len(lines) + 1
       /\ \A i \in 1 .. Len(lines) : lines'[i] = lines[i]
       /\ lines'[Len(lines) + 1] = L
  <2>1. lines \in Seq(Line)
    BY DEF Parsed
  <2> QED  BY <1>10, <1>11, <2>1, AppendProperties
<1> QED  BY <1>1, <1>2, <1>3, <1>4, <1>5, <1>6, <1>7, <1>10, <1>11, <1>12, <1>13 DEF L

\* parse_line keeps what is known of the lines parsed so far.
LEMMA ParseParsed == ASSUME Parsed, parse_line PROVE Parsed'
<1> DEFINE n == Len(lines)
           l == file[n + 1]
<1>1. /\ n \in Nat /\ n + 1 <= Len(file) /\ n + 1 \in 1 .. Len(file)
      /\ Accepted(l) /\ vmaddr = Start[n + 1] /\ vmaddr \in Nat
      /\ vmaddr' = Start[n + 2] /\ lines' \in Seq(Line) /\ Len(lines') = n + 1
  BY LineParsed
<1>2. file' = file /\ pc' = pc /\ pc = "assemble"
  BY DEF parse_line
<1>3. FileOK /\ FileOK' /\ Start' = Start
  BY <1>2, SameFile DEF Parsed
<1>4. symtab' = IF l.label = NONE THEN symtab
                ELSE Append(symtab, [name |-> l.label, addr |-> vmaddr])
  BY DEF parse_line
<1>5. Tabled(symtab', n + 1, Nat)
  <2>1. Tabled(symtab, n, Nat)
    BY DEF Parsed
  <2>2. vmaddr \in Int
    BY <1>1
  <2> HIDE DEF n
  <2> QED  BY <1>1, <1>3, <1>4, <2>1, <2>2, TabledStep
<1>6. (Tabled(symtab, Len(lines), Nat))'
  <2>1. Tabled(symtab', Len(lines'), Nat)
    BY <1>1, <1>5
  <2> QED  BY <1>2, <1>3, <2>1 DEF Tabled
<1>7. \A i \in 1 .. n : Accepted(file[i])
  BY DEF Parsed
<1> HIDE DEF n
<1>8. \A i \in 1 .. n + 1 : Accepted(file[i])
  BY <1>1, <1>7
<1>9. (vmaddr = Start[Len(lines) + 1])'
  <2>1. Len(lines') + 1 = n + 2
    BY <1>1
  <2> QED  BY <1>1, <1>3, <2>1
<1>10. Len(lines') <= Len(file') /\ \A i \in 1 .. Len(lines') : Accepted(file'[i])
  BY <1>1, <1>2, <1>8
<1> QED  BY <1>1, <1>2, <1>3, <1>6, <1>9, <1>10 DEF Parsed

-----------------------------------------------------------------------------
(* The relocations: what is left to do, and the lines whose bytes are whole. *)
Reloc == [name : STRING, line : Nat]

Pending(i) == \E k \in 1 .. Len(reltab) : reltab[k].line = i
LongUse(l) == l.op = "long" /\ l.sym # NONE

\* Line i has the address and the bytes the input gives it.
Complete(i) ==
    /\ file[i].sym # NONE => Labelled(file[i].sym) # {}
    /\ ~LongUse(file[i]) => /\ lines[i].addr = LineAt(i)
                            /\ Coded(lines[i].codes, file[i], ValueOf(file[i]))

Relocs ==
    /\ reltab \in Seq(Reloc)
    /\ \A k \in 1 .. Len(reltab) :
          /\ reltab[k].line \in 1 .. Len(lines)
          /\ reltab[k].name = file[reltab[k].line].sym /\ reltab[k].name # NONE
    /\ \A j, k \in 1 .. Len(reltab) : j < k => reltab[j].line < reltab[k].line
    /\ pc \in {"binfile", "done"} => reltab = << >>
    /\ \A i \in 1 .. Len(lines) :
          /\ Pending(i) => lines[i] = [addr |-> LineAt(i), codes |-> Codes(file[i])]
          /\ ~Pending(i) => Complete(i)

\* relocate makes the first line of reltab whole and leaves the others.
LEMMA LineRelocated ==
    ASSUME Parsed, Relocs, relocate, NEW i, i = Head(reltab).line, NEW l, l = file[i]
    PROVE  /\ i \in 1 .. Len(lines) /\ i = reltab[1].line /\ Len(reltab) >= 1
           /\ Labelled(l.sym) # {}
           /\ lines' \in Seq(Line) /\ Len(lines') = Len(lines)
           /\ \A j \in 1 .. Len(lines) : j # i => lines'[j] = lines[j]
           /\ ~LongUse(l) => /\ lines'[i].addr = LineAt(i)
                             /\ Coded(lines'[i].codes, l, ValueOf(l))
           /\ reltab' \in Seq(Reloc) /\ Len(reltab') = Len(reltab) - 1
           /\ \A k \in 1 .. Len(reltab') : reltab'[k] = reltab[k + 1]
<1> DEFINE n == Len(lines)
           m == Len(reltab)
           rel == Head(reltab)
           s == find_symbol(rel.name)
           v == symtab[s].addr
<1>1. /\ reltab \in Seq(Reloc) /\ reltab # << >> /\ m \in Nat /\ m >= 1 /\ rel = reltab[1]
      /\ s # 0 /\ file' = file
      /\ lines' = [lines EXCEPT ![rel.line] = Relocated(@, v)] /\ reltab' = Tail(reltab)
  BY DEF relocate, Relocs
<1>2. FileOK /\ lines \in Seq(Line) /\ n \in Nat /\ n <= Len(file) /\ Tabled(symtab, n, Nat)
  <2>1. FileOK /\ lines \in Seq(Line) /\ Len(lines) <= Len(file) /\ Tabled(symtab, Len(lines), Nat)
    BY Zenon DEF Parsed
  <2>2. Len(lines) \in Nat
    BY <2>1
  <2> QED  BY <2>1, <2>2
<1>3. i \in 1 .. n /\ rel.name = l.sym /\ l.sym # NONE /\ i = rel.line
  <2>1. 1 \in 1 .. Len(reltab)
    BY <1>1
  <2> QED  BY <1>1, <2>1 DEF Relocs
<1>4. IsLine(l) /\ Accepted(l) /\ i \in 1 .. Len(file)
  <2>1. i \in 1 .. Len(file)
    BY <1>2, <1>3 DEF FileOK
  <2> QED  BY <1>3, <2>1 DEF Parsed, FileOK
<1>5. lines[i] = [addr |-> LineAt(i), codes |-> Codes(l)] /\ lines[i] \in Line
  <2>1. Pending(i)
    BY <1>1, <1>3 DEF Pending
  <2> QED  BY <1>2, <1>3, <2>1 DEF Relocs
<1>6. Labelled(l.sym) # {} /\ v = Start[FirstAt(l.sym)]
  <2>1. symtab \in Seq(SymbolEntry)
    BY <1>2 DEF Tabled
  <2>2. Found(s, symtab, l.sym)
    BY <1>3, <2>1, FindSymbol
  <2> HIDE DEF s, n, v
  <2>3. /\ Labelled(l.sym) # {}
        /\ FirstAt(l.sym) \in Nat => symtab[s].addr = Start[FirstAt(l.sym)]
    BY <1>1, <1>2, <2>2, TabledValue
  <2>4. FirstAt(l.sym) \in 1 .. Len(file)
    BY <1>2, <2>3, FirstLabelled
  <2> QED  BY <2>3, <2>4 DEF v
<1>7. v \in Nat /\ v = ValueOf(l)
  <2>1. FirstAt(l.sym) \in 1 .. Len(file)
    BY <1>2, <1>6, FirstLabelled
  <2>2. FirstAt(l.sym) \in 1 .. Len(file) + 1 /\ Start \in [1 .. Len(file) + 1 -> Nat]
    BY <1>2, <2>1, StartIs DEF FileOK
  <2>3. ValueOf(l) = Start[FirstAt(l.sym)]
    BY <1>2, <1>3, <1>4, <1>6, ValueIs
  <2> QED  BY <1>6, <2>2, <2>3
<1> HIDE DEF v, s, rel
<1> DEFINE r == Relocated(lines[i], v)
<1>8. /\ r \in Line
      /\ l.op # "long" => r.addr = LineAt(i) /\ Coded(r.codes, l, v)
  <2> DEFINE line == lines[i]
  <2>1. line \in Line /\ line.codes = Codes(l) /\ line.addr = LineAt(i)
    BY <1>5
  <2> HIDE DEF line
  <2>2. /\ Relocated(line, v) \in Line
        /\ l.op # "long" => /\ Relocated(line, v).addr = line.addr
                            /\ Coded(Relocated(line, v).codes, l, v)
    BY <1>3, <1>4, <1>7, <2>1, Relocation
  <2> QED  BY <2>1, <2>2 DEF line
<1>9. lines' = [lines EXCEPT ![i] = r]
  BY <1>1, <1>3
<1> HIDE DEF r
<1>10. /\ lines' \in Seq(Line) /\ Len(lines') = n /\ lines'[i] = r
       /\ \A j \in 1 .. n : j # i => lines'[j] = lines[j]
  BY <1>2, <1>3, <1>8, <1>9
<1>11. /\ reltab' \in Seq(Reloc) /\ Len(reltab') = m - 1
       /\ \A k \in 1 .. Len(reltab') : reltab'[k] = reltab[k + 1]
  BY <1>1, HeadTailProperties
<1> QED  BY <1>1, <1>3, <1>6, <1>7, <1>8, <1>10, <1>11 DEF LongUse, rel

\* relocate keeps it,
LEMMA RelocateParsed == ASSUME Parsed, Relocs, relocate PROVE Parsed'
<1>1. lines' \in Seq(Line) /\ Len(lines') = Len(lines)
  BY LineRelocated
<1>2. file' = file /\ vmaddr' = vmaddr /\ symtab' = symtab /\ pc' = pc
  BY DEF relocate
<1>3. Start' = Start /\ FileOK' = FileOK
  BY <1>2, SameFile
<1>4. (Tabled(symtab, Len(lines), Nat))'
  <2>1. Tabled(symtab', Len(lines'), Nat)
    BY <1>1, <1>2 DEF Parsed
  <2> QED  BY <1>2, <1>3, <2>1 DEF Tabled
<1> QED  BY <1>1, <1>2, <1>3, <1>4 DEF Parsed

\* and so every step does.
LEMMA NextParsed == ASSUME Parsed, Relocs, [Next]_vars PROVE Parsed'
<1>1. CASE parse_line
  BY <1>1, ParseParsed
<1>2. CASE relocate
  BY <1>2, RelocateParsed
<1>3. ASSUME file' = file, lines' = lines, vmaddr' = vmaddr, symtab' = symtab,
             \/ pc' \in {pc, "error", "overrun"}
             \/ pc = "assemble" /\ Len(lines) = Len(file) /\ pc' = "relocate"
             \/ pc \in {"relocate", "binfile"} /\ pc' \in {"binfile", "done"}
      PROVE  Parsed'
  <2>1. Start' = Start /\ FileOK' = FileOK
    BY <1>3, SameFile
  <2>2. (Tabled(symtab, Len(lines), Nat))'
    <3>1. Tabled(symtab', Len(lines'), Nat)
      BY <1>3 DEF Parsed
    <3> QED  BY <1>3, <2>1, <3>1 DEF Tabled
  <2>3. /\ pc' \in {"assemble", "relocate", "binfile", "done", "error", "overrun"}
        /\ pc' \in {"relocate", "binfile", "done"} => Len(lines) = Len(file)
    BY <1>3 DEF Parsed
  <2> QED  BY <1>3, <2>1, <2>2, <2>3 DEF Parsed
<1>4. CASE parse_error
  BY <1>3, <1>4 DEF parse_error, Fail
<1>5. CASE end_of_file
  BY <1>3, <1>5 DEF end_of_file
<1>6. CASE relocate_error
  BY <1>3, <1>6 DEF relocate_error, Fail
<1>7. CASE relocated
  BY <1>3, <1>7 DEF relocated
<1>8. CASE binfile
  BY <1>3, <1>8 DEF binfile
<1>9. CASE written
  BY <1>3, <1>9 DEF written
<1>10. CASE binfile_overrun
  BY <1>3, <1>10 DEF binfile_overrun
<1>11. CASE UNCHANGED vars
  BY <1>3, <1>11 DEF vars
<1> QED  BY <1>1, <1>2, <1>4, <1>5, <1>6, <1>7, <1>8, <1>9, <1>10, <1>11 DEF Next

\* A line that is not touched stays complete.
LEMMA CompleteSame == ASSUME file' = file, NEW i, lines'[i] = lines[i], Complete(i)
                      PROVE  (Complete(i))'
BY SameFile DEF Complete

\* At the start there is nothing to relocate.
LEMMA InitRelocs == ASSUME Init PROVE Relocs
<1>1. reltab = << >> /\ Len(reltab) = 0 /\ lines = << >> /\ Len(lines) = 0
  BY DEF Init
<1>2. reltab \in Seq(Reloc) /\ \A k \in 1 .. 0 : FALSE
  BY <1>1
<1> QED  BY <1>1, <1>2 DEF Relocs

\* What parse_line does with the relocations.
LEMMA UseAdded ==
    ASSUME Parsed, Relocs, parse_line, NEW n, n = Len(lines), NEW l, l = file[n + 1],
           NEW m, m = Len(reltab)
    PROVE  /\ m \in Nat /\ reltab' \in Seq(Reloc)
           /\ l.sym = NONE => reltab' = reltab
           /\ l.sym # NONE => /\ Len(reltab') = m + 1
                              /\ \A k \in 1 .. m : reltab'[k] = reltab[k]
                              /\ reltab'[m + 1].name = l.sym /\ reltab'[m + 1].line = n + 1
<1> DEFINE e == [name |-> l.sym, line |-> n + 1]
<1>1. reltab \in Seq(Reloc) /\ m \in Nat
  <2>1. reltab \in Seq(Reloc)
    BY Zenon DEF Relocs
  <2> QED  BY <2>1
<1>2. n + 1 \in Nat /\ l.sym \in STRING
  <2>1. n \in Nat /\ IsLine(l)
    BY LineParsed
  <2>2. l \in InputLine
    BY <2>1, Zenon DEF IsLine
  <2> QED  BY <2>1, <2>2 DEF InputLine
<1>3. e \in Reloc /\ e.name = l.sym /\ e.line = n + 1
  BY <1>2 DEF Reloc
<1>4. reltab' = reltab \o (IF l.sym = NONE THEN << >> ELSE <<e>>)
  BY DEF parse_line, Use
<1>5. CASE l.sym = NONE
  BY <1>1, <1>4, <1>5, ConcatEmptySeq
<1>6. CASE l.sym # NONE
  <2> HIDE DEF e
  <2>1. reltab' = Append(reltab, e)
    BY <1>1, <1>3, <1>4, <1>6, AppendIsConcat
  <2>2. /\ Append(reltab, e) \in Seq(Reloc) /\ Len(Append(reltab, e)) = Len(reltab) + 1
        /\ \A k \in 1 .. Len(reltab) : Append(reltab, e)[k] = reltab[k]
        /\ Append(reltab, e)[Len(reltab) + 1] = e
    BY <1>1, <1>3, AppendProperties
  <2> QED  BY <1>1, <1>3, <1>6, <2>1, <2>2
<1> QED  BY <1>1, <1>5, <1>6

\* parse_line records the places to relocate.
LEMMA ParseRelocs == ASSUME Parsed, Relocs, parse_line PROVE Relocs'
<1> DEFINE n == Len(lines)
           m == Len(reltab)
           l == file[n + 1]
<1>1. /\ n \in Nat /\ n + 1 \in 1 .. Len(file) /\ IsLine(l) /\ Accepted(l)
      /\ Len(lines') = n + 1 /\ \A i \in 1 .. n : lines'[i] = lines[i]
      /\ lines'[n + 1] = [addr |-> LineAt(n + 1), codes |-> Codes(l)]
  BY LineParsed
<1>2. /\ m \in Nat /\ reltab' \in Seq(Reloc)
      /\ l.sym = NONE => reltab' = reltab
      /\ l.sym # NONE => /\ Len(reltab') = m + 1
                         /\ \A k \in 1 .. m : reltab'[k] = reltab[k]
                         /\ reltab'[m + 1].name = l.sym /\ reltab'[m + 1].line = n + 1
  BY UseAdded
<1>3. file' = file /\ pc' = "assemble" /\ FileOK
  BY DEF parse_line, Parsed
<1>4. /\ \A k \in 1 .. m : /\ reltab[k].line \in 1 .. n
                           /\ reltab[k].name = file[reltab[k].line].sym /\ reltab[k].name # NONE
      /\ \A j, k \in 1 .. m : j < k => reltab[j].line < reltab[k].line
  BY DEF Relocs
<1>5. \A i \in 1 .. n : /\ Pending(i) => lines[i] = [addr |-> LineAt(i), codes |-> Codes(file[i])]
                        /\ ~Pending(i) => Complete(i)
  BY DEF Relocs
<1>6. \A i : Pending(i) <=> \E k \in 1 .. m : reltab[k].line = i
  BY DEF Pending
<1>7. \A i : (Pending(i))' <=> \E k \in 1 .. Len(reltab') : reltab'[k].line = i
  BY DEF Pending
<1>8. \A i \in 1 .. n + 1 : (LineAt(i))' = LineAt(i)
  BY <1>3, SameFile
<1> DEFINE M == Len(reltab')
<1>9. l = file[n + 1]
  OBVIOUS
<1> HIDE DEF n, m, l
<1>0. PICK w : w = n + 1
  OBVIOUS
<1>10. /\ \A k \in 1 .. M : /\ reltab'[k].line \in 1 .. n + 1
                            /\ reltab'[k].name = file[reltab'[k].line].sym
                            /\ reltab'[k].name # NONE
       /\ \A j, k \in 1 .. M : j < k => reltab'[j].line < reltab'[k].line
       /\ \A i \in 1 .. n : (Pending(i))' <=> Pending(i)
       /\ (Pending(w))' <=> l.sym # NONE
  <2>1. CASE l.sym = NONE
    <3>1. reltab' = reltab /\ M = m
      BY <1>2, <2>1 DEF m
    <3>2. ~(n + 1 \in 1 .. n) /\ \A i \in 1 .. n : i \in 1 .. n + 1
      BY <1>1
    <3>3. ~(Pending(w))'
      <4>1. ~ \E k \in 1 .. m : reltab[k].line = w
        BY <1>0, <1>4, <3>2
      <4>2. (Pending(w))' <=> \E k \in 1 .. m : reltab[k].line = w
        BY <1>7, <3>1 DEF M
      <4> QED  BY <4>1, <4>2
    <3>4. \A i \in 1 .. n : (Pending(i))' <=> Pending(i)
      BY <1>6, <1>7, <3>1
    <3> QED  BY <1>4, <2>1, <3>1, <3>2, <3>3, <3>4
  <2>2. CASE l.sym # NONE
    <3>1. /\ M = m + 1 /\ \A k \in 1 .. m : reltab'[k] = reltab[k]
          /\ reltab'[m + 1].name = l.sym /\ reltab'[m + 1].line = n + 1
      BY <1>2, <2>2
    <3> HIDE DEF M
    <3>2. ASSUME NEW k \in 1 .. M
          PROVE  /\ reltab'[k].line \in 1 .. n + 1
                 /\ reltab'[k].name = file[reltab'[k].line].sym /\ reltab'[k].name # NONE
      <4>1. CASE k \in 1 .. m
        BY <1>1, <1>4, <3>1, <4>1
      <4>2. CASE k = m + 1
        BY <1>1, <1>9, <2>2, <3>1, <4>2
      <4>3. k \in 1 .. m \/ k = m + 1
        BY <1>2, <3>1
      <4> QED  BY <4>1, <4>2, <4>3, Zenon
    <3>3. ASSUME NEW j \in 1 .. M, NEW k \in 1 .. M, j < k
          PROVE  reltab'[j].line < reltab'[k].line
      <4>1. j \in 1 .. m /\ (k \in 1 .. m \/ k = m + 1)
        BY <1>2, <3>1, <3>3
      <4> QED  BY <1>1, <1>4, <3>1, <3>3, <4>1
    <3>4. ASSUME NEW i \in 1 .. n PROVE (Pending(i))' <=> Pending(i)
      <4>1. ASSUME NEW k \in 1 .. M, reltab'[k].line = i PROVE Pending(i)
        <5>1. k # m + 1
          BY <1>1, <3>1, <4>1
        <5>2. k \in 1 .. m
          BY <1>2, <3>1, <5>1
        <5> QED  BY <1>6, <3>1, <4>1, <5>2
      <4>2. ASSUME NEW k \in 1 .. m, reltab[k].line = i PROVE (Pending(i))'
        <5>1. k \in 1 .. M
          BY <1>2, <3>1
        <5> QED  BY <1>7, <3>1, <4>2, <5>1 DEF M
      <4> QED  BY <1>6, <1>7, <4>1, <4>2 DEF M
    <3>5. (Pending(w))'
      <4>1. m + 1 \in 1 .. M
        BY <1>2, <3>1
      <4> QED  BY <1>0, <1>7, <3>1, <4>1 DEF M
    <3> QED  BY <2>2, <3>2, <3>3, <3>4, <3>5
  <2> QED  BY <2>1, <2>2
<1>11. ASSUME NEW i \in 1 .. n + 1
       PROVE  /\ (Pending(i))' => lines'[i] = [addr |-> LineAt(i), codes |-> Codes(file[i])]
              /\ ~(Pending(i))' => (Complete(i))'
  <2>1. CASE i \in 1 .. n
    <3>1. lines'[i] = lines[i] /\ ((Pending(i))' <=> Pending(i))
      BY <1>1, <1>10, <2>1
    <3>2. Complete(i) => (Complete(i))'
      BY <1>3, <3>1, CompleteSame
    <3> QED  BY <1>5, <2>1, <3>1, <3>2
  <2>2. CASE i = n + 1
    <3>1. l.sym = NONE => (Complete(i))'
      <4> SUFFICES ASSUME l.sym = NONE PROVE (Complete(i))'
        OBVIOUS
      <4>1. Coded(Codes(l), l, l.val)
        BY <1>1, CodesNumber
      <4>2. ValueOf(l) = l.val
        BY DEF ValueOf
      <4>3. file'[i] = l /\ (LineAt(i))' = LineAt(i) /\ (ValueOf(file[i]))' = ValueOf(l)
        <5>1. file[i] = l
          BY <1>9, <2>2
        <5> QED  BY <1>3, <5>1, SameFile
      <4>4. lines'[i].addr = LineAt(i) /\ lines'[i].codes = Codes(l)
        BY <1>1, <2>2
      <4> QED  BY <4>1, <4>2, <4>3, <4>4 DEF Complete
    <3> QED  BY <1>0, <1>1, <1>9, <1>10, <2>2, <3>1
  <2>3. i \in 1 .. n \/ i = n + 1
    BY <1>1
  <2> QED  BY <2>1, <2>2, <2>3, Zenon
<1>12. pc' \notin {"binfile", "done"}
  BY <1>3
<1>13. \A i \in 1 .. Len(lines') :
           /\ (Pending(i))' => lines'[i] = [addr |-> LineAt(i), codes |-> Codes(file[i])]'
           /\ ~(Pending(i))' => (Complete(i))'
  BY <1>1, <1>3, <1>8, <1>11
<1>14. \A k \in 1 .. Len(reltab') :
           /\ reltab'[k].line \in 1 .. Len(lines')
           /\ reltab'[k].name = file'[reltab'[k].line].sym /\ reltab'[k].name # NONE
  BY <1>1, <1>3, <1>10
<1>15. \A j, k \in 1 .. Len(reltab') : j < k => reltab'[j].line < reltab'[k].line
  BY <1>10
<1> QED  BY <1>2, <1>12, <1>13, <1>14, <1>15 DEF Relocs

\* relocate resolves them in turn.
LEMMA RelocateRelocs == ASSUME Parsed, Relocs, relocate PROVE Relocs'
<1>0. PICK h : h = Head(reltab).line
  OBVIOUS
<1> DEFINE n == Len(lines)
           m == Len(reltab)
           l == file[h]
           M == Len(reltab')
<1>1. /\ h \in 1 .. n /\ h = reltab[1].line /\ m >= 1
      /\ Labelled(l.sym) # {}
      /\ lines' \in Seq(Line) /\ Len(lines') = n
      /\ \A j \in 1 .. n : j # h => lines'[j] = lines[j]
      /\ ~LongUse(l) => lines'[h].addr = LineAt(h) /\ Coded(lines'[h].codes, l, ValueOf(l))
      /\ reltab' \in Seq(Reloc) /\ M = m - 1
      /\ \A k \in 1 .. M : reltab'[k] = reltab[k + 1]
  BY <1>0, LineRelocated
<1>2. file' = file /\ pc' = "relocate" /\ m \in Nat
  BY DEF relocate, Relocs
<1>3. /\ \A k \in 1 .. m : /\ reltab[k].line \in 1 .. n
                           /\ reltab[k].name = file[reltab[k].line].sym /\ reltab[k].name # NONE
      /\ \A j, k \in 1 .. m : j < k => reltab[j].line < reltab[k].line
  BY DEF Relocs
<1>4. \A i \in 1 .. n : /\ Pending(i) => lines[i] = [addr |-> LineAt(i), codes |-> Codes(file[i])]
                        /\ ~Pending(i) => Complete(i)
  BY DEF Relocs
<1>5. \A i : Pending(i) <=> \E k \in 1 .. m : reltab[k].line = i
  BY DEF Pending
<1>6. \A i : (Pending(i))' <=> \E k \in 1 .. M : reltab'[k].line = i
  BY DEF Pending
<1>7. l = file[h] /\ \A i : (LineAt(i))' = LineAt(i)
  BY <1>2, SameFile
<1> HIDE DEF n, m, l, M
<1>8. \A k \in 1 .. M : k + 1 \in 1 .. m /\ reltab'[k] = reltab[k + 1]
  BY <1>1, <1>2
<1>9. ASSUME NEW i PROVE (Pending(i))' <=> Pending(i) /\ i # h
  <2>1. ASSUME NEW k \in 1 .. M, reltab'[k].line = i PROVE Pending(i) /\ i # h
    <3>1. k + 1 \in 1 .. m /\ reltab[k + 1].line = i
      BY <1>8, <2>1
    <3>2. 1 \in 1 .. m /\ 1 < k + 1
      BY <1>1, <1>2
    <3>3. h < i
      BY <1>1, <1>3, <3>1, <3>2
    <3>4. h \in Int /\ i \in Int
      BY <1>1, <1>3, <3>1
    <3> QED  BY <1>5, <3>1, <3>3, <3>4
  <2>2. ASSUME NEW k \in 1 .. m, reltab[k].line = i, i # h PROVE (Pending(i))'
    <3>1. k # 1
      BY <1>1, <2>2
    <3>2. k - 1 \in 1 .. M /\ (k - 1) + 1 = k
      BY <1>1, <1>2, <3>1
    <3>3. reltab'[k - 1].line = i
      BY <1>8, <2>2, <3>2
    <3> QED  BY <1>6, <3>2, <3>3
  <2> QED  BY <1>5, <1>6, <2>1, <2>2
<1>10. ASSUME NEW i \in 1 .. n
       PROVE  /\ (Pending(i))' => lines'[i] = [addr |-> LineAt(i), codes |-> Codes(file[i])]
              /\ ~(Pending(i))' => (Complete(i))'
  <2>1. CASE i # h
    <3>1. lines'[i] = lines[i] /\ ((Pending(i))' <=> Pending(i))
      BY <1>1, <1>9, <2>1
    <3>2. Complete(i) => (Complete(i))'
      BY <1>2, <3>1, CompleteSame
    <3> QED  BY <1>4, <3>1, <3>2
  <2>2. CASE i = h
    <3>1. ~(Pending(i))'
      BY <1>9, <2>2
    <3>2. file'[i] = l /\ (LineAt(i))' = LineAt(i) /\ (ValueOf(file[i]))' = ValueOf(l)
          /\ (Labelled(file[i].sym))' = Labelled(l.sym)
      <4>1. file[i] = l
        BY <1>7, <2>2
      <4> QED  BY <1>2, <4>1, SameFile
    <3>3. (Complete(i))'
      BY <1>1, <2>2, <3>2 DEF Complete
    <3> QED  BY <3>1, <3>3
  <2> QED  BY <2>1, <2>2
<1>11. \A i \in 1 .. Len(lines') :
           /\ (Pending(i))' => lines'[i] = [addr |-> LineAt(i), codes |-> Codes(file[i])]'
           /\ ~(Pending(i))' => (Complete(i))'
  BY <1>1, <1>2, <1>7, <1>10
<1>12. \A k \in 1 .. M : /\ reltab'[k].line \in 1 .. Len(lines')
                         /\ reltab'[k].name = file'[reltab'[k].line].sym /\ reltab'[k].name # NONE
  BY <1>1, <1>2, <1>3, <1>8, SMTT(30)
<1>13. \A j, k \in 1 .. M : j < k => reltab'[j].line < reltab'[k].line
  <2>1. \A j, k \in 1 .. M : j < k => j + 1 < k + 1
    BY <1>1, <1>2
  <2> QED  BY <1>3, <1>8, <2>1
<1> QED  BY <1>1, <1>2, <1>11, <1>12, <1>13 DEF Relocs, M

\* Every step keeps what is known of them.
LEMMA NextRelocs == ASSUME Parsed, Relocs, [Next]_vars PROVE Relocs'
<1>1. CASE parse_line
  BY <1>1, ParseRelocs
<1>2. CASE relocate
  BY <1>2, RelocateRelocs
<1>3. ASSUME file' = file, lines' = lines, reltab' = reltab,
             pc' \in {"binfile", "done"} => pc' = pc \/ pc = "binfile" \/ reltab = << >>
      PROVE  Relocs'
  <2>1. \A i : (LineAt(i))' = LineAt(i)
    BY <1>3, SameFile
  <2>2. \A i : Complete(i) => (Complete(i))'
    BY <1>3, CompleteSame
  <2>3. \A i : (Pending(i))' <=> Pending(i)
    BY <1>3 DEF Pending
  <2>4. pc' \in {"binfile", "done"} => reltab = << >>
    BY <1>3 DEF Relocs
  <2>5. \A i \in 1 .. Len(lines') :
           /\ (Pending(i))' => lines'[i] = [addr |-> LineAt(i), codes |-> Codes(file[i])]'
           /\ ~(Pending(i))' => (Complete(i))'
    BY <1>3, <2>1, <2>2, <2>3 DEF Relocs
  <2> QED  BY <1>3, <2>4, <2>5 DEF Relocs
<1>4. CASE parse_error
  BY <1>3, <1>4 DEF parse_error, Fail
<1>5. CASE end_of_file
  BY <1>3, <1>5 DEF end_of_file
<1>6. CASE relocate_error
  BY <1>3, <1>6 DEF relocate_error, Fail
<1>7. CASE relocated
  BY <1>3, <1>7 DEF relocated
<1>8. CASE binfile
  BY <1>3, <1>8 DEF binfile
<1>9. CASE written
  BY <1>3, <1>9 DEF written
<1>10. CASE binfile_overrun
  BY <1>3, <1>10 DEF binfile_overrun
<1>11. CASE UNCHANGED vars
  BY <1>3, <1>11 DEF vars
<1> QED  BY <1>1, <1>2, <1>4, <1>5, <1>6, <1>7, <1>8, <1>9, <1>10, <1>11 DEF Next

-----------------------------------------------------------------------------
(* The image: the bytes of the lines that are in it, which do not overlap. *)
InImage == {a \in Nat : \E i \in 1 .. placed : a \in Bounds(i)}

Filled == /\ bytes_sum \in Nat /\ bytes_sum <= Start[placed + 1]
          /\ DOMAIN image = InImage
          /\ \A i \in 1 .. placed : \A a \in Bounds(i) :
                image[a] = CodeAt(file[i], ValueOf(file[i]), a - Start[i] + 1)
          /\ \A a \in InImage : a < bytes_sum
          /\ bytes_sum > 0 => bytes_sum - 1 \in InImage

Image == /\ placed \in Nat /\ placed <= Len(file)
         /\ pc \notin {"binfile", "done", "overrun"} =>
                placed = 0 /\ image = << >> /\ bytes_sum = 0
         /\ pc = "done" => placed = Len(file)
         /\ Forward /\ Wide => Filled /\ pc # "overrun"

\* Where addresses only grow, a line ends before the next one starts.
LEMMA StartGrows ==
    ASSUME FileOK, Forward, NEW i \in 1 .. Len(file)
    PROVE  /\ Start[i] \in Nat /\ Start[i + 1] \in Nat /\ Width(file[i].op) \in Nat
           /\ Start[i] + Width(file[i].op) <= Start[i + 1]
<1> DEFINE l == file[i]
           s == Start[i]
           N == Len(file)
<1>1. IsLine(l) /\ l.val \in Int /\ N \in Nat
  <2>1. IsLine(l) /\ N \in Nat
    BY DEF FileOK
  <2>2. l \in InputLine
    BY <2>1 DEF IsLine
  <2> QED  BY <2>1, <2>2 DEF InputLine
<1>2. s \in Nat /\ Start[i + 1] = After(l, s)
  <2>1. i \in 1 .. N + 1
    BY <1>1
  <2> QED  BY <2>1, StartIs
<1>3. Width(l.op) \in Nat
  BY Widths
<1>4. l.op = "pos" => s <= l.val
  BY DEF Forward, FileOK
<1> HIDE DEF l, s
<1>5. /\ After(l, s) \in Nat
      /\ After(l, s) = CASE l.op = "pos" -> l.val
                         [] l.op = "align" -> Aligned(s, l.val)
                         [] OTHER -> s + Width(l.op)
  BY <1>1, <1>2, AfterIs
<1>6. s + Width(l.op) <= After(l, s)
  <2>1. CASE l.op = "pos"
    BY <1>1, <1>2, <1>4, <1>5, <2>1 DEF Width
  <2>2. CASE l.op = "align"
    <3>1. l.val \in Nat \ {0}
      BY <1>1, <2>2 DEF IsLine
    <3>2. Aligned(s, l.val) \in s .. s + l.val - 1
      BY <1>2, <3>1, Rounding
    <3>3. After(l, s) = Aligned(s, l.val) /\ Width(l.op) = 0
      BY <1>5, <2>2 DEF Width
    <3> QED  BY <1>2, <3>1, <3>2, <3>3
  <2>3. CASE l.op \notin {"pos", "align"}
    BY <1>2, <1>3, <1>5, <2>3
  <2> QED  BY <2>1, <2>2, <2>3
<1> QED  BY <1>2, <1>3, <1>5, <1>6 DEF l, s

\* So no line starts behind the end of the file.
LEMMA StartBelow ==
    ASSUME FileOK, Forward, NEW i \in 1 .. Len(file) + 1
    PROVE  Start[i] <= Start[Len(file) + 1]
<1> DEFINE N == Len(file)
           e == Start[N + 1]
           S == {k \in Nat : k <= N => Start[N + 1 - k] <= e}
<1>1. N \in Nat /\ N = Len(file)
  BY DEF FileOK
<1>2. \A j \in 1 .. N : /\ Start[j] \in Nat /\ Start[j + 1] \in Nat
                        /\ Start[j] <= Start[j + 1]
  <2> SUFFICES ASSUME NEW j \in 1 .. N
               PROVE  Start[j] \in Nat /\ Start[j + 1] \in Nat /\ Start[j] <= Start[j + 1]
    OBVIOUS
  <2>1. /\ Start[j] \in Nat /\ Start[j + 1] \in Nat /\ Width(file[j].op) \in Nat
        /\ Start[j] + Width(file[j].op) <= Start[j + 1]
    BY StartGrows
  <2> QED  BY <2>1
<1>3. e \in Nat
  <2>1. Start \in [1 .. N + 1 -> Nat] /\ N + 1 \in 1 .. N + 1
    BY <1>1, StartIs
  <2> QED  BY <2>1
<1> HIDE DEF N, e
<1>4. 0 \in S
  <2>1. N + 1 - 0 = N + 1
    BY <1>1
  <2> QED  BY <1>3, <2>1 DEF e
<1>5. ASSUME NEW k \in Nat, k \in S PROVE k + 1 \in S
  <2> SUFFICES ASSUME k + 1 <= N PROVE Start[N + 1 - (k + 1)] <= e
    OBVIOUS
  <2>1. N - k \in 1 .. N /\ N + 1 - (k + 1) = N - k /\ (N - k) + 1 = N + 1 - k /\ k <= N
    BY <1>1
  <2>2. Start[N + 1 - k] <= e
    BY <1>5, <2>1
  <2> QED  BY <1>2, <1>3, <2>1, <2>2
<1> HIDE DEF S
<1>6. Nat \subseteq S
  BY <1>4, <1>5, Induction
<1>7. N + 1 - i \in Nat /\ N + 1 - i <= N /\ N + 1 - (N + 1 - i) = i
  BY <1>1
<1> QED  BY <1>1, <1>6, <1>7 DEF S, e

\* At the start no image has been written.
LEMMA InitImage == ASSUME Init PROVE Image
<1>1. placed = 0 /\ image = << >> /\ bytes_sum = 0 /\ pc = "assemble" /\ FileOK
  BY FilesAreLines DEF Init
<1>2. Start[1] = 0 /\ Len(file) \in Nat
  BY <1>1, StartIs DEF FileOK
<1>3. InImage = {}
  BY <1>1 DEF InImage
<1>4. DOMAIN image = {}
  BY <1>1
<1>5. Filled
  <2>1. \A i \in 1 .. placed : FALSE
    BY <1>1
  <2> QED  BY <1>1, <1>2, <1>3, <1>4, <2>1 DEF Filled
<1> QED  BY <1>1, <1>2, <1>5 DEF Image

\* The line binfile is at is where the input says.
LEMMA LineStands ==
    ASSUME Parsed, Relocs, Image, pc = "binfile", placed < Len(lines), Wide,
           NEW p, p = placed + 1
    PROVE  /\ p \in 1 .. Len(file) /\ p \in 1 .. Len(lines)
           /\ lines[p].addr = LineAt(p)
           /\ Coded(lines[p].codes, file[p], ValueOf(file[p]))
<1>1. FileOK /\ Len(lines) = Len(file) /\ placed \in Nat /\ Len(file) \in Nat
  BY DEF Parsed, Image, FileOK
<1>2. p \in 1 .. Len(file) /\ p \in 1 .. Len(lines)
  <2> DEFINE k == Len(file)
  <2>1. placed < k /\ k \in Nat /\ placed \in Nat /\ Len(lines) = k
    BY <1>1
  <2> HIDE DEF k
  <2>2. p \in 1 .. k
    BY <2>1
  <2> QED  BY <2>1, <2>2 DEF k
<1>3. Complete(p)
  <2>1. reltab = << >>
    BY DEF Relocs
  <2>2. ~Pending(p)
    BY <2>1 DEF Pending
  <2> QED  BY <1>2, <2>2 DEF Relocs
<1>4. ~LongUse(file[p])
  BY <1>1, <1>2 DEF Wide, LongUse, FileOK
<1> QED  BY <1>2, <1>3, <1>4 DEF Complete

\* What binfile does with it.
LEMMA LinePlaced ==
    ASSUME Parsed, Relocs, Image, binfile, Wide
    PROVE  LET p == placed + 1
               b == Bounds(p)
           IN  /\ p \in 1 .. Len(file)
               /\ image' = [a \in DOMAIN image \cup b |->
                              IF a \in b
                              THEN CodeAt(file[p], ValueOf(file[p]), a - Start[p] + 1)
                              ELSE image[a]]
               /\ bytes_sum' = IF Width(file[p].op) = 0 THEN bytes_sum
                               ELSE Start[p] + Width(file[p].op)
               /\ placed' = p
<1> DEFINE p == placed + 1
           b == Bounds(p)
           l == file[p]
           w == Width(l.op)
           line == lines[p]
           c == line.codes
           n == Len(c)
           at == line.addr .. line.addr + n - 1
           v == ValueOf(l)
<1>1. FileOK /\ pc = "binfile" /\ placed < Len(lines) /\ Len(lines) = Len(file) /\ placed \in Nat
      /\ Len(file) \in Nat
  BY DEF binfile, Parsed, Image, FileOK
<1>2. p \in 1 .. Len(file) /\ p \in 1 .. Len(lines)
      /\ lines[p].addr = LineAt(p) /\ Coded(lines[p].codes, file[p], ValueOf(file[p]))
  BY <1>1, LineStands
<1>4. line.addr = LineAt(p) /\ Coded(c, l, v)
  BY <1>2
<1>5. /\ image' = [a \in DOMAIN image \cup at |->
                     IF a \in at THEN c[a - line.addr + 1] ELSE image[a]]
      /\ bytes_sum' = IF n = 0 THEN bytes_sum ELSE line.addr + n
      /\ placed' = p
  BY DEF binfile
<1>6. n = w /\ w \in Nat /\ \A k \in 1 .. w : c[k] = CodeAt(l, v, k)
  BY <1>4, Widths DEF Coded
<1>7. Start[p] \in Nat /\ Start[p + 1] \in Nat
  <2>1. p \in 1 .. Len(file) + 1 /\ p + 1 \in 1 .. Len(file) + 1
    BY <1>1, <1>2
  <2> QED  BY <1>1, <2>1, StartIs
<1>8. line.addr \in Int
  BY <1>4, <1>7 DEF LineAt
<1>9. w # 0 => line.addr = Start[p]
  BY <1>4 DEF LineAt, Width
<1>10. b = Start[p] .. Start[p] + w - 1
  BY DEF Bounds
<1> HIDE DEF b, w, line, c, n, v, l, p
<1>11. at = b /\ \A a \in b : a - line.addr + 1 \in 1 .. w /\ a - line.addr = a - Start[p]
  <2>1. CASE w = 0
    BY <1>6, <1>7, <1>8, <1>10, <2>1
  <2>2. CASE w # 0
    BY <1>6, <1>7, <1>9, <1>10, <2>2
  <2> QED  BY <2>1, <2>2
<1>12. \A a \in b : c[a - line.addr + 1] = CodeAt(l, v, a - Start[p] + 1)
  BY <1>6, <1>11
<1> HIDE DEF at
<1>13. image' = [a \in DOMAIN image \cup b |->
                   IF a \in b THEN CodeAt(l, v, a - Start[p] + 1) ELSE image[a]]
  BY <1>5, <1>11, <1>12
<1>14. bytes_sum' = IF w = 0 THEN bytes_sum ELSE Start[p] + w
  BY <1>5, <1>6, <1>9
<1> QED  BY <1>2, <1>5, <1>13, <1>14 DEF b, w, v, l, p

\* A line is written over nothing, so the image has all lines so far.
LEMMA BinfileFilled ==
    ASSUME Parsed, Relocs, Image, binfile, Forward, Wide, Filled
    PROVE  Filled'
<1>0. PICK p : p = placed + 1
  OBVIOUS
<1>1. /\ p \in 1 .. Len(file)
      /\ image' = [a \in DOMAIN image \cup Bounds(p) |->
                     IF a \in Bounds(p)
                     THEN CodeAt(file[p], ValueOf(file[p]), a - Start[p] + 1)
                     ELSE image[a]]
      /\ bytes_sum' = IF Width(file[p].op) = 0 THEN bytes_sum ELSE Start[p] + Width(file[p].op)
      /\ placed' = p
  BY <1>0, LinePlaced
<1>2. file' = file /\ placed \in Nat /\ FileOK
  BY DEF binfile, Image, Parsed
<1>3. /\ Start' = Start /\ \A i : (Bounds(i))' = Bounds(i)
      /\ \A l : (ValueOf(l))' = ValueOf(l)
  BY <1>2, SameFile
<1> DEFINE s == Start[p]
           w == Width(file[p].op)
           e == Start[p + 1]
           b == Bounds(p)
<1>4. s \in Nat /\ e \in Nat /\ w \in Nat /\ s + w <= e
  BY <1>1, <1>2, StartGrows
<1>5. b = s .. s + w - 1
  BY DEF Bounds
<1>6. bytes_sum \in Nat /\ bytes_sum <= s
  BY <1>0 DEF Filled
<1>7. bytes_sum' = IF w = 0 THEN bytes_sum ELSE s + w
  BY <1>1
<1> HIDE DEF s, w, e, b
<1>8. bytes_sum' \in Nat /\ bytes_sum' <= e /\ bytes_sum <= bytes_sum'
  BY <1>4, <1>6, <1>7
<1>9. 1 .. placed' = 1 .. placed \cup {p} /\ 1 .. placed \subseteq 1 .. placed'
  BY <1>0, <1>1, <1>2
<1>10. InImage' = InImage \cup b
  <2>1. InImage' = {a \in Nat : \E i \in 1 .. placed' : a \in Bounds(i)}
    BY <1>3 DEF InImage
  <2>2. b \subseteq Nat
    BY <1>4, <1>5
  <2>3. InImage = {a \in Nat : \E i \in 1 .. placed : a \in Bounds(i)}
    BY DEF InImage
  <2> QED  BY <1>9, <2>1, <2>2, <2>3 DEF b
<1>11. DOMAIN image' = InImage'
  <2>1. DOMAIN image' = DOMAIN image \cup b
    BY <1>1 DEF b
  <2> QED  BY <1>10, <2>1 DEF Filled
<1>12. ASSUME NEW i \in 1 .. placed', NEW a \in Bounds(i)
       PROVE  image'[a] = CodeAt(file[i], ValueOf(file[i]), a - Start[i] + 1)
  <2>1. CASE i = p
    <3>1. a \in DOMAIN image \cup Bounds(p) /\ a \in Bounds(p)
      BY <2>1
    <3>2. image'[a] = CodeAt(file[p], ValueOf(file[p]), a - Start[p] + 1)
      BY <1>1, <3>1
    <3> QED  BY <2>1, <3>2
  <2>2. CASE i \in 1 .. placed
    <3>1. a \in Nat
      <4>1. i \in 1 .. Len(file)
        BY <1>1, <1>9, <1>0, <1>2, <2>2
      <4>2. Start[i] \in Nat /\ Width(file[i].op) \in Nat
        BY <1>2, <4>1, StartGrows
      <4> QED  BY <4>2 DEF Bounds
    <3>2. a \in InImage
      BY <2>2, <3>1 DEF InImage
    <3>3. a < bytes_sum
      BY <3>2 DEF Filled
    <3>4. a \notin b
      BY <1>4, <1>5, <1>6, <3>1, <3>3
    <3>5. a \in DOMAIN image
      BY <3>2 DEF Filled
    <3>6. image'[a] = image[a]
      BY <1>1, <3>4, <3>5 DEF b
    <3> QED  BY <2>2, <3>6 DEF Filled
  <2> QED  BY <1>9, <2>1, <2>2
<1>13. ASSUME NEW a \in InImage' PROVE a < bytes_sum'
  <2>1. CASE a \in InImage
    <3>1. a < bytes_sum /\ a \in Nat
      BY <2>1 DEF Filled, InImage
    <3> QED  BY <1>6, <1>8, <3>1
  <2>2. CASE a \in b
    BY <1>4, <1>5, <1>7, <2>2
  <2> QED  BY <1>10, <2>1, <2>2
<1>14. bytes_sum' > 0 => bytes_sum' - 1 \in InImage'
  <2>1. CASE w = 0
    <3>1. bytes_sum' = bytes_sum
      BY <1>7, <2>1
    <3> QED  BY <1>10, <3>1 DEF Filled
  <2>2. CASE w # 0
    <3>1. bytes_sum' - 1 \in b
      BY <1>4, <1>5, <1>7, <2>2
    <3> QED  BY <1>10, <3>1
  <2> QED  BY <2>1, <2>2
<1>15. bytes_sum' <= Start[placed' + 1]
  BY <1>1, <1>8 DEF e
<1>16. \A i \in 1 .. placed' : \A a \in (Bounds(i))' :
          image'[a] = CodeAt(file'[i], (ValueOf(file[i]))', a - Start'[i] + 1)
  <2>1. \A i : (ValueOf(file[i]))' = ValueOf(file[i])
    BY <1>2, SameFile
  <2> QED  BY <1>2, <1>3, <1>12, <2>1
<1> QED  BY <1>3, <1>8, <1>11, <1>13, <1>14, <1>15, <1>16 DEF Filled

\* It lies in the image that has been allocated, if addresses only grow.
LEMMA LineInside ==
    ASSUME Parsed, Relocs, Image, pc = "binfile", placed < Len(lines), Forward, Wide
    PROVE  Inside(lines[placed + 1])
<1>0. PICK p : p = placed + 1
  OBVIOUS
<1>1. /\ p \in 1 .. Len(file) /\ lines[p].addr = LineAt(p)
      /\ Coded(lines[p].codes, file[p], ValueOf(file[p]))
  BY <1>0, LineStands
<1>2. FileOK /\ Len(file) \in Nat /\ vmaddr = Start[Len(file) + 1]
  BY DEF Parsed, FileOK
<1> DEFINE s == Start[p]
           w == Width(file[p].op)
           e == Start[p + 1]
           c == lines[p].codes
<1>3. s \in Nat /\ e \in Nat /\ w \in Nat /\ s + w <= e
  BY <1>1, <1>2, StartGrows
<1>4. e <= vmaddr /\ vmaddr \in Nat
  <2>1. p + 1 \in 1 .. Len(file) + 1 /\ Len(file) + 1 \in 1 .. Len(file) + 1
    BY <1>1, <1>2
  <2>2. Start[p + 1] <= Start[Len(file) + 1] /\ Start[Len(file) + 1] \in Nat
    BY <1>2, <2>1, StartBelow, StartIs
  <2> QED  BY <1>2, <2>2
<1>5. c \in Seq(ByteValues) /\ Len(c) = w
  BY <1>1 DEF Coded
<1>6. w # 0 => lines[p].addr = s
  BY <1>1 DEF LineAt, Width
<1> HIDE DEF s, w, e, c
<1>7. c # << >> => lines[p].addr + Len(c) <= vmaddr
  <2> SUFFICES ASSUME c # << >> PROVE lines[p].addr + Len(c) <= vmaddr
    OBVIOUS
  <2>1. Len(c) # 0
    BY <1>5, EmptySeq
  <2> QED  BY <1>3, <1>4, <1>5, <1>6, <2>1
<1> QED  BY <1>0, <1>7 DEF Inside, c

\* The lines written to the image so far are in it, and nothing else.
LEMMA NextImage == ASSUME Parsed, Relocs, Image, [Next]_vars PROVE Image'
<1>1. file' = file => (Forward' <=> Forward) /\ (Wide' <=> Wide)
  <2> SUFFICES ASSUME file' = file PROVE (Forward' <=> Forward) /\ (Wide' <=> Wide)
    OBVIOUS
  <2>1. Start' = Start
    BY SameFile
  <2> QED  BY <2>1 DEF Forward, Wide
<1>2. CASE binfile
  <2>1. file' = file /\ pc' = "binfile" /\ pc = "binfile" /\ placed' = placed + 1
        /\ placed < Len(lines) /\ Len(lines) = Len(file)
    BY <1>2 DEF binfile, Parsed
  <2>2. placed \in Nat /\ (Forward /\ Wide => Filled)
    BY DEF Image
  <2>3. placed' <= Len(file')
    <3> DEFINE k == Len(file)
    <3>1. k \in Nat /\ placed < k
      BY <2>1 DEF Parsed, FileOK
    <3> HIDE DEF k
    <3>2. placed + 1 <= k
      BY <2>2, <3>1
    <3> QED  BY <2>1, <3>2 DEF k
  <2>4. Forward' /\ Wide' => Filled'
    BY <1>1, <1>2, <2>1, <2>2, BinfileFilled
  <2> QED  BY <2>1, <2>2, <2>3, <2>4 DEF Image
<1>3. ASSUME file' = file, placed' = placed, image' = image, bytes_sum' = bytes_sum,
             pc' \notin {"binfile", "done", "overrun"} =>
                 pc \notin {"binfile", "done", "overrun"},
             pc' = "done" => pc = "done" \/ (placed = Len(lines) /\ pc = "binfile"),
             pc' = "overrun" => pc = "overrun" \/ ~(Forward /\ Wide)
      PROVE  Image'
  <2>1. /\ Start' = Start /\ \A i : (Bounds(i))' = Bounds(i)
        /\ \A l : (ValueOf(l))' = ValueOf(l)
    BY <1>3, SameFile
  <2>2. Filled => Filled'
    <3> SUFFICES ASSUME Filled PROVE Filled'
      OBVIOUS
    <3>1. InImage' = InImage
      BY <1>3, <2>1 DEF InImage
    <3>2. \A i : (ValueOf(file[i]))' = ValueOf(file[i])
      BY <1>3, SameFile
    <3>3. \A i \in 1 .. placed : \A a \in Bounds(i) :
                image'[a] = CodeAt(file'[i], (ValueOf(file[i]))', a - Start'[i] + 1)
      BY <1>3, <2>1, <3>2 DEF Filled
    <3> QED  BY <1>3, <2>1, <3>1, <3>3 DEF Filled
  <2>3. Forward' /\ Wide' => Filled' /\ pc' # "overrun"
    BY <1>1, <1>3, <2>2 DEF Image
  <2>4. pc' = "done" => placed' = Len(file')
    BY <1>3 DEF Image, Parsed
  <2>5. pc' \notin {"binfile", "done", "overrun"} =>
            placed = 0 /\ image = << >> /\ bytes_sum = 0
    BY <1>3 DEF Image
  <2> QED  BY <1>3, <2>3, <2>4, <2>5 DEF Image
<1>4. CASE parse_line
  BY <1>3, <1>4 DEF parse_line
<1>5. CASE parse_error
  BY <1>3, <1>5 DEF parse_error, Fail
<1>6. CASE end_of_file
  BY <1>3, <1>6 DEF end_of_file
<1>7. CASE relocate
  BY <1>3, <1>7 DEF relocate
<1>8. CASE relocate_error
  BY <1>3, <1>8 DEF relocate_error, Fail
<1>9. CASE relocated
  BY <1>3, <1>9 DEF relocated
<1>10. CASE written
  BY <1>3, <1>10 DEF written
<1>11. CASE binfile_overrun
  <2>1. ~(Forward /\ Wide)
    BY <1>11, LineInside DEF binfile_overrun
  <2> QED  BY <1>3, <1>11, <2>1 DEF binfile_overrun
<1>12. CASE UNCHANGED vars
  BY <1>3, <1>12 DEF vars
<1> QED  BY <1>2, <1>4, <1>5, <1>6, <1>7, <1>8, <1>9, <1>10, <1>11, <1>12 DEF Next

-----------------------------------------------------------------------------
\* The inductive invariant of y64asm.
Assembling == Parsed /\ Relocs /\ Image

\* The three parts of the invariant hold at the start,
LEMMA InitAssembling == Init => Assembling
BY InitParsed, InitRelocs, InitImage DEF Assembling

\* and are kept together.
LEMMA NextAssembling == Assembling /\ [Next]_vars => Assembling'
<1> SUFFICES ASSUME Assembling, [Next]_vars PROVE Assembling'
  OBVIOUS
<1>1. Parsed /\ Relocs /\ Image
  BY DEF Assembling
<1>2. Parsed' /\ Relocs' /\ Image'
  BY <1>1, NextParsed, NextRelocs, NextImage
<1> QED  BY <1>2 DEF Assembling

\* What the image is when y64asm is done, the input well formed or not.
LEMMA ImageIs ==
    ASSUME Assembling, pc = "done", Forward, Wide
    PROVE  /\ \A i \in DOMAIN file : \A a \in DOMAIN Emitted(i) :
                  a \in DOMAIN image /\ image[a] = Emitted(i)[a]
           /\ DOMAIN image = UNION {DOMAIN Emitted(i) : i \in DOMAIN file}
           /\ \A a \in DOMAIN image : a < bytes_sum
           /\ bytes_sum > 0 => bytes_sum - 1 \in DOMAIN image
           /\ bytes_sum <= vmaddr
<1>1. FileOK /\ DOMAIN file = 1 .. Len(file) /\ placed = Len(file) /\ Filled
      /\ Len(lines) = Len(file) /\ vmaddr = Start[Len(file) + 1]
  BY DEF Assembling, Parsed, Image, FileOK
<1>2. ASSUME NEW i \in 1 .. Len(file)
      PROVE  /\ DOMAIN Emitted(i) = Bounds(i) /\ Bounds(i) \subseteq Nat
             /\ \A a \in Bounds(i) :
                    Emitted(i)[a] = CodeAt(file[i], ValueOf(file[i]), a - Start[i] + 1)
  <2>1. Emitted(i) = [a \in Bounds(i) |-> CodeAt(file[i], ValueOf(file[i]), a - Start[i] + 1)]
    BY <1>1, EmittedIs
  <2>2. Start[i] \in Nat /\ Width(file[i].op) \in Nat
    BY <1>1, StartGrows
  <2>3. Bounds(i) \subseteq Nat
    BY <2>2 DEF Bounds
  <2> QED  BY <2>1, <2>3
<1>3. DOMAIN image = {a \in Nat : \E i \in 1 .. Len(file) : a \in Bounds(i)}
  BY <1>1 DEF Filled, InImage
<1>4. DOMAIN image = UNION {DOMAIN Emitted(i) : i \in 1 .. Len(file)}
  BY <1>2, <1>3
<1>5. ASSUME NEW i \in 1 .. Len(file), NEW a \in DOMAIN Emitted(i)
      PROVE  a \in DOMAIN image /\ image[a] = Emitted(i)[a]
  BY <1>1, <1>2, <1>3 DEF Filled
<1>6. /\ \A a \in DOMAIN image : a < bytes_sum
      /\ bytes_sum > 0 => bytes_sum - 1 \in DOMAIN image
      /\ bytes_sum <= vmaddr
  BY <1>1 DEF Filled
<1> QED  BY <1>1, <1>4, <1>5, <1>6

(* For every input with no .pos that goes back and no symbol in a .long,   *)
(* y64asm writes no byte outside the image it has allocated, and the file  *)
(* it writes has the bytes of every line at its address, the values of the *)
(* labels in them whether they came before or after, nothing else, and     *)
(* ends with the last byte (parse_line, relocate, binfile).                *)
THEOREM FilesAreResolved == Spec => []Resolved
<1>1. Assembling => Resolved
  <2>1. Assembling /\ pc = "overrun" => ~(Forward /\ Wide)
    BY DEF Assembling, Image
  <2> SUFFICES ASSUME Assembling, pc = "done", WellFormed, Forward, Wide
               PROVE  /\ \A i \in DOMAIN file : \A a \in DOMAIN Emitted(i) :
                              a \in DOMAIN image /\ image[a] = Emitted(i)[a]
                      /\ DOMAIN image = UNION {DOMAIN Emitted(i) : i \in DOMAIN file}
                      /\ \A a \in DOMAIN image : a < bytes_sum
                      /\ bytes_sum > 0 => bytes_sum - 1 \in DOMAIN image
                      /\ bytes_sum <= vmaddr
    BY <2>1, Zenon DEF Resolved
  <2> QED  BY ImageIs, Zenon
<1> QED  BY <1>1, InitAssembling, NextAssembling, PTL DEF Spec

-----------------------------------------------------------------------------
(* yas: its two passes, and the lines it has written. *)
NoBad == \A i \in 1 .. Len(file) : file[i].op # "bad"
Exact == IF NoBad THEN Nat ELSE {}
Undefined(l) == l.op = "bad" \/ (l.sym # NONE /\ Labelled(l.sym) = {})

\* The line yas has written for line i of the input is right.
Written(i) == /\ outfile[i].addr = LineAt(i)
              /\ Coded(outfile[i].codes, file[i], ValueOf(file[i]))

\* print_code has an address for line i that is not behind its limit.
LowLine(i) == file[i].label # NONE \/ file[i].op # NONE => LineAt(i) <= LIMIT

Passing == /\ pass \in {1, 2, 3} /\ hit_error \in BOOLEAN /\ bytepos \in Int
           /\ outfile \in Seq(Line)
           /\ pass \in {1, 2} => /\ lineno \in 1 .. Len(file) + 1
                                 /\ NoBad => bytepos = Start[lineno]
           /\ pass = 1 => /\ outfile = << >>
                          /\ Tabled(symbol_table, lineno - 1, Exact)
                          /\ hit_error <=> \E i \in 1 .. lineno - 1 : file[i].op = "unknown"
           /\ pass = 2 => /\ Tabled(symbol_table, Len(file), Exact)
                          /\ \A i \in 1 .. Len(file) : file[i].op # "unknown"
                          /\ hit_error <=> \E i \in 1 .. lineno - 1 : Undefined(file[i])
                          /\ Len(outfile) = lineno - 1
                          /\ NoBad => \A i \in 1 .. lineno - 1 : LowLine(i)
                          /\ NoBad => \A i \in 1 .. lineno - 1 :
                                          ~Undefined(file[i]) => Written(i)
           /\ pass = 3 => /\ ~hit_error <=> Readable /\ Low
                          /\ ~hit_error => /\ Len(outfile) = Len(file)
                                           /\ \A i \in 1 .. Len(file) : At(outfile[i]) = Emitted(i)

\* yas moves bytepos to where the next line starts.
LEMMA PastIs ==
    ASSUME NEW l, IsLine(l), bytepos \in Int
    PROVE  /\ Past(l) \in Int
           /\ bytepos \in Nat /\ l.op # "bad" => Past(l) = After(l, bytepos)
<1>1. l.val \in Int /\ l.op \in Instructions \cup {NONE, "bad", "unknown"}
  <2>1. l \in InputLine
    BY Zenon DEF IsLine
  <2> QED  BY <2>1, Widths DEF InputLine
<1>2. CASE l.op \in {NONE, "unknown"}
  <2>1. Past(l) = bytepos
    BY <1>2 DEF Past, NONE
  <2>2. bytepos \in Nat => After(l, bytepos) = bytepos + Width(l.op)
    BY <1>2, AfterIs DEF NONE
  <2>3. Width(l.op) = 0
    BY <1>2 DEF Width, NONE
  <2> QED  BY <2>1, <2>2, <2>3
<1>3. CASE l.op = "pos"
  BY <1>1, <1>3, AfterIs DEF Past, NONE
<1>4. CASE l.op = "align"
  <2> DEFINE v == l.val
             q == (bytepos + v - 1) \div v
  <2>1. v \in Nat \ {0}
    BY <1>1, <1>4 DEF IsLine
  <2>2. Past(l) = q * v
    BY <1>4 DEF Past, NONE
  <2>3. q \in Int
    <3> DEFINE c == bytepos + v - 1
    <3>1. c \in Int
      BY <2>1
    <3> HIDE DEF c, v
    <3>2. c \div v \in Int
      BY <2>1, <3>1, Multiple
    <3> QED  BY <3>2 DEF c
  <2>4. bytepos \in Nat => q * v = Aligned(bytepos, v)
    <3> HIDE DEF v
    <3> QED  BY <2>1, Rounding
  <2>5. bytepos \in Nat => After(l, bytepos) = Aligned(bytepos, v)
    BY <1>4, AfterIs
  <2> HIDE DEF q, v
  <2>6. q * v \in Int
    BY <2>1, <2>3
  <2> QED  BY <2>2, <2>4, <2>5, <2>6
<1>5. CASE l.op = "bad"
  <2>1. Past(l) = bytepos + instr_set["jmp"].bytes
    BY <1>5 DEF Past, NONE, Size
  <2>2. instr_set["jmp"].bytes = 9
    BY DEF instr_set
  <2> QED  BY <1>5, <2>1, <2>2
<1>6. CASE l.op \in Instructions \ {"pos", "align"}
  <2>1. Past(l) = bytepos + instr_set[l.op].bytes
    BY <1>6 DEF Past, NONE, Size, Instructions
  <2>2. instr_set[l.op].bytes = Width(l.op) /\ Width(l.op) \in Nat
    BY <1>6, Widths
  <2>3. bytepos \in Nat => After(l, bytepos) = bytepos + Width(l.op)
    BY <1>6, AfterIs
  <2> QED  BY <2>1, <2>2, <2>3
<1> QED  BY <1>1, <1>2, <1>3, <1>4, <1>5, <1>6

\* What yas writes of line i in its second pass.
LEMMA EncodedIs ==
    ASSUME FileOK, Tabled(symbol_table, Len(file), Exact), NEW i \in 1 .. Len(file),
           file[i].op # "unknown"
    PROVE  /\ NoNumber(file[i]) <=> Undefined(file[i])
           /\ Encoded(file[i]) \in Seq(ByteValues)
           /\ NoBad /\ ~Undefined(file[i]) =>
                Coded(Encoded(file[i]), file[i], ValueOf(file[i]))
<1> DEFINE l == file[i]
           s == Symbol(l.sym)
           val == IF l.sym = NONE THEN l.val ELSE symbol_table[s].addr
           N == Len(file)
<1>1. IsLine(l) /\ l.val \in Int /\ N \in Nat
  <2>1. IsLine(l) /\ N \in Nat
    BY DEF FileOK
  <2>2. l \in InputLine
    BY <2>1 DEF IsLine
  <2> QED  BY <2>1, <2>2 DEF InputLine
<1>2. symbol_table \in Seq(SymbolEntry)
  BY DEF Tabled
<1>3. Found(s, symbol_table, l.sym)
  BY <1>2, FindYasSymbol
<1> HIDE DEF s
<1>4. l.sym # NONE => (s = 0 <=> Labelled(l.sym) = {})
  BY <1>3, TabledNone
<1>5. NoNumber(l) <=> Undefined(l)
  BY <1>4 DEF NoNumber, Undefined, s
<1>6. CASE Undefined(l)
  <2>1. Encoded(l) = << >>
    BY <1>5, <1>6 DEF Encoded
  <2> QED  BY <1>5, <1>6, <2>1
<1>7. CASE ~Undefined(l)
  <2>1. val \in Int
    <3> SUFFICES ASSUME l.sym # NONE PROVE symbol_table[s].addr \in Int
      BY <1>1
    <3>1. s \in 1 .. Len(symbol_table)
      BY <1>3, <1>4, <1>7 DEF Found, Undefined
    <3>2. symbol_table[s] \in SymbolEntry
      BY <1>2, <3>1
    <3> QED  BY <3>2 DEF SymbolEntry
  <2>2. Readable1(l)
    BY <1>7 DEF Readable1, Undefined
  <2>3. l.op \in {"nop", "jmp", "irmovq"} \cup Data \cup {"pos", "align", NONE}
    <3>1. l.op \in Instructions \cup {NONE}
      BY <1>1, <2>2, Widths DEF IsLine, Readable1, InputLine
    <3> QED  BY <3>1 DEF Instructions, Data
  <2>4. Encoded(l) = Whole(l, val)
    <3>1. ~NoNumber(l)
      BY <1>5, <1>7
    <3>2. CASE l.op \in {"pos", "align", NONE}
      BY <3>1, <3>2 DEF Encoded, Whole, Data, NONE
    <3>3. CASE l.op \in {"nop", "jmp", "irmovq"}
      BY <3>1, <3>3 DEF Encoded, Whole, Data, NONE, s
    <3>4. CASE l.op \in Data
      <4>1. Size(l) = Width(l.op)
        BY <3>4, Widths DEF Size, Data, Instructions
      <4>2. Encoded(l) = Bytes(val, Size(l))
        BY <3>1, <3>4 DEF Encoded, Data, NONE, s
      <4>3. Whole(l, val) = Bytes(val, Width(l.op))
        BY <3>4 DEF Whole, Data
      <4> QED  BY <4>1, <4>2, <4>3
    <3> QED  BY <2>3, <3>2, <3>3, <3>4
  <2> HIDE DEF val
  <2>5. Coded(Encoded(l), l, val)
    BY <1>1, <2>1, <2>2, <2>4, WholeIs
  <2>6. NoBad => val = ValueOf(l)
    <3> SUFFICES ASSUME NoBad PROVE val = ValueOf(l)
      OBVIOUS
    <3>1. CASE l.sym = NONE
      BY <3>1 DEF val, ValueOf
    <3>2. CASE l.sym # NONE
      <4>1. Exact = Nat
        BY DEF Exact
      <4>2. s # 0 /\ Labelled(l.sym) # {}
        BY <1>4, <1>7, <3>2 DEF Undefined
      <4>3. FirstAt(l.sym) \in Exact => symbol_table[s].addr = Start[FirstAt(l.sym)]
        <5>1. N <= Len(file) /\ Tabled(symbol_table, N, Exact)
          BY <1>1
        <5> HIDE DEF N
        <5> QED  BY <1>1, <1>3, <4>2, <5>1, TabledValue
      <4>4. FirstAt(l.sym) \in Nat
        <5>1. FirstAt(l.sym) \in 1 .. N
          BY <4>2, FirstLabelled
        <5> QED  BY <1>1, <5>1
      <4>5. ValueOf(l) = Start[FirstAt(l.sym)]
        BY <3>2 DEF ValueOf, FirstAt
      <4> QED  BY <3>2, <4>1, <4>3, <4>4, <4>5 DEF val
    <3> QED  BY <3>1, <3>2
  <2> QED  BY <1>5, <1>7, <2>5, <2>6 DEF Coded
<1> QED  BY <1>6, <1>7

\* A whole line is what the reference emits.
LEMMA AtIs ==
    ASSUME FileOK, NEW i \in 1 .. Len(file), NEW line, line.addr = LineAt(i),
           Coded(line.codes, file[i], ValueOf(file[i]))
    PROVE  At(line) = Emitted(i)
<1> DEFINE w == Width(file[i].op)
           v == ValueOf(file[i])
           s == Start[i]
           a0 == line.addr
           c == line.codes
           l == file[i]
<1>1. s \in Nat /\ Start[i + 1] \in Nat /\ w \in Nat
  <2>1. i \in 1 .. Len(file) + 1 /\ i + 1 \in 1 .. Len(file) + 1
    BY DEF FileOK
  <2> QED  BY <2>1, StartIs, Widths
<1>2. a0 \in Nat /\ (w # 0 => a0 = s)
  BY <1>1 DEF LineAt, Width
<1>3. Len(c) = w /\ \A k \in 1 .. w : c[k] = CodeAt(l, v, k)
  BY DEF Coded
<1>4. At(line) = [a \in a0 .. a0 + w - 1 |-> c[a - a0 + 1]]
  BY <1>3 DEF At
<1>5. Emitted(i) = [a \in s .. s + w - 1 |-> CodeAt(l, v, a - s + 1)]
  BY EmittedIs DEF Bounds
<1> HIDE DEF w, v, s, a0, c, l
<1>6. CASE w = 0
  <2>1. a0 .. a0 + w - 1 = {} /\ s .. s + w - 1 = {}
    BY <1>1, <1>2, <1>6
  <2>2. At(line) = [a \in {} |-> c[a - a0 + 1]] /\ Emitted(i) = [a \in {} |-> CodeAt(l, v, a - s + 1)]
    BY <1>4, <1>5, <2>1
  <2> QED  BY <2>2
<1>7. CASE w # 0
  <2>1. a0 = s
    BY <1>2, <1>7
  <2>2. \A a \in s .. s + w - 1 : a - s + 1 \in 1 .. w
    BY <1>1
  <2> QED  BY <1>3, <1>4, <1>5, <2>1, <2>2
<1> QED  BY <1>6, <1>7

\* What is said of a file depends on the file alone.
LEMMA SameYas ==
    ASSUME file' = file
    PROVE  /\ Start' = Start /\ NoBad' = NoBad /\ Exact' = Exact
           /\ \A l : (Undefined(l))' = Undefined(l)
           /\ \A i : (Undefined(file[i]))' = Undefined(file[i])
           /\ Readable' = Readable /\ Low' = Low
           /\ \A i : (LowLine(i))' = LowLine(i)
           /\ \A t, n, e : (Tabled(t, n, e))' = Tabled(t, n, e)
<1>1. Start' = Start /\ NoBad' = NoBad /\ Exact' = Exact
  BY SameFile DEF NoBad, Exact
<1>2. \A l : (Undefined(l))' = Undefined(l)
  BY SameFile DEF Undefined
<1>3. Readable' = Readable
  BY SameFile DEF Readable, Labelled
<1>4. \A t, n, e : (Tabled(t, n, e))' = Tabled(t, n, e)
  BY <1>1 DEF Tabled
<1>5. \A i : (Undefined(file[i]))' = Undefined(file[i])
  BY SameFile DEF Undefined, Labelled
<1>6. Low' = Low
  BY <1>1 DEF Low
<1>7. \A i : (LowLine(i))' = LowLine(i)
  BY SameFile DEF LowLine
<1> QED  BY <1>1, <1>2, <1>3, <1>4, <1>5, <1>6, <1>7

\* Every line is low, or print_code gives up at one.
LEMMA LowIs == ASSUME FileOK PROVE Low <=> \A i \in 1 .. Len(file) : LowLine(i)
BY DEF Low, LowLine, LineAt, FileOK

\* The two passes of yas, action by action.
LEMMA InitPassing == ASSUME Init, yas_init PROVE Passing
<1>1. FileOK /\ pass = 1 /\ lineno = 1 /\ bytepos = 0 /\ symbol_table = << >>
      /\ hit_error = FALSE /\ outfile = << >>
  BY FilesAreLines DEF Init, yas_init
<1>2. Start[1] = 0 /\ 1 \in 1 .. Len(file) + 1
  BY <1>1, StartIs DEF FileOK
<1>3. Tabled(symbol_table, lineno - 1, Exact)
  <2>1. Tabled(<< >>, 0, Exact)
    BY TabledNothing
  <2> QED  BY <1>1, <2>1
<1>4. ~ \E i \in 1 .. lineno - 1 : file[i].op = "unknown"
  BY <1>1
<1>5. bytepos \in Int /\ lineno \in 1 .. Len(file) + 1 /\ bytepos = Start[lineno]
  BY <1>1, <1>2
<1>7. hit_error \in BOOLEAN /\ ~hit_error
  BY <1>1, Zenon
<1>6. pass \in {1, 2, 3} /\ pass # 2 /\ pass # 3 /\ outfile = << >>
      /\ outfile \in Seq(Line)
  BY <1>1
<1> QED  BY <1>3, <1>4, <1>5, <1>6, <1>7, Zenon DEF Passing

\* A line of either pass: where yas is before it and after.
LEMMA LineIs ==
    ASSUME FileOK, Passing, pass \in {1, 2}, lineno <= Len(file), NEW l, l = file[lineno]
    PROVE  /\ lineno \in 1 .. Len(file) /\ lineno + 1 \in 1 .. Len(file) + 1 /\ IsLine(l)
           /\ bytepos \in Int /\ Past(l) \in Int
           /\ NoBad => /\ bytepos = Start[lineno] /\ bytepos \in Nat
                       /\ Past(l) = Start[lineno + 1]
<1> DEFINE N == Len(file)
<1>1. lineno \in 1 .. N + 1 /\ lineno <= N /\ N \in Nat /\ bytepos \in Int
      /\ (NoBad => bytepos = Start[lineno])
  BY DEF Passing, FileOK
<1>2. lineno \in 1 .. N /\ lineno + 1 \in 1 .. N + 1
  <2> HIDE DEF N
  <2> QED  BY <1>1
<1>3. IsLine(l)
  BY <1>2 DEF FileOK
<1>4. Past(l) \in Int
  BY <1>1, <1>3, PastIs
<1>5. NoBad => bytepos \in Nat /\ Past(l) = Start[lineno + 1]
  <2> SUFFICES ASSUME NoBad PROVE bytepos \in Nat /\ Past(l) = Start[lineno + 1]
    OBVIOUS
  <2>1. bytepos \in Nat
    BY <1>1, StartIs
  <2>2. l.op # "bad"
    BY <1>2 DEF NoBad
  <2>3. Past(l) = After(l, bytepos)
    BY <1>1, <1>3, <2>1, <2>2, PastIs
  <2>4. Start[lineno + 1] = After(file[lineno], Start[lineno])
    BY <1>2, StartIs
  <2> QED  BY <1>1, <2>1, <2>3, <2>4
<1> QED  BY <1>1, <1>2, <1>3, <1>4, <1>5

\* The first pass of the reference assembler, a line at a time.
LEMMA LabelPassing == ASSUME FileOK, Passing, label_line, UNCHANGED vars PROVE Passing'
<1> DEFINE l == file[lineno]
           n == lineno - 1
<1>1. /\ pass = 1 /\ pass' = 1 /\ lineno' = lineno + 1 /\ outfile' = outfile /\ lineno <= Len(file)
      /\ symbol_table' = IF l.label = NONE THEN symbol_table
                         ELSE Append(symbol_table, [name |-> l.label, addr |-> bytepos])
      /\ hit_error' = (hit_error \/ l.op = "unknown")
      /\ bytepos' = Past(l) /\ file' = file
  BY DEF label_line, vars
<1>2. /\ lineno \in 1 .. Len(file) /\ lineno + 1 \in 1 .. Len(file) + 1 /\ IsLine(l)
      /\ bytepos \in Int /\ Past(l) \in Int
      /\ NoBad => bytepos = Start[lineno] /\ Past(l) = Start[lineno + 1]
  BY <1>1, LineIs
<1>3. /\ Start' = Start /\ NoBad' = NoBad /\ Exact' = Exact
      /\ \A t, k, e : (Tabled(t, k, e))' = Tabled(t, k, e)
  BY <1>1, SameYas
<1>4. n \in Nat /\ n + 1 = lineno /\ n + 1 <= Len(file) /\ Tabled(symbol_table, n, Exact)
  BY <1>1, <1>2 DEF Passing
<1>5. n + 1 \in Exact => bytepos = Start[n + 1]
  BY <1>2, <1>4 DEF Exact
<1> DEFINE new == symbol_table'
<1>6. Tabled(new, n + 1, Exact)
  <2>1. new = IF file[n + 1].label = NONE THEN symbol_table
              ELSE Append(symbol_table, [name |-> file[n + 1].label, addr |-> bytepos])
    BY <1>1, <1>4
  <2> HIDE DEF n, new
  <2> QED  BY <1>2, <1>4, <1>5, <2>1, TabledStep
<1>7. (Tabled(symbol_table, lineno - 1, Exact))'
  <2>1. lineno' - 1 = n + 1
    BY <1>1, <1>2
  <2>2. Tabled(symbol_table', lineno' - 1, Exact)
    BY <1>6, <2>1
  <2> QED  BY <1>1, <1>3, <2>2 DEF Tabled
<1>8. hit_error' <=> \E i \in 1 .. lineno' - 1 : file'[i].op = "unknown"
  <2>1. hit_error <=> \E i \in 1 .. lineno - 1 : file[i].op = "unknown"
    BY <1>1 DEF Passing
  <2>2. lineno' - 1 = lineno /\ \A i : i \in 1 .. lineno <=> i \in 1 .. lineno - 1 \/ i = lineno
    BY <1>1, <1>2
  <2>3. (\E i \in 1 .. lineno : file[i].op = "unknown") <=> hit_error \/ l.op = "unknown"
    BY <2>1, <2>2
  <2>4. hit_error' <=> hit_error \/ l.op = "unknown"
    BY <1>1
  <2> QED  BY <1>1, <2>2, <2>3, <2>4
<1>9. hit_error' \in BOOLEAN
  BY <1>1
<1>10. outfile' = << >> /\ outfile' \in Seq(Line)
  BY <1>1 DEF Passing
<1>11. lineno' \in 1 .. Len(file') + 1 /\ (NoBad' => bytepos' = Start'[lineno']) /\ bytepos' \in Int
  BY <1>1, <1>2, <1>3
<1>12. pass' = 1 /\ pass' \in {1, 2, 3} /\ pass' # 2 /\ pass' # 3
  BY <1>1
<1> QED  BY <1>7, <1>8, <1>9, <1>10, <1>11, <1>12 DEF Passing

\* Its step between the passes.
LEMMA BetweenPassing == ASSUME FileOK, Passing, between_passes, UNCHANGED vars PROVE Passing'
<1> DEFINE N == Len(file)
<1>1. /\ pass = 1 /\ lineno > N /\ pass' = (IF hit_error THEN 3 ELSE 2) /\ lineno' = 1 /\ bytepos' = 0
      /\ symbol_table' = symbol_table /\ hit_error' = hit_error /\ outfile' = outfile
      /\ file' = file
  BY DEF between_passes, vars
<1>2. /\ Start' = Start /\ NoBad' = NoBad /\ Exact' = Exact
      /\ Readable' = Readable /\ Low' = Low
      /\ \A t, k, e : (Tabled(t, k, e))' = Tabled(t, k, e)
  BY <1>1, SameYas
<1>3. N \in Nat /\ lineno - 1 = N /\ Start[1] = 0 /\ 1 \in 1 .. N + 1
  <2>1. N \in Nat /\ lineno \in 1 .. N + 1 /\ lineno > N
    BY <1>1 DEF Passing, FileOK
  <2> HIDE DEF N
  <2>2. lineno - 1 = N /\ 1 \in 1 .. N + 1
    BY <2>1
  <2> QED  BY <2>1, <2>2, StartIs
<1>4. /\ outfile = << >> /\ hit_error \in BOOLEAN
      /\ Tabled(symbol_table, N, Exact)
      /\ hit_error <=> \E i \in 1 .. N : file[i].op = "unknown"
  BY <1>1, <1>3 DEF Passing
<1>5. CASE hit_error
  <2>1. ~Readable
    BY <1>4, <1>5 DEF Readable, FileOK
  <2>2. pass' = 3 /\ hit_error' = TRUE
    BY <1>1, <1>4, <1>5
  <2> QED  BY <1>1, <1>2, <1>4, <2>1, <2>2 DEF Passing
<1>6. CASE ~hit_error
  <2>1. pass' = 2 /\ hit_error' = FALSE
    BY <1>1, <1>4, <1>6
  <2>2. (Tabled(symbol_table, Len(file), Exact))'
    <3>1. Tabled(symbol_table', Len(file'), Exact)
      BY <1>1, <1>4
    <3> QED  BY <1>1, <1>2, <3>1 DEF Tabled
  <2>3. \A i \in 1 .. Len(file') : file'[i].op # "unknown"
    BY <1>1, <1>4, <1>6
  <2>4. outfile' \in Seq(Line) /\ Len(outfile') = 0
    BY <1>1, <1>4
  <2>5. lineno' - 1 = 0 /\ \A i \in 1 .. 0 : FALSE
    BY <1>1
  <2>6. lineno' \in 1 .. Len(file') + 1 /\ bytepos' = Start'[lineno'] /\ bytepos' \in Int
    BY <1>1, <1>2, <1>3
  <2>7. pass' \in {1, 2, 3} /\ pass' # 1 /\ pass' # 3
    BY <2>1
  <2>8. hit_error' \in BOOLEAN
    BY <2>1, Zenon
  <2> QED  BY <2>1, <2>2, <2>3, <2>4, <2>5, <2>6, <2>7, <2>8 DEF Passing
<1> QED  BY <1>5, <1>6

\* Its second pass, a line at a time.
LEMMA CodePassing == ASSUME FileOK, Passing, code_line, UNCHANGED vars PROVE Passing'
<1> DEFINE l == file[lineno]
           m == lineno - 1
<1>0. PICK k : k = lineno
  OBVIOUS
<1>1. /\ pass = 2 /\ pass' = 2 /\ lineno' = lineno + 1 /\ lineno <= Len(file)
      /\ outfile' = Append(outfile, [addr |-> Printed(l), codes |-> Encoded(l)])
      /\ hit_error' = (hit_error \/ NoNumber(l)) /\ ~Exceeds(l)
      /\ bytepos' = Past(l) /\ symbol_table' = symbol_table /\ file' = file
  BY DEF code_line, vars
<1>2. /\ lineno \in 1 .. Len(file) /\ lineno + 1 \in 1 .. Len(file) + 1 /\ IsLine(l)
      /\ bytepos \in Int /\ Past(l) \in Int
      /\ NoBad => bytepos = Start[lineno] /\ Past(l) = Start[lineno + 1]
  BY <1>1, LineIs
<1>3. /\ Start' = Start /\ NoBad' = NoBad /\ Exact' = Exact
      /\ \A i : (Undefined(file[i]))' = Undefined(file[i])
      /\ \A i : (LowLine(i))' = LowLine(i)
  BY <1>1, SameYas
<1>4. /\ Tabled(symbol_table, Len(file), Exact)
      /\ \A i \in 1 .. Len(file) : file[i].op # "unknown"
      /\ hit_error <=> \E i \in 1 .. m : Undefined(file[i])
      /\ outfile \in Seq(Line) /\ Len(outfile) = m
      /\ NoBad => \A i \in 1 .. m : LowLine(i)
      /\ NoBad => \A i \in 1 .. m : ~Undefined(file[i]) => Written(i)
  BY <1>1 DEF Passing
<1>5. /\ NoNumber(l) <=> Undefined(l)
      /\ Encoded(l) \in Seq(ByteValues)
      /\ NoBad /\ ~Undefined(l) => Coded(Encoded(l), l, ValueOf(l))
  BY <1>2, <1>4, EncodedIs
<1> DEFINE e == [addr |-> Printed(l), codes |-> Encoded(l)]
<1>6. e \in Line
  <2>1. Printed(l) \in Int
    BY <1>2 DEF Printed
  <2> QED  BY <1>5, <2>1 DEF Line
<1>7. NoBad => Printed(l) = LineAt(lineno) /\ LowLine(lineno)
  <2> SUFFICES ASSUME NoBad PROVE Printed(l) = LineAt(lineno) /\ LowLine(lineno)
    OBVIOUS
  <2>1. Printed(l) = LineAt(lineno) /\ Printed(l) \in Int
    BY <1>2 DEF Printed, LineAt
  <2>2. LIMIT \in Int
    BY YasAssumption
  <2> QED  BY <1>1, <2>1, <2>2 DEF Exceeds, LowLine
<1>8. e.addr = Printed(l) /\ e.codes = Encoded(l) /\ l = file[k]
  BY <1>0
<1>9. outfile' = Append(outfile, e)
  BY <1>1
<1> HIDE DEF e, l
<1>10. /\ outfile' \in Seq(Line) /\ Len(outfile') = lineno /\ outfile'[lineno] = e
       /\ \A i \in 1 .. m : outfile'[i] = outfile[i]
  <2>1. m + 1 = lineno
    BY <1>2
  <2>2. /\ Append(outfile, e) \in Seq(Line) /\ Len(Append(outfile, e)) = Len(outfile) + 1
        /\ \A i \in 1 .. Len(outfile) : Append(outfile, e)[i] = outfile[i]
        /\ Append(outfile, e)[Len(outfile) + 1] = e
    BY <1>4, <1>6, AppendProperties
  <2> HIDE DEF m
  <2> QED  BY <1>4, <1>9, <2>1, <2>2
<1>11. lineno' - 1 = lineno /\ \A i : i \in 1 .. lineno <=> i \in 1 .. m \/ i = lineno
  BY <1>1, <1>2
<1> HIDE DEF m
<1>12. hit_error' <=> \E i \in 1 .. lineno' - 1 : (Undefined(file[i]))'
  <2>1. (\E i \in 1 .. lineno : Undefined(file[i])) <=> hit_error \/ Undefined(l)
    BY <1>0, <1>4, <1>8, <1>11
  <2>2. hit_error' <=> hit_error \/ Undefined(l)
    BY <1>1, <1>5 DEF l
  <2> QED  BY <1>3, <1>11, <2>1, <2>2
<1>13. NoBad' => \A i \in 1 .. lineno' - 1 : ~(Undefined(file[i]))' => (Written(i))'
  <2> SUFFICES ASSUME NoBad, NEW i \in 1 .. lineno, ~Undefined(file[i]) PROVE (Written(i))'
    BY <1>3, <1>11
  <2>1. (LineAt(i))' = LineAt(i) /\ (ValueOf(file[i]))' = ValueOf(file[i]) /\ file'[i] = file[i]
    BY <1>1, SameFile
  <2>2. CASE i \in 1 .. m
    <3>1. Written(i)
      BY <1>4, <2>2
    <3>2. outfile'[i] = outfile[i]
      BY <1>10, <2>2
    <3> QED  BY <2>1, <3>1, <3>2 DEF Written
  <2>3. CASE i = lineno
    <3>1. outfile'[i].addr = LineAt(i) /\ outfile'[i].codes = Encoded(l)
      BY <1>7, <1>8, <1>10, <2>3
    <3>2. Coded(Encoded(l), l, ValueOf(l)) /\ l = file[i]
      BY <1>0, <1>5, <1>8, <2>3
    <3> QED  BY <2>1, <3>1, <3>2 DEF Written
  <2> QED  BY <1>11, <2>2, <2>3
<1>20. NoBad' => \A i \in 1 .. lineno' - 1 : (LowLine(i))'
  BY <1>3, <1>4, <1>7, <1>11
<1>14. (Tabled(symbol_table, Len(file), Exact))'
  <2>1. Tabled(symbol_table', Len(file'), Exact)
    BY <1>1, <1>4
  <2> QED  BY <1>1, <1>3, <2>1 DEF Tabled
<1>15. \A i \in 1 .. Len(file') : file'[i].op # "unknown"
  BY <1>1, <1>4
<1>16. lineno' \in 1 .. Len(file') + 1 /\ (NoBad' => bytepos' = Start'[lineno']) /\ bytepos' \in Int
  BY <1>1, <1>2, <1>3 DEF l
<1>17. pass' \in {1, 2, 3} /\ pass' # 1 /\ pass' # 3
  BY <1>1
<1>18. hit_error' \in BOOLEAN
  BY <1>1
<1>19. outfile' \in Seq(Line) /\ Len(outfile') = lineno' - 1
  BY <1>10, <1>11
<1> QED  BY <1>12, <1>13, <1>14, <1>15, <1>16, <1>17, <1>18, <1>19, <1>20 DEF Passing

\* It ends early at a line behind the limit.
LEMMA LimitPassing == ASSUME FileOK, Passing, limit_exceeded, UNCHANGED vars PROVE Passing'
<1> DEFINE l == file[lineno]
<1>1. /\ pass = 2 /\ pass' = 3 /\ lineno <= Len(file) /\ Exceeds(l)
      /\ hit_error' = TRUE /\ bytepos' = bytepos /\ outfile' = outfile /\ file' = file
  BY DEF limit_exceeded, vars
<1>2. /\ lineno \in 1 .. Len(file) /\ bytepos \in Int /\ Past(l) \in Int
      /\ NoBad => bytepos = Start[lineno] /\ Past(l) = Start[lineno + 1]
  BY <1>1, LineIs
<1>3. Readable' = Readable /\ Low' = Low
  BY <1>1, SameYas
<1>4. ~(Readable /\ Low)
  <2>1. CASE NoBad
    <3>1. Printed(l) = LineAt(lineno) /\ Printed(l) \in Int /\ LIMIT \in Int
      BY <1>2, <2>1, YasAssumption DEF Printed, LineAt
    <3>2. ~LowLine(lineno)
      BY <1>1, <3>1 DEF Exceeds, LowLine
    <3> QED  BY <1>2, <3>2, LowIs
  <2>2. CASE ~NoBad
    BY <2>2 DEF NoBad, Readable, FileOK
  <2> QED  BY <2>1, <2>2
<1>5. outfile' \in Seq(Line) /\ bytepos' \in Int
  BY <1>1 DEF Passing
<1>6. hit_error' \in BOOLEAN /\ hit_error'
  BY <1>1, Zenon
<1>7. pass' \in {1, 2, 3} /\ pass' # 1 /\ pass' # 2
  BY <1>1
<1> QED  BY <1>3, <1>4, <1>5, <1>6, <1>7 DEF Passing

\* Its end.
LEMMA FinishedPassing == ASSUME FileOK, Passing, finished, UNCHANGED vars PROVE Passing'
<1> DEFINE N == Len(file)
<1>1. /\ pass = 2 /\ lineno > N /\ pass' = 3 /\ lineno' = lineno /\ bytepos' = bytepos
      /\ hit_error' = hit_error /\ outfile' = outfile /\ file' = file
  BY DEF finished, vars
<1>2. Readable' = Readable /\ Low' = Low
  BY <1>1, SameYas
<1>3. N \in Nat /\ lineno - 1 = N
  <2>1. N \in Nat /\ lineno \in 1 .. N + 1 /\ lineno > N
    BY <1>1 DEF Passing, FileOK
  <2> HIDE DEF N
  <2> QED  BY <2>1
<1>4. /\ \A i \in 1 .. N : file[i].op # "unknown"
      /\ hit_error <=> \E i \in 1 .. N : Undefined(file[i])
      /\ Len(outfile) = N /\ hit_error \in BOOLEAN /\ bytepos \in Int
      /\ NoBad => \A i \in 1 .. N : LowLine(i)
      /\ NoBad => \A i \in 1 .. N : ~Undefined(file[i]) => Written(i)
  BY <1>1, <1>3 DEF Passing
<1>12. outfile' \in Seq(Line)
  BY <1>1 DEF Passing
<1>5. ~hit_error <=> Readable /\ Low
  <2>1. ~hit_error <=> Readable
    <3>1. DOMAIN file = 1 .. N
      BY DEF FileOK
    <3>2. hit_error => ~Readable
      BY <1>4, <3>1 DEF Readable, Undefined
    <3>3. ASSUME ~hit_error PROVE Readable
      <4> SUFFICES ASSUME NEW i \in 1 .. N
                   PROVE  /\ file[i].op \notin {"bad", "unknown"}
                          /\ file[i].sym # NONE => Labelled(file[i].sym) # {}
        BY <3>1 DEF Readable
      <4>1. ~Undefined(file[i]) /\ file[i].op # "unknown"
        BY <1>4, <3>3
      <4> QED  BY <4>1 DEF Undefined
    <3>4. Readable \in BOOLEAN
      BY DEF Readable
    <3> QED  BY <1>4, <3>2, <3>3, <3>4, Zenon
  <2>2. ~hit_error => Low
    <3>1. ~hit_error => NoBad
      BY <1>4 DEF NoBad, Undefined
    <3> QED  BY <1>4, <3>1, LowIs
  <2> QED  BY <2>1, <2>2
<1>6. ASSUME ~hit_error, NEW i \in 1 .. N PROVE At(outfile[i]) = Emitted(i)
  <2>1. NoBad /\ ~Undefined(file[i])
    BY <1>4, <1>6 DEF NoBad, Undefined
  <2>2. Written(i)
    BY <1>4, <2>1
  <2> DEFINE line == outfile[i]
  <2>3. line.addr = LineAt(i) /\ Coded(line.codes, file[i], ValueOf(file[i]))
    BY <2>2 DEF Written
  <2> HIDE DEF line
  <2>4. At(line) = Emitted(i)
    BY <2>3, AtIs
  <2> QED  BY <2>4 DEF line
<1>7. \A i : (At(outfile[i]))' = At(outfile[i]) /\ (Emitted(i))' = Emitted(i)
  BY <1>1, SameFile DEF At
<1>8. ~hit_error' => Len(outfile') = Len(file') /\ \A i \in 1 .. Len(file') :
                         (At(outfile[i]))' = (Emitted(i))'
  BY <1>1, <1>4, <1>6, <1>7
<1>9. pass' \in {1, 2, 3} /\ pass' # 1 /\ pass' # 2
  BY <1>1
<1>10. hit_error' \in BOOLEAN /\ bytepos' \in Int
  BY <1>1, <1>4
<1>11. ~hit_error' <=> Readable' /\ Low'
  BY <1>1, <1>2, <1>5
<1> QED  BY <1>8, <1>9, <1>10, <1>11, <1>12 DEF Passing

\* A step of the other assembler leaves it alone.
LEMMA SamePassing == ASSUME Passing, file' = file, UNCHANGED yas_vars PROVE Passing'
<1>1. /\ pass' = pass /\ lineno' = lineno /\ bytepos' = bytepos /\ symbol_table' = symbol_table
      /\ hit_error' = hit_error /\ outfile' = outfile
  BY DEF yas_vars
<1>2. /\ Start' = Start /\ NoBad' = NoBad /\ Exact' = Exact
      /\ Readable' = Readable /\ Low' = Low /\ \A i : (LowLine(i))' = LowLine(i)
      /\ \A i : (Undefined(file[i]))' = Undefined(file[i])
  BY SameYas
<1>3. \A i : (Emitted(i))' = Emitted(i) /\ (LineAt(i))' = LineAt(i)
             /\ (ValueOf(file[i]))' = ValueOf(file[i])
  BY SameFile
<1>4. \A i : (Written(i))' = Written(i) /\ (At(outfile[i]))' = At(outfile[i])
  BY <1>1, <1>3 DEF Written, At
<1>5. /\ (Tabled(symbol_table, lineno - 1, Exact))' <=> Tabled(symbol_table, lineno - 1, Exact)
      /\ (Tabled(symbol_table, Len(file), Exact))' <=> Tabled(symbol_table, Len(file), Exact)
  BY <1>1, <1>2 DEF Tabled
<1> QED  BY <1>1, <1>2, <1>3, <1>4, <1>5 DEF Passing

\* Every step of the pair keeps what is known of it.
LEMMA NextPassing ==
    ASSUME Assembling, Passing, [NextBoth]_<<vars, yas_vars>>
    PROVE  Passing'
<1>1. FileOK
  BY DEF Assembling, Parsed
<1>2. CASE Next /\ UNCHANGED yas_vars
  <2>1. file' = file
    BY <1>2 DEF Next, parse_line, parse_error, end_of_file, relocate, relocate_error, relocated,
                binfile, binfile_overrun, written, Fail
  <2> QED  BY <1>2, <2>1, SamePassing
<1>3. CASE yas /\ UNCHANGED vars
  BY <1>1, <1>3, LabelPassing, BetweenPassing, CodePassing, LimitPassing, FinishedPassing
     DEF yas
<1>4. CASE UNCHANGED <<vars, yas_vars>>
  <2>1. file' = file /\ UNCHANGED yas_vars
    BY <1>4 DEF vars
  <2> QED  BY <2>1, SamePassing
<1> QED  BY <1>2, <1>3, <1>4 DEF NextBoth

-----------------------------------------------------------------------------
\* The pair keeps the first assembler's invariant.
LEMMA SpecBothAssembling == SpecBoth => []Assembling
<1>1. InitBoth => Assembling
  BY InitAssembling DEF InitBoth
<1>2. Assembling /\ [NextBoth]_<<vars, yas_vars>> => Assembling'
  <2>1. [NextBoth]_<<vars, yas_vars>> => [Next]_vars
    BY DEF NextBoth
  <2> QED  BY <2>1, NextAssembling
<1> QED  BY <1>1, <1>2, PTL DEF SpecBoth

(* The same of the file with the user of both assemblers, who cannot       *)
(* disturb what y64asm has written by running yas.                         *)
THEOREM FilesStayResolved == SpecBoth => []Resolved
<1>1. Assembling => Resolved
  <2>1. Assembling /\ pc = "overrun" => ~(Forward /\ Wide)
    BY DEF Assembling, Image
  <2> QED  BY <2>1, ImageIs, Zenon DEF Resolved
<1> QED  BY <1>1, SpecBothAssembling, PTL

(* For every input and every address limit, yas reports an error exactly   *)
(* for the lines that cannot be read, the symbols nobody defined and the   *)
(* lines behind the limit; without one it writes the bytes the input       *)
(* means; and whatever y64asm takes within the limit it takes too, with    *)
(* the same bytes, unless .pos goes back or a .long has a symbol: two      *)
(* programs that were written apart, one in two passes over the text and   *)
(* one in a pass and a table of relocations (finish_line, print_code;      *)
(* parse_line, relocate).                                                  *)
THEOREM AssemblersMatch == SpecBoth => []AssemblersAgree
<1>1. ASSUME Assembling, Passing PROVE AssemblersAgree
  <2> SUFFICES ASSUME pass = 3
               PROVE  /\ ~hit_error <=> Readable /\ Low
                      /\ ~hit_error =>
                           /\ Len(outfile) = Len(file)
                           /\ \A i \in DOMAIN file : At(outfile[i]) = Emitted(i)
                      /\ pc = "done" =>
                           /\ Low => ~hit_error
                           /\ Low /\ Forward /\ Wide =>
                                /\ DOMAIN image = UNION {DOMAIN At(outfile[i]) : i \in DOMAIN outfile}
                                /\ \A i \in DOMAIN outfile : \A a \in DOMAIN At(outfile[i]) :
                                      image[a] = outfile[i].codes[a - outfile[i].addr + 1]
    BY Zenon DEF AssemblersAgree
  <2>1. FileOK /\ DOMAIN file = 1 .. Len(file)
    BY <1>1 DEF Assembling, Parsed, FileOK
  <2>2. /\ hit_error \in BOOLEAN /\ (~hit_error <=> Readable /\ Low)
        /\ ~hit_error => /\ Len(outfile) = Len(file)
                         /\ \A i \in 1 .. Len(file) : At(outfile[i]) = Emitted(i)
    BY <1>1 DEF Passing
  <2>3. pc = "done" => Readable
    <3> SUFFICES ASSUME pc = "done", NEW i \in 1 .. Len(file)
                 PROVE  /\ file[i].op \notin {"bad", "unknown"}
                        /\ file[i].sym # NONE => Labelled(file[i].sym) # {}
      BY <2>1 DEF Readable
    <3>1. Len(lines) = Len(file) /\ Accepted(file[i]) /\ reltab = << >>
      BY <1>1 DEF Assembling, Parsed, Relocs
    <3>2. ~Pending(i)
      BY <3>1 DEF Pending
    <3>3. Complete(i)
      BY <1>1, <3>1, <3>2 DEF Assembling, Relocs
    <3> QED  BY <3>1, <3>3 DEF Accepted, Readable1, Complete
  <2>4. ASSUME pc = "done", Forward, Wide, ~hit_error
        PROVE  /\ DOMAIN image = UNION {DOMAIN At(outfile[i]) : i \in DOMAIN outfile}
               /\ \A i \in DOMAIN outfile : \A a \in DOMAIN At(outfile[i]) :
                     image[a] = outfile[i].codes[a - outfile[i].addr + 1]
    <3>1. /\ \A i \in DOMAIN file : \A a \in DOMAIN Emitted(i) : image[a] = Emitted(i)[a]
          /\ DOMAIN image = UNION {DOMAIN Emitted(i) : i \in DOMAIN file}
      BY <1>1, <2>4, ImageIs
    <3>2. ASSUME NEW i \in DOMAIN file PROVE At(outfile[i]) = Emitted(i)
      <4>1. i \in 1 .. Len(file)
        BY <2>1, SMTT(30)
      <4> QED  BY <2>2, <2>4, <4>1
    <3>3. DOMAIN outfile = DOMAIN file
      <4>1. DOMAIN outfile = 1 .. Len(outfile)
        BY <1>1 DEF Passing
      <4> QED  BY <2>1, <2>2, <2>4, <4>1
    <3>4. ASSUME NEW i \in DOMAIN outfile, NEW a \in DOMAIN At(outfile[i])
          PROVE  image[a] = outfile[i].codes[a - outfile[i].addr + 1]
      <4>1. image[a] = At(outfile[i])[a]
        BY <3>1, <3>2, <3>3
      <4>2. At(outfile[i])[a] = outfile[i].codes[a - outfile[i].addr + 1]
        BY DEF At
      <4> QED  BY <4>1, <4>2
    <3>5. {DOMAIN At(outfile[i]) : i \in DOMAIN outfile} = {DOMAIN Emitted(i) : i \in DOMAIN file}
      BY <3>2, <3>3
    <3> QED  BY <3>1, <3>4, <3>5
  <2> QED  BY <2>1, <2>2, <2>3, <2>4
<1>2. InitBoth => Passing
  BY InitPassing DEF InitBoth
<1>3. Assembling /\ Passing /\ [NextBoth]_<<vars, yas_vars>> => Passing'
  BY NextPassing
<1> QED  BY <1>1, <1>2, <1>3, SpecBothAssembling, PTL DEF SpecBoth
=============================================================================
