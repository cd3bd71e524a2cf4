---------------------------- MODULE SourceProofs ----------------------------
(***************************************************************************)
(* The two ends of compiling, for sources of any length: Chunk, for any     *)
(* nesting and any number of constants, captured variables and methods, and *)
(* Scanner, for any text.                                                   *)
(***************************************************************************)
EXTENDS Chunk, Scanner, SequenceTheorems, FunctionTheorems, FiniteSetTheorems, WellFoundedInduction, TLAPS

-----------------------------------------------------------------------------
(* Chunk. *)

\* The instructions that Chunk emits, by the length of their arguments.
Alone == {"OP_OP", "OP_RETURN", "OP_LOAD_NOTHING", "OP_EXIT"}
Short == {"OP_CONST", "OP_PUT_8_WITH_POP", "OP_PUT_8", "OP_PUT_8_VOID", "OP_DEFINE_GLOBAL"}
Long == {"OP_CONST_16", "OP_DEFINE_GLOBAL_16", "OP_COLLECT_LOCALS"}
Forward == {"OP_JUMP", "OP_JUMP_IF_FALSE", "OP_JUMP_IF_FALSE_ONSTACK"}
Jumps == Forward \cup {"OP_JUMP_BACK"}
Lists == {"OP_DECLARE_FUNCTION", "OP_DECLARE_CLASS"}
WideLists == {"OP_DECLARE_FUNCTION_16", "OP_DECLARE_CLASS_16"}

Emittable == Alone \cup Short \cup Long \cup Jumps \cup Lists \cup WideLists

Bytes == [op : Emittable \cup {"-"}, arg : Nat, line : Nat]

\* The length of instruction i of c, unless it is a wide list.
LengthIn(c, i) ==
  IF c[i].op \in Alone THEN 1
  ELSE IF c[i].op \in Short THEN 2
  ELSE IF c[i].op \in Long THEN 3
  ELSE IF c[i].op \in Jumps THEN 5
  ELSE IF c[i].op = "OP_DECLARE_FUNCTION" THEN 3 + c[i + 2].arg
  ELSE 3 + 2 * c[i + 2].arg

\* Where instructions begin, or will: the Emissions of c.
BeginsAt(c, i) == i \in 1 .. Len(c) + 1 /\ (i <= Len(c) => c[i].op # "-")

Whole(c, i) ==
  /\ c[i].op \in Lists => i + 2 <= Len(c)
  /\ BeginsAt(c, i + LengthIn(c, i))
  /\ \A j \in i + 1 .. i + LengthIn(c, i) - 1 : c[j].op = "-"

\* The instructions the readers take for longer or shorter than they are.
Odd(c, i) ==
  \/ c[i].op = "OP_PUT_8_WITH_POP" /\ i < Len(c) /\ c[i + 1].op # "-"
  \/ c[i].op \in WideLists

Good(c) ==
  /\ c \in Seq(Bytes)
  /\ BeginsAt(c, 1)
  /\ \A i \in 1 .. Len(c) : c[i].op # "-" => Whole(c, i) \/ Odd(c, i)

IsJump(c, i, ops) == i \in 1 .. Len(c) /\ c[i].op \in ops

\* The target of the jump at i.
To(c, i) == i + 5 + (IF c[i].op = "OP_JUMP_BACK" THEN - c[i + 1].arg ELSE c[i + 1].arg)

\* Jumps that are not to be patched lead to an instruction.
Landed(c, pending) ==
  \A i \in 1 .. Len(c) : c[i].op \in Jumps /\ i \notin pending => BeginsAt(c, To(c, i))

-----------------------------------------------------------------------------
(* The constructs that are open. *)

Constructs ==
  [is : {"if", "tail", "function"}, arg : Nat] \cup [is : {"block", "for"}]
    \cup [is : {"class"}, names : Seq(Nat)] \cup [is : {"loop", "condition"}, start : Nat]
    \cup [is : {"clauses", "body", "for body"}, start : Nat, exit : Nat]
    \cup [is : {"increment"}, start : Nat, exit : Nat, skip : Nat]

\* The jump out of a loop, which 0 is not.
Exit(n) == {n} \ {0}

Patches(x) ==
  IF x.is \in {"if", "tail", "function"} THEN {x.arg}
  ELSE IF x.is \in {"clauses", "body", "for body"} THEN Exit(x.exit)
  ELSE IF x.is = "increment" THEN Exit(x.exit) \cup {x.skip} ELSE {}

Loops == {"loop", "condition", "clauses", "body", "for body", "increment"}

Starts(x) == IF x.is \in Loops THEN {x.start} ELSE {}

\* What construct x keeps of the code c.
Holds(c, x) ==
  /\ x \in Constructs
  /\ \A p \in Patches(x) : IsJump(c, p, Forward)
  /\ \A s \in Starts(x) : BeginsAt(c, s + 1)

AllHold(c, o) == \A k \in 1 .. Len(o) : Holds(c, o[k])

PendingIn(o) == {p \in Nat : \E k \in 1 .. Len(o) : p \in Patches(o[k])}

\* Nothing leads to the end of the code.
Fresh(c, o) ==
  /\ \A i \in 1 .. Len(c) : c[i].op \in Jumps /\ i \notin PendingIn(o) => To(c, i) # Len(c) + 1
  /\ \A k \in 1 .. Len(o) : Len(c) \notin Starts(o[k])

\* After a statement in a block.  If the last byte is taken away, no argument but that
\* of a declaration is cut, and no target is lost.
Ended(c, o) ==
  /\ c # <<>>
  /\ \/ c[Len(c)].op = "OP_OP" /\ Fresh(c, o)
     \/ c[Len(c)].op = "-" /\ Len(c) > 1 /\ c[Len(c) - 1].op = "OP_PUT_8_WITH_POP" /\ Fresh(c, o)
     \/ c[Len(c)].op \notin {"OP_OP", "-"}
     \/ c[Len(c)].op = "-" /\ c[Len(c)].arg = 0

Source ==
  /\ Good(code) /\ open \in Seq(Constructs) /\ AllHold(code, open)
  /\ Landed(code, PendingIn(open))
  /\ at = "statement" /\ open # <<>> /\ open[Len(open)].is = "block" => Ended(code, open)
  /\ at = "member" => open # <<>> /\ open[Len(open)].is = "class"

-----------------------------------------------------------------------------
(* The buffers. *)

Capacity(cap) == cap \in Nat /\ (cap = 0 \/ cap >= FirstCap)

Room ==
  /\ Capacity(capacity)
  /\ \/ opcount <= capacity
     \/ opcount <= capacity + 4 /\ opcount > 4 /\ code[opcount - 4].op = "OP_JUMP_BACK"

Constants ==
  /\ consts \in [count : Nat, capacity : Nat] /\ consts.count <= consts.capacity
  /\ \E S \in SUBSET (FirstCap .. Indices) :
       /\ {FirstCap, Indices} \subseteq S /\ \A n \in S \ {Indices} : 2 * n \in S
       /\ consts.capacity \in (S \cup {0}) \ {Indices}

-----------------------------------------------------------------------------
(* The lines. *)

Records ==
  /\ lines \in Seq([opstart : Nat, opend : Nat]) /\ lines # <<>>
  /\ lines[1].opstart = 0
  /\ \A r \in 1 .. Len(lines) - 1 :
       lines[r].opend = lines[r + 1].opstart /\ lines[r].opstart <= lines[r].opend

\* Byte i of c is in the record of its line, or is the OP_COLLECT_LOCALS that ends the
\* record before.
InLine(c, l, i) ==
  /\ c[i].line \in 1 .. Len(l)
  /\ c[i].line < Len(l) => i <= l[c[i].line].opend
  /\ \/ l[c[i].line].opstart < i
     \/ l[c[i].line].opstart = i /\ c[i].op = "OP_COLLECT_LOCALS"

Recorded(c) ==
  /\ lines[Len(lines)].opstart <= Len(c)
  /\ \A i \in 1 .. Len(c) : InLine(c, lines, i)

States ==
  /\ at \in {"operand", "expression", "clause", "body", "statement", "member"}
  /\ ended \in {"no", "compiled", "not enough memory"}

IInv == Source /\ Room /\ Constants /\ Records /\ Recorded(code) /\ States

-----------------------------------------------------------------------------
(* Capacities. *)

LEMMA GrownOnce ==
  ASSUME NEW cap, Capacity(cap), NEW m \in Nat, m <= cap + 4
  PROVE  /\ Grown(cap, m) \in Nat /\ Grown(cap, m) > m /\ Grown(cap, m) >= FirstCap
         /\ Capacity(Grown(cap, m))
  BY ChunkAssumption DEF Capacity, Grown

LEMMA LeastOf ==
  ASSUME NEW S \in SUBSET Nat, S # {}
  PROVE  \E x \in S : \A y \in S : x <= y
<1>1. PICK x \in S : \A y \in S : ~(<<y, x>> \in OpToRel(<, Nat))
  BY NatLessThanWellFounded, WFMin
<1>2. \A y \in S : x <= y
  <2> TAKE y \in S
  <2>1. ~(y < x)
    BY <1>1 DEF OpToRel
  <2> QED
    BY <2>1
<1> QED
  BY <1>2

\* The recursive definition in GrownFor defines a function.
IsGrowth(f, cap, needed, n) ==
  f = [k \in 0 .. n |-> IF k = 0 THEN cap ELSE Grown(f[k - 1], needed[k])]

LEMMA GrowthExists ==
  ASSUME NEW cap, NEW needed
  PROVE  \A n \in Nat : \E f : IsGrowth(f, cap, needed, n)
<1> DEFINE Bad == {n \in Nat : ~ \E f : IsGrowth(f, cap, needed, n)}
<1> SUFFICES ASSUME Bad # {} PROVE FALSE
  OBVIOUS
<1>1. PICK n \in Bad : \A m \in Bad : n <= m
  BY LeastOf
<1>2. n # 0
  <2>1. PICK f : f = [k \in 0 .. 0 |-> cap]
    OBVIOUS
  <2>2. IsGrowth(f, cap, needed, 0)
    BY <2>1 DEF IsGrowth
  <2> QED
    BY <2>2
<1>3. PICK p \in Nat : n = p + 1
  <2>1. n \in Nat /\ n - 1 \in Nat
    BY <1>2
  <2> QED
    BY <2>1
<1>4. PICK f : IsGrowth(f, cap, needed, p)
  BY <1>1, <1>3
<1>5. PICK g : g = [k \in 0 .. n |-> IF k = n THEN Grown(f[p], needed[n]) ELSE f[k]]
  OBVIOUS
<1>6. IsGrowth(g, cap, needed, n)
  <2>1. DOMAIN g = 0 .. n
    BY <1>5
  <2>2. ASSUME NEW k \in 0 .. n PROVE g[k] = IF k = 0 THEN cap ELSE Grown(g[k - 1], needed[k])
    <3>1. CASE k = n
      <4>1. g[k - 1] = f[p] /\ k # 0
        BY <1>3, <1>5, <3>1
      <4> QED
        BY <1>3, <1>5, <3>1, <4>1
    <3>2. CASE k # n
      <4>1. k \in 0 .. p /\ g[k] = f[k]
        BY <1>3, <1>5, <3>2
      <4>2. f[k] = IF k = 0 THEN cap ELSE Grown(f[k - 1], needed[k])
        BY <1>4, <4>1 DEF IsGrowth
      <4>3. k # 0 => k - 1 \in 0 .. n /\ k - 1 # n
        BY <1>3, <3>2
      <4>4. k # 0 => g[k - 1] = f[k - 1]
        BY <1>5, <4>3
      <4> QED
        BY <4>1, <4>2, <4>4
    <3> QED
      BY <3>1, <3>2
  <2>3. g = [k \in 0 .. n |-> g[k]]
    BY <1>5
  <2> QED
    BY <2>2, <2>3 DEF IsGrowth
<1> QED
  BY <1>1, <1>6

LEMMA GrownForIsGrowth ==
  ASSUME NEW cap, NEW needed, Len(needed) \in Nat
  PROVE  \E f : IsGrowth(f, cap, needed, Len(needed)) /\ GrownFor(cap, needed) = f[Len(needed)]
<1> DEFINE f == CHOOSE g : IsGrowth(g, cap, needed, Len(needed))
<1>1. IsGrowth(f, cap, needed, Len(needed))
  BY GrowthExists
<1>2. GrownFor(cap, needed) = f[Len(needed)]
  BY DEF GrownFor, IsGrowth
<1> QED
  BY <1>1, <1>2

\* Puts that ask for little more than there is, one after another, find room.
LEMMA GrownForRoom ==
  ASSUME NEW cap, Capacity(cap), NEW needed, NEW n \in Nat, Len(needed) = n,
         \A k \in 1 .. n : needed[k] \in Nat,
         n > 0 => needed[1] <= cap + 4,
         \A k \in 1 .. n - 1 : needed[k + 1] <= needed[k] + 3
  PROVE  /\ Capacity(GrownFor(cap, needed))
         /\ IF n = 0 THEN GrownFor(cap, needed) = cap ELSE GrownFor(cap, needed) > needed[n]
<1>1. PICK f : IsGrowth(f, cap, needed, n) /\ GrownFor(cap, needed) = f[n]
  BY GrownForIsGrowth
<1>2. f[0] = cap /\ \A k \in 1 .. n : f[k] = Grown(f[k - 1], needed[k])
  <2>1. \A k \in 0 .. n : f[k] = IF k = 0 THEN cap ELSE Grown(f[k - 1], needed[k])
    BY <1>1 DEF IsGrowth
  <2> QED
    BY <2>1
<1> DEFINE Holding(k) == Capacity(f[k]) /\ (k > 0 => f[k] > needed[k])
           Bad == {k \in 0 .. n : ~Holding(k)}
<1>3. Bad = {}
  <2> SUFFICES ASSUME Bad # {} PROVE FALSE
    OBVIOUS
  <2>1. PICK k \in Bad : \A m \in Bad : k <= m
    <3>1. Bad \in SUBSET Nat
      OBVIOUS
    <3> HIDE DEF Bad
    <3> QED
      BY <3>1, LeastOf
  <2>2. k # 0
    BY <1>2
  <2>3. PICK p \in 0 .. n : k = p + 1
    BY <2>2
  <2>4. Holding(p)
    BY <2>1, <2>3
  <2>5. needed[k] \in Nat /\ needed[k] <= f[p] + 4
    <3>1. CASE p = 0
      BY <1>2, <2>3, <3>1
    <3>2. CASE p # 0
      <4>1. p \in 1 .. n - 1 /\ needed[p + 1] <= needed[p] + 3 /\ needed[p] \in Nat /\ needed[p + 1] \in Nat
        BY <2>3, <3>2
      <4>2. f[p] > needed[p] /\ f[p] \in Nat
        BY <2>4, <3>2 DEF Capacity
      <4> QED
        BY <2>3, <4>1, <4>2
    <3> QED
      BY <3>1, <3>2
  <2>6. f[k] = Grown(f[p], needed[k])
    BY <1>2, <2>3
  <2>7. Capacity(f[p])
    BY <2>4
  <2>8. Holding(k)
    BY <2>5, <2>6, <2>7, GrownOnce
  <2> QED
    BY <2>8
<1>4. Holding(n)
  BY <1>3
<1> QED
  BY <1>1, <1>2, <1>4

-----------------------------------------------------------------------------
(* Bytes put behind a code. *)

LEMMA ByteTypes ==
  ASSUME NEW o \in Emittable \cup {"-"}, NEW n \in Nat, Len(lines) \in Nat
  PROVE  Byte(o, n) \in Bytes /\ Byte(o, n).op = o /\ Byte(o, n).arg = n /\ Byte(o, n).line = Len(lines)
  BY DEF Byte, Bytes

LEMMA Joined ==
  ASSUME NEW S, NEW c \in Seq(S), NEW t \in Seq(S)
  PROVE  /\ c \o t \in Seq(S) /\ Len(c) \in Nat /\ Len(t) \in Nat
         /\ Len(c \o t) = Len(c) + Len(t)
         /\ \A i \in 1 .. Len(c) : (c \o t)[i] = c[i]
         /\ \A i \in 1 .. Len(t) : (c \o t)[Len(c) + i] = t[i]
         /\ \A i \in Len(c) + 1 .. Len(c) + Len(t) : (c \o t)[i] = t[i - Len(c)]
<1>1. Len(c) \in Nat /\ Len(t) \in Nat
  BY LenProperties
<1>2. /\ c \o t \in Seq(S) /\ Len(c \o t) = Len(c) + Len(t)
      /\ \A i \in 1 .. Len(c) + Len(t) : (c \o t)[i] = IF i <= Len(c) THEN c[i] ELSE t[i - Len(c)]
  BY ConcatProperties
<1>3. \A i \in 1 .. Len(t) : Len(c) + i \in 1 .. Len(c) + Len(t) /\ ~(Len(c) + i <= Len(c)) /\ Len(c) + i - Len(c) = i
  BY <1>1
<1> QED
  BY <1>1, <1>2, <1>3

\* One instruction: an opcode and its arguments.
Instruction(t) ==
  /\ t \in Seq(Bytes) /\ Len(t) >= 1 /\ t[1].op # "-"
  /\ \A j \in 2 .. Len(t) : t[j].op = "-"
  /\ t[1].op \in Lists => Len(t) >= 3
  /\ t[1].op \notin WideLists => Len(t) = LengthIn(t, 1)

LEMMA ElementTypes ==
  ASSUME NEW c \in Seq(Bytes), NEW i \in 1 .. Len(c)
  PROVE  c[i] \in Bytes /\ c[i].op \in Emittable \cup {"-"} /\ c[i].arg \in Nat /\ Len(c) \in Nat
<1>1. c[i] \in Bytes
  BY ElementOfSeq
<1> QED
  BY <1>1, LenProperties DEF Bytes

\* A whole instruction is inside of its code.
LEMMA WholeInside ==
  ASSUME NEW c \in Seq(Bytes), NEW i \in 1 .. Len(c), c[i].op # "-", c[i].op \notin WideLists, Whole(c, i)
  PROVE  /\ LengthIn(c, i) \in Nat /\ LengthIn(c, i) >= 1 /\ i + LengthIn(c, i) <= Len(c) + 1
         /\ c[i].op \in Lists => LengthIn(c, i) >= 3 /\ i + 2 <= Len(c)
<1>1. i + LengthIn(c, i) \in 1 .. Len(c) + 1
  BY DEF Whole, BeginsAt
<1>2. c[i].op \in Emittable /\ Len(c) \in Nat
  BY ElementTypes
<1>3. CASE c[i].op \notin Lists
  BY <1>1, <1>2, <1>3 DEF LengthIn, Emittable, WideLists, Lists
<1>4. CASE c[i].op \in Lists
  <2>1. i + 2 \in 1 .. Len(c)
    BY <1>2, <1>4 DEF Whole
  <2>2. c[i + 2].arg \in Nat
    BY <2>1, ElementTypes
  <2>3. LengthIn(c, i) \in {3 + c[i + 2].arg, 3 + 2 * c[i + 2].arg}
    BY <1>4 DEF LengthIn, Lists, Alone, Short, Long, Jumps, Forward
  <2> QED
    BY <1>1, <1>2, <2>1, <2>2, <2>3
<1> QED
  BY <1>3, <1>4

\* What is said of an instruction depends on its own bytes and the one behind it.
LEMMA WholeSame ==
  ASSUME NEW c \in Seq(Bytes), NEW d \in Seq(Bytes), NEW i \in 1 .. Len(c), i <= Len(d),
         c[i].op # "-", c[i].op \notin WideLists, Whole(c, i),
         \A j \in i .. i + LengthIn(c, i) - 1 : j <= Len(d) /\ d[j].op = c[j].op,
         c[i].op \in Lists => d[i + 2].arg = c[i + 2].arg,
         BeginsAt(d, i + LengthIn(c, i))
  PROVE  Whole(d, i) /\ LengthIn(d, i) = LengthIn(c, i)
<1>1. /\ LengthIn(c, i) \in Nat /\ LengthIn(c, i) >= 1 /\ i + LengthIn(c, i) <= Len(c) + 1
      /\ c[i].op \in Lists => LengthIn(c, i) >= 3 /\ i + 2 <= Len(c)
  BY WholeInside
<1>2. d[i].op = c[i].op
  <2>1. i \in i .. i + LengthIn(c, i) - 1
    BY <1>1
  <2> QED
    BY <2>1
<1>3. LengthIn(d, i) = LengthIn(c, i)
  BY <1>2, ElementTypes DEF LengthIn, Lists, Emittable, WideLists
<1>4. d[i].op \in Lists => i + 2 <= Len(d)
  BY <1>1, <1>2
<1>5. \A j \in i + 1 .. i + LengthIn(d, i) - 1 : d[j].op = "-"
  BY <1>1, <1>3 DEF Whole
<1> QED
  BY <1>3, <1>4, <1>5 DEF Whole

LEMMA GoodAt ==
  ASSUME NEW c, Good(c), NEW i \in 1 .. Len(c), c[i].op # "-"
  PROVE  /\ c \in Seq(Bytes) /\ c[i].op \in Emittable /\ Len(c) \in Nat
         /\ (c[i].op \notin WideLists /\ Whole(c, i)) \/ Odd(c, i)
<1>1. c \in Seq(Bytes) /\ (Whole(c, i) \/ Odd(c, i))
  BY DEF Good
<1>2. c[i].op \in Emittable /\ Len(c) \in Nat
  BY <1>1, ElementTypes
<1> QED
  BY <1>1, <1>2 DEF Odd

LEMMA PutKeeps ==
  ASSUME NEW c, Good(c), NEW t, Instruction(t)
  PROVE  /\ Good(c \o t) /\ Len(c \o t) = Len(c) + Len(t)
         /\ \A i \in 1 .. Len(c) : (c \o t)[i] = c[i]
         /\ \A i : BeginsAt(c, i) => BeginsAt(c \o t, i)
<1>1. c \in Seq(Bytes) /\ t \in Seq(Bytes)
  BY DEF Good, Instruction
<1> DEFINE d == c \o t
<1>2. /\ d \in Seq(Bytes) /\ Len(c) \in Nat /\ Len(t) \in Nat
      /\ Len(d) = Len(c) + Len(t)
      /\ \A i \in 1 .. Len(c) : d[i] = c[i]
      /\ \A i \in 1 .. Len(t) : d[Len(c) + i] = t[i]
      /\ \A i \in Len(c) + 1 .. Len(c) + Len(t) : d[i] = t[i - Len(c)]
  BY <1>1, Joined
<1>3. Len(t) >= 1 /\ t[1].op # "-" /\ \A j \in 2 .. Len(t) : t[j].op = "-"
  BY DEF Instruction
<1> HIDE DEF d
<1>4. ASSUME NEW i, BeginsAt(c, i) PROVE BeginsAt(d, i)
  <2>1. i \in 1 .. Len(c) + 1 /\ (i <= Len(c) => c[i].op # "-")
    BY <1>4 DEF BeginsAt
  <2>2. CASE i <= Len(c)
    BY <1>2, <2>1, <2>2 DEF BeginsAt
  <2>3. CASE i = Len(c) + 1
    <3>1. d[i] = t[1]
      BY <1>2, <1>3, <2>3
    <3> QED
      BY <1>2, <1>3, <2>3, <3>1 DEF BeginsAt
  <2> QED
    BY <1>2, <2>1, <2>2, <2>3
<1>5. ASSUME NEW i \in 1 .. Len(d), d[i].op # "-" PROVE Whole(d, i) \/ Odd(d, i)
  <2>1. CASE i <= Len(c)
    <3>1. i \in 1 .. Len(c) /\ d[i] = c[i]
      BY <1>2, <2>1
    <3>2. CASE Odd(c, i)
      BY <1>2, <3>1, <3>2 DEF Odd
    <3>3. CASE c[i].op \notin WideLists /\ Whole(c, i)
      <4>1. /\ LengthIn(c, i) \in Nat /\ LengthIn(c, i) >= 1 /\ i + LengthIn(c, i) <= Len(c) + 1
            /\ c[i].op \in Lists => LengthIn(c, i) >= 3 /\ i + 2 <= Len(c)
        BY <1>1, <1>5, <3>1, <3>3, WholeInside
      <4>2. BeginsAt(d, i + LengthIn(c, i))
        BY <1>4, <3>3 DEF Whole
      <4>3. \A j \in i .. i + LengthIn(c, i) - 1 : j <= Len(d) /\ d[j].op = c[j].op
        BY <1>2, <3>1, <4>1
      <4>4. c[i].op \in Lists => d[i + 2].arg = c[i + 2].arg
        BY <1>2, <3>1, <4>1
      <4>5. c[i].op # "-" /\ i <= Len(d)
        BY <1>5, <3>1
      <4>6. Whole(d, i)
        BY <1>1, <1>2, <3>1, <3>3, <4>2, <4>3, <4>4, <4>5, WholeSame
      <4> QED
        BY <4>6
    <3> QED
      BY <1>5, <3>1, <3>2, <3>3, GoodAt
  <2>2. CASE i = Len(c) + 1
    <3>1. d[i] = t[1]
      BY <1>2, <1>3, <2>2
    <3>2. CASE t[1].op \in WideLists
      BY <3>1, <3>2 DEF Odd
    <3>3. CASE t[1].op \notin WideLists
      <4>1. LengthIn(t, 1) = Len(t) /\ (t[1].op \in Lists => Len(t) >= 3)
        BY <3>3 DEF Instruction
      <4>2. t[1].op \in Lists => d[i + 2] = t[3] /\ i + 2 <= Len(d)
        BY <1>2, <2>2, <4>1
      <4>3. LengthIn(d, i) = LengthIn(t, 1)
        <5>1. t[1].op \in Emittable
          BY <1>1, <1>2, <1>3, ElementTypes
        <5> QED
          BY <3>1, <3>3, <4>2, <5>1 DEF LengthIn, Lists, Emittable, WideLists
      <4>4. i + LengthIn(d, i) = Len(d) + 1
        <5>1. LengthIn(d, i) = Len(t)
          BY <4>1, <4>3
        <5>2. \A a \in Nat, b \in Nat : (a + 1) + b = (a + b) + 1
          OBVIOUS
        <5>3. (Len(c) + 1) + Len(t) = (Len(c) + Len(t)) + 1
          BY <1>2, <5>2
        <5> QED
          BY <1>2, <2>2, <5>1, <5>3
      <4>5. BeginsAt(d, Len(d) + 1)
        BY <1>2 DEF BeginsAt
      <4>6. \A j \in i + 1 .. Len(d) : d[j].op = "-"
        <5> TAKE j \in i + 1 .. Len(d)
        <5>1. j - Len(c) \in 2 .. Len(t) /\ j \in Len(c) + 1 .. Len(c) + Len(t)
          BY <1>2, <2>2
        <5> QED
          BY <1>2, <1>3, <5>1
      <4>7. i + LengthIn(d, i) - 1 = Len(d)
        <5>1. \A a, b \in Nat : (a + 1) + (b - 1) = a + b
          OBVIOUS
        <5>2. (Len(c) + 1) + (Len(t) - 1) = Len(c) + Len(t)
          BY <1>2, <5>1
        <5> QED
          BY <1>2, <2>2, <4>1, <4>3, <5>2
      <4>8. d[i].op \in Lists => i + 2 <= Len(d)
        BY <3>1, <4>2
      <4> QED
        BY <4>4, <4>5, <4>6, <4>7, <4>8 DEF Whole
    <3> QED
      BY <3>2, <3>3
  <2>3. CASE i > Len(c) + 1
    BY <1>2, <1>3, <1>5, <2>3
  <2> QED
    BY <1>2, <2>1, <2>2, <2>3
<1>6. BeginsAt(d, 1)
  BY <1>4 DEF Good
<1> QED
  BY <1>2, <1>4, <1>5, <1>6 DEF Good, d

LEMMA JumpInside ==
  ASSUME NEW c, Good(c), NEW i, IsJump(c, i, Jumps)
  PROVE  /\ i \in Nat /\ i >= 1 /\ i + 4 <= Len(c) /\ Len(c) \in Nat
         /\ BeginsAt(c, i + 5)
         /\ \A j \in i + 1 .. i + 4 : c[j].op = "-"
         /\ c[i + 1].arg \in Nat
<1>1. i \in 1 .. Len(c) /\ c[i].op \in Jumps /\ c[i].op # "-" /\ c[i].op \notin WideLists
      /\ c[i].op # "OP_PUT_8_WITH_POP"
  BY DEF IsJump, Jumps, Forward, WideLists
<1>2. c \in Seq(Bytes) /\ Len(c) \in Nat /\ Whole(c, i)
  BY <1>1, GoodAt DEF Odd
<1>3. LengthIn(c, i) = 5
  BY <1>1 DEF LengthIn, Jumps, Forward, Alone, Short, Long
<1>4. i + 5 <= Len(c) + 1
  BY <1>1, <1>2, <1>3, WholeInside
<1>5. i + 1 \in 1 .. Len(c)
  BY <1>1, <1>2, <1>4
<1>6. c[i + 1].arg \in Nat
  BY <1>2, <1>5, ElementTypes
<1> QED
  BY <1>1, <1>2, <1>3, <1>4, <1>6 DEF Whole

LEMMA ToSame ==
  ASSUME NEW c, NEW d, NEW i, d[i].op = c[i].op, d[i + 1].arg = c[i + 1].arg
  PROVE  To(d, i) = To(c, i)
  BY DEF To

LEMMA PutLands ==
  ASSUME NEW c, Good(c), NEW t, Instruction(t), NEW P, Landed(c, P),
         NEW Q, P \subseteq Q,
         t[1].op \in Forward => Len(c) + 1 \in Q,
         t[1].op = "OP_JUMP_BACK" => BeginsAt(c, Len(c) + 6 - t[2].arg)
  PROVE  Landed(c \o t, Q)
<1>1. /\ c \in Seq(Bytes) /\ t \in Seq(Bytes) /\ Len(c) \in Nat /\ Len(t) \in Nat
      /\ Len(t) >= 1 /\ \A j \in 2 .. Len(t) : t[j].op = "-"
      /\ t[1].op \notin WideLists => Len(t) = LengthIn(t, 1)
  BY LenProperties DEF Good, Instruction
<1> DEFINE d == c \o t
<1>2. /\ Len(d) = Len(c) + Len(t)
      /\ \A i \in 1 .. Len(c) : d[i] = c[i]
      /\ \A i \in 1 .. Len(t) : d[Len(c) + i] = t[i]
      /\ \A i \in Len(c) + 1 .. Len(c) + Len(t) : d[i] = t[i - Len(c)]
  BY <1>1, Joined
<1>3. \A i : BeginsAt(c, i) => BeginsAt(d, i)
  BY PutKeeps
<1> HIDE DEF d
<1> SUFFICES ASSUME NEW i \in 1 .. Len(d), d[i].op \in Jumps, i \notin Q PROVE BeginsAt(d, To(d, i))
  BY DEF Landed, d
<1>4. CASE i <= Len(c)
  <2>1. i \in 1 .. Len(c) /\ d[i] = c[i] /\ IsJump(c, i, Jumps)
    BY <1>1, <1>2, <1>4 DEF IsJump
  <2>2. i + 1 \in 1 .. Len(c)
    BY <1>1, <2>1, JumpInside
  <2>3. To(d, i) = To(c, i)
    BY <1>2, <2>1, <2>2, ToSame
  <2>4. BeginsAt(c, To(c, i))
    BY <2>1 DEF Landed
  <2> QED
    BY <1>3, <2>3, <2>4
<1>5. CASE i = Len(c) + 1
  <2>1. d[i] = t[1]
    BY <1>1, <1>2, <1>5
  <2>2. t[1].op = "OP_JUMP_BACK"
    BY <1>5, <2>1 DEF Jumps
  <2>3. Len(t) = 5
    BY <1>1, <2>2 DEF WideLists, LengthIn, Jumps, Alone, Short, Long
  <2>4. d[i + 1] = t[2]
    BY <1>1, <1>2, <1>5, <2>3
  <2>5. t[2].arg \in Nat
    BY <1>1, <2>3, ElementTypes
  <2>6. To(d, i) = Len(c) + 6 - t[2].arg
    <3>1. To(d, i) = i + 5 + (- t[2].arg)
      BY <2>1, <2>2, <2>4 DEF To
    <3>2. \A a \in Nat, n \in Nat : (a + 1) + 5 + (- n) = a + 6 - n
      OBVIOUS
    <3> QED
      BY <1>1, <1>5, <2>5, <3>1, <3>2
  <2> QED
    BY <1>3, <2>2, <2>6
<1>6. CASE i > Len(c) + 1
  <2>1. i - Len(c) \in 2 .. Len(t) /\ i \in Len(c) + 1 .. Len(c) + Len(t)
    BY <1>1, <1>2, <1>6
  <2>2. d[i].op = "-"
    BY <1>1, <1>2, <2>1
  <2> QED
    BY <2>2 DEF Jumps, Forward
<1> QED
  BY <1>1, <1>2, <1>4, <1>5, <1>6

-----------------------------------------------------------------------------
(* A jump is given its target. *)

\* d is c with the jump at p patched to lead to the end.
IsPatched(d, c, p) ==
  /\ d \in Seq(Bytes) /\ Len(d) = Len(c)
  /\ \A i \in 1 .. Len(c) : d[i].op = c[i].op /\ d[i].line = c[i].line
  /\ \A i \in 1 .. Len(c) : i # p + 1 => d[i] = c[i]
  /\ d[p + 1].arg = Len(c) - 4 - p

LEMMA PatchedBytes ==
  ASSUME NEW c \in Seq(Bytes), NEW p \in Nat, p + 1 \in 1 .. Len(c), Len(c) - 4 - p \in Nat,
         c[p + 1].op = "-", NEW b, b.bytes = c, "bytes" \in DOMAIN b
  PROVE  IsPatched(confirm_jump(b, p).bytes, c, p) /\ confirm_jump(b, p).cap = b.cap
<1>1. c[p + 1] \in Bytes
  BY ElementOfSeq
<1>2. PICK x : x = [c[p + 1] EXCEPT !.op = "-", !.arg = Len(c) - 4 - p]
  OBVIOUS
<1>3. x \in Bytes /\ x.op = c[p + 1].op /\ x.line = c[p + 1].line /\ x.arg = Len(c) - 4 - p
  BY <1>1, <1>2 DEF Bytes
<1>4. PICK d : d = [c EXCEPT ![p + 1] = x]
  OBVIOUS
<1>5. /\ d \in Seq(Bytes) /\ Len(d) = Len(c) /\ d[p + 1] = x
      /\ \A i \in 1 .. Len(c) : i # p + 1 => d[i] = c[i]
  BY <1>3, <1>4, ExceptSeq
<1>6. confirm_jump(b, p).bytes = d /\ confirm_jump(b, p).cap = b.cap
  BY <1>2, <1>4 DEF confirm_jump
<1> QED
  BY <1>3, <1>5, <1>6 DEF IsPatched

LEMMA PatchKeeps ==
  ASSUME NEW c, Good(c), NEW p, IsJump(c, p, Forward), NEW d, IsPatched(d, c, p)
  PROVE  /\ Good(d)
         /\ \A i : BeginsAt(d, i) <=> BeginsAt(c, i)
<1>1. /\ c \in Seq(Bytes) /\ d \in Seq(Bytes) /\ Len(d) = Len(c) /\ Len(c) \in Nat
      /\ \A i \in 1 .. Len(c) : d[i].op = c[i].op
      /\ \A i \in 1 .. Len(c) : i # p + 1 => d[i] = c[i]
  BY LenProperties DEF Good, IsPatched
<1>2. \A i : BeginsAt(d, i) <=> BeginsAt(c, i)
  BY <1>1 DEF BeginsAt
<1>3. p \in Nat /\ p >= 1 /\ p + 4 <= Len(c) /\ c[p].op # "-"
  BY JumpInside DEF IsJump, Jumps, Forward
<1>4. ASSUME NEW i \in 1 .. Len(d), d[i].op # "-" PROVE Whole(d, i) \/ Odd(d, i)
  <2>1. i \in 1 .. Len(c) /\ c[i].op # "-" /\ c[i].op = d[i].op
    BY <1>1, <1>4
  <2>2. CASE Odd(c, i)
    <3>1. i < Len(c) => d[i + 1].op = c[i + 1].op
      BY <1>1, <2>1
    <3> QED
      BY <1>1, <2>1, <2>2, <3>1 DEF Odd
  <2>3. CASE c[i].op \notin WideLists /\ Whole(c, i)
    <3>1. /\ LengthIn(c, i) \in Nat /\ LengthIn(c, i) >= 1 /\ i + LengthIn(c, i) <= Len(c) + 1
          /\ c[i].op \in Lists => LengthIn(c, i) >= 3 /\ i + 2 <= Len(c)
      BY <1>1, <2>1, <2>3, WholeInside
    <3>2. \A j \in i .. i + LengthIn(c, i) - 1 : j <= Len(d) /\ d[j].op = c[j].op
      BY <1>1, <2>1, <3>1
    <3>3. c[i].op \in Lists => i + 2 # p + 1
      <4> SUFFICES ASSUME c[i].op \in Lists, i + 2 = p + 1 PROVE FALSE
        OBVIOUS
      <4>1. p = i + 1
        BY <1>3
      <4>2. p \in i + 1 .. i + LengthIn(c, i) - 1
        BY <3>1, <4>1
      <4>3. c[p].op = "-"
        BY <2>3, <4>2 DEF Whole
      <4> QED
        BY <1>3, <4>3
    <3>4. c[i].op \in Lists => d[i + 2].arg = c[i + 2].arg
      BY <1>1, <2>1, <3>1, <3>3
    <3>5. BeginsAt(d, i + LengthIn(c, i))
      BY <1>2, <2>3 DEF Whole
    <3>6. i <= Len(d)
      BY <1>1, <2>1
    <3>7. Whole(d, i)
      BY <1>1, <2>1, <2>3, <3>2, <3>4, <3>5, <3>6, WholeSame
    <3> QED
      BY <3>7
  <2> QED
    BY <2>1, <2>2, <2>3, GoodAt
<1>5. BeginsAt(d, 1)
  BY <1>2 DEF Good
<1> QED
  BY <1>1, <1>2, <1>4, <1>5 DEF Good

LEMMA PatchLands ==
  ASSUME NEW c, Good(c), NEW p, IsJump(c, p, Forward), NEW d, IsPatched(d, c, p),
         NEW P, Landed(c, P), NEW Q, P \ {p} \subseteq Q
  PROVE  Landed(d, Q)
<1>1. /\ Len(d) = Len(c) /\ d[p + 1].arg = Len(c) - 4 - p
      /\ \A i \in 1 .. Len(c) : d[i].op = c[i].op
      /\ \A i \in 1 .. Len(c) : i # p + 1 => d[i] = c[i]
  BY DEF IsPatched
<1>2. \A i : BeginsAt(d, i) <=> BeginsAt(c, i)
  BY PatchKeeps
<1>3. p \in Nat /\ Len(c) \in Nat /\ d[p].op # "OP_JUMP_BACK"
  BY <1>1, JumpInside DEF IsJump, Jumps, Forward
<1> SUFFICES ASSUME NEW i \in 1 .. Len(d), d[i].op \in Jumps, i \notin Q PROVE BeginsAt(d, To(d, i))
  BY DEF Landed
<1>4. CASE i = p
  <2>1. To(d, i) = p + 5 + (Len(c) - 4 - p)
    BY <1>1, <1>3, <1>4 DEF To
  <2>2. To(d, i) = Len(d) + 1
    BY <1>1, <1>3, <2>1
  <2> QED
    BY <1>1, <1>3, <2>2 DEF BeginsAt
<1>5. CASE i # p
  <2>1. IsJump(c, i, Jumps)
    BY <1>1 DEF IsJump
  <2>2. i + 1 \in 1 .. Len(c) /\ i + 1 # p + 1
    BY <1>3, <1>5, <2>1, JumpInside
  <2>3. To(d, i) = To(c, i)
    BY <1>1, <2>2, ToSame
  <2>4. BeginsAt(c, To(c, i))
    BY <1>1, <1>5 DEF Landed
  <2> QED
    BY <1>2, <2>3, <2>4
<1> QED
  BY <1>4, <1>5

-----------------------------------------------------------------------------
(* The last byte is taken away, and a block ends. *)

\* d is c with its last byte replaced by an OP_COLLECT_LOCALS and its argument.
IsCut(d, c) ==
  /\ d \in Seq(Bytes) /\ Len(d) = Len(c) + 2
  /\ \A i \in 1 .. Len(c) - 1 : d[i] = c[i]
  /\ d[Len(c)].op = "OP_COLLECT_LOCALS"
  /\ d[Len(c) + 1].op = "-" /\ d[Len(c) + 2].op = "-"

\* What is cut is an OP_OP, or the argument of a declaration.
Cuttable(c) ==
  /\ c # <<>>
  /\ \/ c[Len(c)].op = "OP_OP"
     \/ c[Len(c)].op = "-" /\ Len(c) > 1 /\ c[Len(c) - 1].op = "OP_PUT_8_WITH_POP"

\* No instruction but the last one reaches the last byte.
LEMMA CutOthers ==
  ASSUME NEW c, Good(c), Cuttable(c), NEW i \in 1 .. Len(c) - 1, c[i].op # "-",
         c[i].op \notin WideLists, Whole(c, i), c[i].op # "OP_PUT_8_WITH_POP" \/ i + 1 # Len(c)
  PROVE  LengthIn(c, i) \in Nat /\ LengthIn(c, i) >= 1 /\ i + LengthIn(c, i) <= Len(c)
<1>1. c \in Seq(Bytes) /\ Len(c) \in Nat
  BY LenProperties DEF Good
<1>2. LengthIn(c, i) \in Nat /\ LengthIn(c, i) >= 1 /\ i + LengthIn(c, i) <= Len(c) + 1
  BY <1>1, WholeInside
<1>3. ASSUME i + LengthIn(c, i) = Len(c) + 1 PROVE FALSE
  <2>1. \A j \in i + 1 .. Len(c) : c[j].op = "-"
    BY <1>1, <1>2, <1>3 DEF Whole
  <2>2. c[Len(c)].op = "-"
    BY <1>1, <2>1
  <2>3. Len(c) > 1 /\ c[Len(c) - 1].op = "OP_PUT_8_WITH_POP"
    BY <2>2 DEF Cuttable
  <2>4. i = Len(c) - 1
    <3>1. i < Len(c) - 1 => Len(c) - 1 \in i + 1 .. Len(c)
      BY <1>1
    <3> QED
      BY <1>1, <2>1, <2>3, <3>1
  <2> QED
    BY <1>1, <2>3, <2>4
<1> QED
  BY <1>1, <1>2, <1>3

LEMMA CutKeeps ==
  ASSUME NEW c, Good(c), Cuttable(c), NEW d, IsCut(d, c)
  PROVE  /\ Good(d)
         /\ \A i : BeginsAt(c, i) /\ i # Len(c) + 1 => BeginsAt(d, i)
<1>1. /\ c \in Seq(Bytes) /\ Len(c) \in Nat /\ Len(c) >= 1
      /\ d \in Seq(Bytes) /\ Len(d) = Len(c) + 2
      /\ \A i \in 1 .. Len(c) - 1 : d[i] = c[i]
      /\ d[Len(c)].op = "OP_COLLECT_LOCALS" /\ d[Len(c) + 1].op = "-" /\ d[Len(c) + 2].op = "-"
  BY LenProperties, EmptySeq DEF Good, Cuttable, IsCut
<1>2. ASSUME NEW i, BeginsAt(c, i), i # Len(c) + 1 PROVE BeginsAt(d, i)
  <2>1. i \in 1 .. Len(c) /\ c[i].op # "-"
    BY <1>1, <1>2 DEF BeginsAt
  <2>2. d[i].op # "-"
    BY <1>1, <2>1
  <2> QED
    BY <1>1, <2>1, <2>2 DEF BeginsAt
<1>3. ASSUME NEW i \in 1 .. Len(d), d[i].op # "-" PROVE Whole(d, i) \/ Odd(d, i)
  <2>1. CASE i < Len(c)
    <3>1. i \in 1 .. Len(c) - 1 /\ i \in 1 .. Len(c) /\ d[i] = c[i] /\ c[i].op # "-"
      BY <1>1, <1>3, <2>1
    <3>2. CASE c[i].op = "OP_PUT_8_WITH_POP" /\ i + 1 = Len(c)
      BY <1>1, <3>1, <3>2 DEF Odd
    <3>3. CASE c[i].op # "OP_PUT_8_WITH_POP" \/ i + 1 # Len(c)
      <4>1. CASE Odd(c, i)
        <5>1. CASE c[i].op \in WideLists
          BY <3>1, <5>1 DEF Odd
        <5>2. CASE c[i].op \notin WideLists
          <6>1. c[i].op = "OP_PUT_8_WITH_POP" /\ c[i + 1].op # "-" /\ i + 1 \in 1 .. Len(c) - 1
            BY <1>1, <3>1, <3>3, <4>1, <5>2 DEF Odd
          <6> QED
            BY <1>1, <3>1, <6>1 DEF Odd
        <5> QED
          BY <5>1, <5>2
      <4>2. CASE c[i].op \notin WideLists /\ Whole(c, i)
        <5>1. LengthIn(c, i) \in Nat /\ LengthIn(c, i) >= 1 /\ i + LengthIn(c, i) <= Len(c)
          BY <3>1, <3>3, <4>2, CutOthers
        <5>2. c[i].op \in Lists => LengthIn(c, i) >= 3
          BY <1>1, <3>1, <4>2, WholeInside
        <5>3. \A j \in i .. i + LengthIn(c, i) - 1 : j <= Len(d) /\ d[j].op = c[j].op
          BY <1>1, <3>1, <5>1
        <5>4. c[i].op \in Lists => d[i + 2].arg = c[i + 2].arg
          BY <1>1, <3>1, <5>1, <5>2
        <5>5. i + LengthIn(c, i) # Len(c) + 1
          BY <1>1, <5>1
        <5>6. BeginsAt(d, i + LengthIn(c, i))
          BY <1>2, <4>2, <5>5 DEF Whole
        <5>7. i <= Len(d)
          BY <1>1, <3>1
        <5>8. Whole(d, i)
          BY <1>1, <3>1, <4>2, <5>3, <5>4, <5>6, <5>7, WholeSame
        <5> QED
          BY <5>8
      <4> QED
        BY <3>1, <4>1, <4>2, GoodAt
    <3> QED
      BY <3>2, <3>3
  <2>2. CASE i = Len(c)
    <3>1. LengthIn(d, i) = 3 /\ d[i].op \notin Lists
      BY <1>1, <2>2 DEF LengthIn, Lists, Alone, Short, Long
    <3>2. i + 3 = Len(d) + 1 /\ BeginsAt(d, i + 3)
      BY <1>1, <2>2 DEF BeginsAt
    <3>3. \A j \in i + 1 .. i + 3 - 1 : d[j].op = "-"
      BY <1>1, <2>2
    <3> QED
      BY <3>1, <3>2, <3>3 DEF Whole
  <2>3. CASE i > Len(c)
    BY <1>1, <1>3, <2>3
  <2> QED
    BY <1>1, <2>1, <2>2, <2>3
<1>4. BeginsAt(d, 1)
  BY <1>1, <1>2 DEF Good
<1> QED
  BY <1>1, <1>2, <1>3, <1>4 DEF Good

LEMMA CutLands ==
  ASSUME NEW c, Good(c), Cuttable(c), NEW d, IsCut(d, c), NEW P, Landed(c, P),
         \A i \in 1 .. Len(c) : c[i].op \in Jumps /\ i \notin P => To(c, i) # Len(c) + 1
  PROVE  /\ Landed(d, P)
         /\ \A p : IsJump(c, p, Jumps) => p \in 1 .. Len(c) - 1
<1>1. /\ c \in Seq(Bytes) /\ Len(c) \in Nat /\ Len(c) >= 1
      /\ Len(d) = Len(c) + 2
      /\ \A i \in 1 .. Len(c) - 1 : d[i] = c[i]
      /\ d[Len(c)].op = "OP_COLLECT_LOCALS" /\ d[Len(c) + 1].op = "-" /\ d[Len(c) + 2].op = "-"
  BY LenProperties, EmptySeq DEF Good, Cuttable, IsCut
<1>2. ASSUME NEW p, IsJump(c, p, Jumps) PROVE p \in 1 .. Len(c) - 1 /\ p + 1 \in 1 .. Len(c) - 1
  BY <1>1, <1>2, JumpInside
<1>3. ASSUME NEW i \in 1 .. Len(d), d[i].op \in Jumps, i \notin P PROVE BeginsAt(d, To(d, i))
  <2>1. i \in 1 .. Len(c) - 1
    BY <1>1, <1>3 DEF Jumps, Forward
  <2>2. IsJump(c, i, Jumps)
    BY <1>1, <1>3, <2>1 DEF IsJump
  <2>3. To(d, i) = To(c, i)
    BY <1>1, <1>2, <2>1, <2>2, ToSame
  <2>4. BeginsAt(c, To(c, i)) /\ To(c, i) # Len(c) + 1
    BY <1>3, <2>2 DEF Landed, IsJump
  <2> QED
    BY <2>3, <2>4, CutKeeps
<1> QED
  BY <1>2, <1>3 DEF Landed

-----------------------------------------------------------------------------
(* The constructs that are open. *)

LEMMA ConstructKinds ==
  ASSUME NEW x \in Constructs
  PROVE  /\ Patches(x) \subseteq Nat /\ Starts(x) \subseteq Nat
         /\ x.is \in {"if", "tail", "function"} => Patches(x) = {x.arg} /\ Starts(x) = {} /\ x.arg \in Nat
         /\ x.is \in {"block", "class", "for"} => Patches(x) = {} /\ Starts(x) = {}
         /\ x.is \in {"loop", "condition"} =>
              Patches(x) = {} /\ Starts(x) = {x.start} /\ x.start \in Nat
         /\ x.is \in {"clauses", "body", "for body"} =>
              /\ Patches(x) = Exit(x.exit) /\ Starts(x) = {x.start}
              /\ x.start \in Nat /\ x.exit \in Nat
         /\ x.is = "increment" => /\ Patches(x) = Exit(x.exit) \cup {x.skip} /\ Starts(x) = {x.start}
                                  /\ x.start \in Nat /\ x.exit \in Nat /\ x.skip \in Nat
         /\ x.is = "class" => x.names \in Seq(Nat)
  BY DEF Constructs, Patches, Starts, Exit, Loops

LEMMA NewConstruct ==
  /\ \A k \in {"if", "tail", "function"}, n \in Nat : [is |-> k, arg |-> n] \in Constructs
  /\ \A k \in {"block", "for"} : [is |-> k] \in Constructs
  /\ \A names \in Seq(Nat) : [is |-> "class", names |-> names] \in Constructs
  /\ \A k \in {"loop", "condition"}, n \in Nat : [is |-> k, start |-> n] \in Constructs
  /\ \A k \in {"clauses", "body", "for body"}, n \in Nat, m \in Nat :
       [is |-> k, start |-> n, exit |-> m] \in Constructs
  /\ \A n \in Nat, m \in Nat, p \in Nat :
       [is |-> "increment", start |-> n, exit |-> m, skip |-> p] \in Constructs
  BY DEF Constructs

LEMMA FrontLast ==
  ASSUME NEW S, NEW s \in Seq(S), s # <<>>
  PROVE  /\ Len(s) \in Nat /\ Len(s) >= 1 /\ Last(s) \in S /\ Last(s) = s[Len(s)]
         /\ Front(s) \in Seq(S) /\ Len(Front(s)) = Len(s) - 1
         /\ \A i \in 1 .. Len(s) - 1 : Front(s)[i] = s[i]
<1>1. Len(s) \in Nat /\ Len(s) >= 1
  BY LenProperties, EmptySeq
<1>2. PICK p \in Nat : p = Len(s) - 1
  BY <1>1
<1>3. /\ SubSeq(s, 1, p) \in Seq(S) /\ Len(SubSeq(s, 1, p)) = p
      /\ \A i \in 1 .. p : SubSeq(s, 1, p)[i] = s[i]
  BY <1>1, <1>2
<1>4. s[Len(s)] \in S
  BY <1>1, ElementOfSeq
<1> QED
  BY <1>1, <1>2, <1>3, <1>4 DEF Front, Last

LEMMA TopOf ==
  ASSUME open \in Seq(Constructs), open # <<>>
  PROVE  /\ Top \in Constructs /\ Len(open) \in Nat /\ Len(open) >= 1 /\ Top = open[Len(open)]
         /\ Patches(Top) \subseteq PendingIn(open)
<1>1. Len(open) \in Nat /\ Len(open) >= 1 /\ Last(open) \in Constructs /\ Last(open) = open[Len(open)]
  BY FrontLast
<1>2. Top = Last(open)
  BY DEF Top
<1>3. Patches(Top) \subseteq Nat
  BY <1>1, <1>2, ConstructKinds
<1> QED
  BY <1>1, <1>2, <1>3 DEF PendingIn

LEMMA TopIs ==
  ASSUME open \in Seq(Constructs), Top.is # "source"
  PROVE  open # <<>>
  BY DEF Top

\* What a construct keeps of a code it keeps of a longer one.
LEMMA HoldsOn ==
  ASSUME NEW c, NEW d, NEW x, Holds(c, x),
         \A p : IsJump(c, p, Forward) => IsJump(d, p, Forward),
         \A s \in Starts(x) : BeginsAt(c, s + 1) => BeginsAt(d, s + 1)
  PROVE  Holds(d, x)
  BY DEF Holds

LEMMA PushHolds ==
  ASSUME NEW c, NEW o \in Seq(Constructs), AllHold(c, o), NEW x, Holds(c, x)
  PROVE  /\ Append(o, x) \in Seq(Constructs) /\ AllHold(c, Append(o, x)) /\ Append(o, x) # <<>>
         /\ PendingIn(Append(o, x)) = PendingIn(o) \cup Patches(x)
<1>1. x \in Constructs
  BY DEF Holds
<1>2. PICK e : e = Append(o, x)
  OBVIOUS
<1>3. /\ e \in Seq(Constructs) /\ Len(o) \in Nat /\ Len(e) = Len(o) + 1 /\ e[Len(o) + 1] = x
      /\ \A i \in 1 .. Len(o) : e[i] = o[i]
  BY <1>1, <1>2, AppendProperties, LenProperties
<1>4. AllHold(c, e)
  <2> SUFFICES ASSUME NEW k \in 1 .. Len(e) PROVE Holds(c, e[k])
    BY DEF AllHold
  <2>1. CASE k \in 1 .. Len(o)
    BY <1>3, <2>1 DEF AllHold
  <2>2. CASE k = Len(o) + 1
    BY <1>3, <2>2
  <2> QED
    BY <1>3, <2>1, <2>2
<1>5. PendingIn(e) = PendingIn(o) \cup Patches(x)
  <2>1. 1 .. Len(e) = 1 .. Len(o) \cup {Len(o) + 1}
    BY <1>3
  <2>2. \A p : (\E k \in 1 .. Len(e) : p \in Patches(e[k])) <=>
                  (\E k \in 1 .. Len(o) : p \in Patches(o[k])) \/ p \in Patches(x)
    BY <1>3, <2>1
  <2>3. Patches(x) \subseteq Nat
    BY <1>1, ConstructKinds
  <2> QED
    BY <2>2, <2>3 DEF PendingIn
<1>6. e # <<>>
  BY <1>3, EmptySeq
<1> QED
  BY <1>2, <1>3, <1>4, <1>5, <1>6

LEMMA PopHolds ==
  ASSUME NEW c, NEW o \in Seq(Constructs), AllHold(c, o), o # <<>>
  PROVE  /\ Front(o) \in Seq(Constructs) /\ AllHold(c, Front(o)) /\ Holds(c, Last(o))
         /\ PendingIn(o) = PendingIn(Front(o)) \cup Patches(Last(o))
<1>1. PICK e, x : e = Front(o) /\ x = Last(o)
  OBVIOUS
<1>2. /\ Len(o) \in Nat /\ Len(o) >= 1 /\ x \in Constructs /\ x = o[Len(o)]
      /\ e \in Seq(Constructs) /\ Len(e) = Len(o) - 1
      /\ \A i \in 1 .. Len(o) - 1 : e[i] = o[i]
  BY <1>1, FrontLast
<1>3. AllHold(c, e) /\ Holds(c, x)
  BY <1>2 DEF AllHold
<1>4. PendingIn(o) = PendingIn(e) \cup Patches(x)
  <2>1. 1 .. Len(o) = 1 .. Len(e) \cup {Len(o)}
    BY <1>2
  <2>2. \A p : (\E k \in 1 .. Len(o) : p \in Patches(o[k])) <=>
                  (\E k \in 1 .. Len(e) : p \in Patches(e[k])) \/ p \in Patches(x)
    BY <1>2, <2>1
  <2>3. Patches(x) \subseteq Nat
    BY <1>2, ConstructKinds
  <2> QED
    BY <2>2, <2>3 DEF PendingIn
<1> QED
  BY <1>1, <1>2, <1>3, <1>4

-----------------------------------------------------------------------------
(* A code that an action works at. *)

Stage(c, pending) ==
  Good(c) /\ AllHold(c, open) /\ Landed(c, pending) /\ Recorded(c)

\* What is known of places in c is known of them in d.
Keeps(d, c) ==
  /\ \A i : BeginsAt(c, i) => BeginsAt(d, i)
  /\ \A p : IsJump(c, p, Forward) => IsJump(d, p, Forward)

\* d is c and instruction o of n bytes.
Emits(d, c, o, n) ==
  /\ d \in Seq(Bytes) /\ Len(d) = Len(c) + n
  /\ \A i \in 1 .. Len(c) : d[i] = c[i]
  /\ \A i \in Len(c) + 1 .. Len(d) : d[i].line = Len(lines)
  /\ d[Len(c) + 1].op = o
  /\ \A i \in Len(c) + 2 .. Len(d) : d[i].op = "-"

\* The instruction is whole.
Puts(d, c, o, n) ==
  /\ o \in Emittable /\ n \in Nat /\ n >= 1 /\ Emits(d, c, o, n)
  /\ o \in Lists => n >= 3
  /\ o \notin WideLists => n = LengthIn(d, Len(c) + 1)

\* A jump among the pending ones Q, if it is not one back to an instruction.
Leads(d, c, o, P, Q) ==
  /\ P \subseteq Q /\ (o \in Forward => Len(c) + 1 \in Q)
  /\ o = "OP_JUMP_BACK" => BeginsAt(c, Len(c) + 6 - d[Len(c) + 2].arg)

LEMMA KeepsHolds ==
  ASSUME NEW c, NEW d, Keeps(d, c), AllHold(c, open)
  PROVE  AllHold(d, open)
<1> SUFFICES ASSUME NEW k \in 1 .. Len(open) PROVE Holds(d, open[k])
  BY DEF AllHold
<1>1. Holds(c, open[k])
  BY DEF AllHold
<1> QED
  BY <1>1, HoldsOn DEF Keeps

LEMMA RecordTypes ==
  ASSUME Records
  PROVE  /\ Len(lines) \in Nat /\ Len(lines) >= 1
         /\ \A r \in 1 .. Len(lines) : lines[r].opstart \in Nat /\ lines[r].opend \in Nat
<1>1. Len(lines) \in Nat /\ Len(lines) >= 1
  BY LenProperties, EmptySeq DEF Records
<1>2. \A r \in 1 .. Len(lines) : lines[r] \in [opstart : Nat, opend : Nat]
  BY ElementOfSeq DEF Records
<1> QED
  BY <1>1, <1>2

\* An instruction put behind a code.
LEMMA EmitStage ==
  ASSUME Records, NEW c, NEW P, Stage(c, P), NEW d, NEW o, NEW n, Puts(d, c, o, n),
         NEW Q, Leads(d, c, o, P, Q)
  PROVE  /\ Stage(d, Q) /\ Keeps(d, c)
         /\ o \in Forward => IsJump(d, Len(c) + 1, Forward)
<1>0. /\ o \in Emittable /\ n \in Nat /\ n >= 1 /\ Emits(d, c, o, n) /\ (o \in Lists => n >= 3)
      /\ o \notin WideLists => n = LengthIn(d, Len(c) + 1)
      /\ P \subseteq Q /\ (o \in Forward => Len(c) + 1 \in Q)
      /\ o = "OP_JUMP_BACK" => BeginsAt(c, Len(c) + 6 - d[Len(c) + 2].arg)
  BY DEF Puts, Leads
<1>1. /\ c \in Seq(Bytes) /\ Len(c) \in Nat /\ d \in Seq(Bytes) /\ Len(d) = Len(c) + n
      /\ \A i \in 1 .. Len(c) : d[i] = c[i]
      /\ \A i \in Len(c) + 1 .. Len(d) : d[i].line = Len(lines)
      /\ d[Len(c) + 1].op = o
      /\ \A i \in Len(c) + 2 .. Len(d) : d[i].op = "-"
  BY <1>0, LenProperties DEF Stage, Good, Emits
<1>2. PICK t : t = [j \in 1 .. n |-> d[Len(c) + j]]
  OBVIOUS
<1>3. t \in Seq(Bytes) /\ Len(t) = n /\ \A j \in 1 .. n : t[j] = d[Len(c) + j]
  <2>1. \A j \in 1 .. n : d[Len(c) + j] \in Bytes
    BY <1>0, <1>1, ElementOfSeq
  <2> QED
    BY <1>0, <1>2, <2>1
<1>4. d = c \o t
  <2>1. /\ c \o t \in Seq(Bytes) /\ Len(c \o t) = Len(c) + n
        /\ \A i \in 1 .. Len(c) : (c \o t)[i] = c[i]
        /\ \A i \in Len(c) + 1 .. Len(c) + n : (c \o t)[i] = t[i - Len(c)]
    BY <1>0, <1>1, <1>3, Joined
  <2>2. \A i \in Len(c) + 1 .. Len(c) + n : i - Len(c) \in 1 .. n /\ Len(c) + (i - Len(c)) = i
    BY <1>0, <1>1
  <2>3. \A i \in 1 .. Len(d) : d[i] = (c \o t)[i]
    BY <1>0, <1>1, <1>3, <2>1, <2>2
  <2> QED
    BY <1>0, <1>1, <2>1, <2>3, SeqEqual
<1>5. Instruction(t)
  <2>1. t[1].op = o /\ o # "-"
    BY <1>0, <1>1, <1>3 DEF Emittable, Alone, Short, Long, Jumps, Forward, Lists, WideLists
  <2>2. \A j \in 2 .. n : t[j].op = "-"
    <3> TAKE j \in 2 .. n
    <3>1. Len(c) + j \in Len(c) + 2 .. Len(d)
      BY <1>0, <1>1
    <3>2. j \in 1 .. n
      OBVIOUS
    <3> QED
      BY <1>0, <1>1, <1>3, <3>1, <3>2
  <2>3. o \notin WideLists => n = LengthIn(t, 1)
    <3>1. o \in Lists => t[1 + 2].arg = d[(Len(c) + 1) + 2].arg
      BY <1>0, <1>1, <1>3
    <3>2. o \notin WideLists => LengthIn(t, 1) = LengthIn(d, Len(c) + 1)
      BY <1>0, <1>1, <2>1, <3>1 DEF LengthIn, Lists, Emittable, WideLists
    <3> QED
      BY <1>0, <3>2
  <2> QED
    BY <1>0, <1>3, <2>1, <2>2, <2>3 DEF Instruction
<1>6. Good(d) /\ \A i : BeginsAt(c, i) => BeginsAt(d, i)
  BY <1>0, <1>4, <1>5, PutKeeps DEF Stage
<1>7. Keeps(d, c)
  <2>1. \A p : IsJump(c, p, Forward) => IsJump(d, p, Forward)
    BY <1>0, <1>1 DEF IsJump
  <2> QED
    BY <1>0, <1>6, <2>1 DEF Keeps
<1>8. Landed(d, Q)
  <2>1. t[1].op = o
    BY <1>0, <1>1, <1>3
  <2>2. o = "OP_JUMP_BACK" => t[2].arg = d[Len(c) + 2].arg
    <3> HAVE o = "OP_JUMP_BACK"
    <3>1. n = 5
      BY <1>0, <1>1 DEF WideLists, LengthIn, Jumps, Alone, Short, Long
    <3>2. t[2] = d[Len(c) + 2]
      <4>1. 2 \in 1 .. n
        BY <3>1
      <4> QED
        BY <1>3, <4>1
    <3> QED
      BY <3>2
  <2> QED
    BY <1>0, <1>4, <1>5, <2>1, <2>2, PutLands DEF Stage
<1>9. Recorded(d)
  <2>1. lines[Len(lines)].opstart \in Nat /\ lines[Len(lines)].opstart <= Len(c) /\ Len(lines) \in Nat
        /\ Len(lines) >= 1
    BY RecordTypes DEF Stage, Recorded
  <2>2. ASSUME NEW i \in 1 .. Len(d) PROVE InLine(d, lines, i)
    <3>1. CASE i <= Len(c)
      <4>1. i \in 1 .. Len(c) /\ d[i] = c[i] /\ InLine(c, lines, i)
        BY <1>0, <1>1, <3>1 DEF Stage, Recorded
      <4> QED
        BY <4>1 DEF InLine
    <3>2. CASE i > Len(c)
      <4>1. d[i].line = Len(lines)
        BY <1>0, <1>1, <3>2
      <4> QED
        BY <1>0, <1>1, <2>1, <3>2, <4>1 DEF InLine
    <3> QED
      BY <1>0, <1>1, <3>1, <3>2
  <2> QED
    BY <1>0, <1>1, <2>1, <2>2 DEF Recorded
<1>10. o \in Forward => IsJump(d, Len(c) + 1, Forward)
  BY <1>0, <1>1 DEF IsJump
<1> QED
  BY <1>0, <1>6, <1>7, <1>8, <1>9, <1>10, KeepsHolds DEF Stage

LEMMA PatchStage ==
  ASSUME NEW c, NEW P, Stage(c, P), NEW p, IsJump(c, p, Forward),
         NEW b, b.bytes = c, "bytes" \in DOMAIN b, NEW Q, P \ {p} \subseteq Q
  PROVE  /\ Stage(confirm_jump(b, p).bytes, Q) /\ Keeps(confirm_jump(b, p).bytes, c)
         /\ Len(confirm_jump(b, p).bytes) = Len(c) /\ confirm_jump(b, p).cap = b.cap
         /\ \A i \in 1 .. Len(c) : /\ confirm_jump(b, p).bytes[i].op = c[i].op
                                   /\ i # p + 1 => confirm_jump(b, p).bytes[i] = c[i]
<1>1. c \in Seq(Bytes) /\ Len(c) \in Nat /\ p \in Nat /\ p >= 1 /\ p + 4 <= Len(c)
  <2>1. IsJump(c, p, Jumps)
    BY DEF IsJump, Jumps
  <2> QED
    BY <2>1, JumpInside, LenProperties DEF Stage, Good
<1>2. PICK d : d = confirm_jump(b, p).bytes
  OBVIOUS
<1>3. IsPatched(d, c, p) /\ confirm_jump(b, p).cap = b.cap
  <2>1. p + 1 \in 1 .. Len(c) /\ Len(c) - 4 - p \in Nat
    BY <1>1
  <2>2. c[p + 1].op = "-"
    <3>1. IsJump(c, p, Jumps) /\ Good(c) /\ p + 1 \in p + 1 .. p + 4
      BY <1>1 DEF IsJump, Jumps, Stage
    <3> QED
      BY <3>1, JumpInside
  <2> QED
    BY <1>1, <1>2, <2>1, <2>2, PatchedBytes
<1>4. Good(d) /\ \A i : BeginsAt(d, i) <=> BeginsAt(c, i)
  BY <1>3, PatchKeeps DEF Stage
<1>5. Landed(d, Q)
  BY <1>3, PatchLands DEF Stage
<1>6. Len(d) = Len(c)
      /\ \A i \in 1 .. Len(c) : /\ d[i].op = c[i].op /\ d[i].line = c[i].line
                                /\ i # p + 1 => d[i] = c[i]
  BY <1>3 DEF IsPatched
<1>7. Keeps(d, c)
  BY <1>4, <1>6 DEF Keeps, IsJump
<1>8. Recorded(d)
  BY <1>6 DEF Recorded, InLine, Stage
<1> QED
  BY <1>2, <1>3, <1>4, <1>5, <1>6, <1>7, <1>8, KeepsHolds DEF Stage

-----------------------------------------------------------------------------
(* What the puts emit. *)

\* Arguments that are put on the last line.
Args(t) ==
  t \in Seq(Bytes) /\ \A j \in 1 .. Len(t) : t[j].op = "-" /\ t[j].line = Len(lines)

LEMMA OneArg ==
  ASSUME Records, NEW n \in Nat
  PROVE  Args(<<Arg(n)>>) /\ Len(<<Arg(n)>>) = 1 /\ <<Arg(n)>>[1].arg = n
<1>1. Arg(n) \in Bytes /\ Arg(n).op = "-" /\ Arg(n).arg = n /\ Arg(n).line = Len(lines)
  BY ByteTypes, RecordTypes DEF Arg
<1>2. PICK x : x = Arg(n)
  OBVIOUS
<1>3. <<x>> \in Seq(Bytes) /\ Len(<<x>>) = 1 /\ <<x>>[1] = x
  BY <1>1, <1>2
<1> QED
  BY <1>1, <1>2, <1>3 DEF Args

LEMMA WideArgs ==
  ASSUME Records, NEW n \in Nat, NEW k \in Nat, k >= 1
  PROVE  /\ Args(Wide(n, k)) /\ Len(Wide(n, k)) = k /\ Wide(n, k)[1].arg = n
         /\ \A j \in 2 .. k : Wide(n, k)[j].arg = 0
<1>1. \A m \in Nat : /\ Arg(m) \in Bytes /\ Arg(m).op = "-" /\ Arg(m).arg = m
                     /\ Arg(m).line = Len(lines)
  BY ByteTypes, RecordTypes DEF Arg
<1>2. PICK t : t = Wide(n, k)
  OBVIOUS
<1>3. t = [i \in 1 .. k |-> Arg(IF i = 1 THEN n ELSE 0)]
  BY <1>2 DEF Wide
<1>4. \A i \in 1 .. k : t[i] \in Bytes /\ t[i].op = "-" /\ t[i].line = Len(lines)
                        /\ t[i].arg = IF i = 1 THEN n ELSE 0
  BY <1>1, <1>3
<1>5. t \in Seq(Bytes) /\ Len(t) = k
  BY <1>3, <1>4
<1> QED
  BY <1>2, <1>4, <1>5 DEF Args

LEMMA EmitOp ==
  ASSUME Records, NEW c \in Seq(Bytes), NEW o \in Emittable
  PROVE  Emits(Append(c, Op(o)), c, o, 1) /\ Append(c, Op(o))[Len(c) + 1] = Op(o)
<1>1. PICK x : x = Op(o)
  OBVIOUS
<1>2. x \in Bytes /\ x.op = o /\ x.line = Len(lines)
  BY <1>1, ByteTypes, RecordTypes DEF Op
<1>3. PICK d : d = Append(c, x)
  OBVIOUS
<1>4. /\ d \in Seq(Bytes) /\ Len(c) \in Nat /\ Len(d) = Len(c) + 1
      /\ \A i \in 1 .. Len(c) : d[i] = c[i]
      /\ d[Len(c) + 1] = x
  BY <1>2, <1>3, AppendProperties, LenProperties
<1>5. \A i \in Len(c) + 1 .. Len(d) : d[i] = x
  BY <1>4
<1>6. \A i \in Len(c) + 2 .. Len(d) : FALSE
  BY <1>4
<1> QED
  BY <1>1, <1>2, <1>3, <1>4, <1>5, <1>6 DEF Emits

LEMMA EmitArgs ==
  ASSUME NEW c \in Seq(Bytes), NEW d, NEW o, NEW n \in Nat, n >= 1, Emits(d, c, o, n),
         NEW t, Args(t)
  PROVE  /\ Emits(d \o t, c, o, n + Len(t)) /\ Len(t) \in Nat
         /\ \A i \in 1 .. Len(d) : (d \o t)[i] = d[i]
         /\ \A j \in 1 .. Len(t) : (d \o t)[Len(c) + n + j] = t[j]
<1>1. /\ d \in Seq(Bytes) /\ t \in Seq(Bytes) /\ Len(c) \in Nat /\ Len(d) = Len(c) + n
      /\ \A j \in 1 .. Len(t) : t[j].op = "-" /\ t[j].line = Len(lines)
  BY LenProperties DEF Emits, Args
<1>2. PICK e : e = d \o t
  OBVIOUS
<1>3. /\ e \in Seq(Bytes) /\ Len(d) \in Nat /\ Len(t) \in Nat /\ Len(e) = Len(d) + Len(t)
      /\ \A i \in 1 .. Len(d) : e[i] = d[i]
      /\ \A i \in 1 .. Len(t) : e[Len(d) + i] = t[i]
      /\ \A i \in Len(d) + 1 .. Len(d) + Len(t) : e[i] = t[i - Len(d)]
  <2>1. d \in Seq(Bytes) /\ t \in Seq(Bytes)
    BY <1>1
  <2> QED
    BY <1>2, <2>1, Joined
<1>4. \A i \in Len(d) + 1 .. Len(e) : e[i].op = "-" /\ e[i].line = Len(lines)
  <2> TAKE i \in Len(d) + 1 .. Len(e)
  <2>1. i - Len(d) \in 1 .. Len(t) /\ i \in Len(d) + 1 .. Len(d) + Len(t)
    BY <1>3
  <2> QED
    BY <1>1, <1>3, <2>1
<1>5. Len(e) = Len(c) + (n + Len(t))
  BY <1>1, <1>3
<1>6. \A i \in 1 .. Len(c) : e[i] = c[i]
  <2> TAKE i \in 1 .. Len(c)
  <2>1. i \in 1 .. Len(d)
    BY <1>1
  <2> QED
    BY <1>3, <2>1 DEF Emits
<1>7. \A i \in Len(c) + 1 .. Len(e) : e[i].line = Len(lines)
  <2> TAKE i \in Len(c) + 1 .. Len(e)
  <2>1. CASE i \in Len(c) + 1 .. Len(d)
    <3>1. i \in 1 .. Len(d)
      BY <1>1, <2>1
    <3> QED
      BY <1>3, <2>1, <3>1 DEF Emits
  <2>2. CASE i \in Len(d) + 1 .. Len(e)
    BY <1>4, <2>2
  <2> QED
    BY <1>1, <1>3, <2>1, <2>2
<1>8. e[Len(c) + 1].op = o
  BY <1>1, <1>3 DEF Emits
<1>9. \A i \in Len(c) + 2 .. Len(e) : e[i].op = "-"
  <2> TAKE i \in Len(c) + 2 .. Len(e)
  <2>1. CASE i \in Len(c) + 2 .. Len(d)
    <3>1. i \in 1 .. Len(d)
      BY <1>1, <2>1
    <3> QED
      BY <1>3, <2>1, <3>1 DEF Emits
  <2>2. CASE i \in Len(d) + 1 .. Len(e)
    BY <1>4, <2>2
  <2> QED
    BY <1>1, <1>3, <2>1, <2>2
<1>10. \A j \in 1 .. Len(t) : e[Len(c) + n + j] = t[j]
  BY <1>1, <1>3
<1> QED
  BY <1>2, <1>3, <1>5, <1>6, <1>7, <1>8, <1>9, <1>10 DEF Emits

\* An opcode and its arguments, put together.
LEMMA OpArgs ==
  ASSUME Records, NEW c \in Seq(Bytes), NEW o \in Emittable, NEW t, Args(t)
  PROVE  /\ c \o (<<Op(o)>> \o t) = Append(c, Op(o)) \o t
         /\ <<Op(o)>> \o t \in Seq(Bytes) /\ Len(<<Op(o)>> \o t) = 1 + Len(t)
<1>1. PICK x : x = Op(o)
  OBVIOUS
<1>2. x \in Bytes
  BY <1>1, ByteTypes, RecordTypes DEF Op
<1>3. <<x>> \in Seq(Bytes) /\ t \in Seq(Bytes) /\ Len(<<x>>) = 1
  BY <1>2 DEF Args
<1>4. Append(c, x) = c \o <<x>>
  BY <1>2, AppendIsConcat
<1>5. (c \o <<x>>) \o t = c \o (<<x>> \o t)
  BY <1>3, ConcatAssociative
<1>6. <<x>> \o t \in Seq(Bytes) /\ Len(<<x>> \o t) = 1 + Len(t)
  BY <1>3, ConcatProperties
<1> QED
  BY <1>1, <1>4, <1>5, <1>6

-----------------------------------------------------------------------------
(* A buffer that an action works at, with what each put makes of it. *)

Work(b, pending) ==
  /\ b \in [bytes : Seq(Bytes), cap : Nat] /\ Stage(b.bytes, pending)
  /\ Capacity(b.cap) /\ Len(b.bytes) \in Nat /\ Len(b.bytes) <= b.cap + 4

Fits(b) == Len(b.bytes) <= b.cap

\* Nothing leads behind an instruction just put.
LEMMA EmitFresh ==
  ASSUME NEW c, Stage(c, PendingIn(open)), open \in Seq(Constructs),
         NEW d, NEW o, o \notin Jumps, NEW n \in Nat, n >= 1, Emits(d, c, o, n)
  PROVE  Fresh(d, open)
<1>1. /\ Len(c) \in Nat /\ Len(d) = Len(c) + n /\ Good(c)
      /\ \A i \in 1 .. Len(c) : d[i] = c[i]
      /\ \A i \in Len(c) + 1 .. Len(d) : d[i].op \notin Jumps
  <2>1. /\ Len(c) \in Nat /\ Len(d) = Len(c) + n /\ Good(c)
        /\ \A i \in 1 .. Len(c) : d[i] = c[i]
        /\ \A i \in Len(c) + 2 .. Len(d) : d[i].op = "-"
    BY LenProperties DEF Stage, Good, Emits
  <2>2. \A i \in Len(c) + 1 .. Len(d) : i = Len(c) + 1 \/ i \in Len(c) + 2 .. Len(d)
    BY <2>1
  <2>3. "-" \notin Jumps
    BY DEF Jumps, Forward
  <2>4. d[Len(c) + 1].op = o
    BY DEF Emits
  <2> QED
    BY <2>1, <2>2, <2>3, <2>4
<1>2. ASSUME NEW i \in 1 .. Len(d), d[i].op \in Jumps, i \notin PendingIn(open)
      PROVE  To(d, i) # Len(d) + 1
  <2>1. i \in 1 .. Len(c) /\ d[i] = c[i]
    <3>1. i \in 1 .. Len(c) \/ i \in Len(c) + 1 .. Len(d)
      BY <1>1
    <3> QED
      BY <1>1, <1>2, <3>1
  <2>2. IsJump(c, i, Jumps)
    BY <1>2, <2>1 DEF IsJump
  <2>3. i + 1 \in 1 .. Len(c)
    BY <1>1, <2>2, JumpInside
  <2>4. To(d, i) = To(c, i)
    BY <1>1, <2>1, <2>3, ToSame
  <2>5. To(c, i) \in 1 .. Len(c) + 1
    BY <1>2, <2>1 DEF Stage, Landed, BeginsAt
  <2> QED
    BY <1>1, <2>4, <2>5
<1>3. ASSUME NEW k \in 1 .. Len(open) PROVE Len(d) \notin Starts(open[k])
  <2>1. \A s \in Starts(open[k]) : s + 1 \in 1 .. Len(c) + 1 /\ s \in Nat
    <3>1. open[k] \in Constructs /\ \A s \in Starts(open[k]) : BeginsAt(c, s + 1)
      BY DEF Stage, AllHold, Holds
    <3> QED
      BY <3>1, ConstructKinds DEF BeginsAt
  <2> QED
    BY <1>1, <2>1
<1> QED
  BY <1>2, <1>3 DEF Fresh

LEMMA FitPut ==
  ASSUME NEW b, NEW P, Work(b, P), NEW m \in Nat, m <= b.cap + 4
  PROVE  Grown(b.cap, m) \in Nat /\ Grown(b.cap, m) >= m + 1 /\ Capacity(Grown(b.cap, m))
<1>1. PICK cap : cap = b.cap
  OBVIOUS
<1>2. Capacity(cap) /\ m <= cap + 4
  BY <1>1 DEF Work
<1>3. Grown(cap, m) \in Nat /\ Grown(cap, m) > m /\ Capacity(Grown(cap, m))
  BY <1>2, GrownOnce
<1> QED
  BY <1>1, <1>3

LEMMA FitPuts ==
  ASSUME NEW cap, Capacity(cap), NEW needed, NEW n \in Nat, n = Len(needed), n > 0,
         \A k \in 1 .. n : needed[k] \in Nat, needed[1] <= cap + 4,
         \A k \in 1 .. n - 1 : needed[k + 1] <= needed[k] + 3
  PROVE  /\ GrownFor(cap, needed) \in Nat /\ GrownFor(cap, needed) >= needed[n] + 1
         /\ Capacity(GrownFor(cap, needed))
<1>1. Capacity(GrownFor(cap, needed)) /\ GrownFor(cap, needed) > needed[n]
  BY GrownForRoom
<1>2. GrownFor(cap, needed) \in Nat /\ needed[n] \in Nat
  BY <1>1 DEF Capacity
<1> QED
  BY <1>1, <1>2

\* The capacity after bytes put one by one.
LEMMA FitBytes ==
  ASSUME NEW b, Len(b.bytes) \in Nat, Capacity(b.cap), Len(b.bytes) <= b.cap + 4,
         NEW n \in Nat, n > 0,
         NEW cap, cap = GrownFor(b.cap, [k \in 1 .. n |-> Len(b.bytes) + k - 1])
  PROVE  cap \in Nat /\ cap >= Len(b.bytes) + n /\ Capacity(cap)
<1>1. PICK needed : needed = [k \in 1 .. n |-> Len(b.bytes) + k - 1]
  OBVIOUS
<1>2. Len(b.bytes) \in Nat /\ Capacity(b.cap) /\ Len(b.bytes) <= b.cap + 4
  OBVIOUS
<1>3. n = Len(needed) /\ \A k \in 1 .. n : needed[k] = Len(b.bytes) + k - 1
  BY <1>1
<1>4. /\ \A k \in 1 .. n : needed[k] \in Nat
      /\ needed[1] <= b.cap + 4 /\ needed[n] = Len(b.bytes) + n - 1
  BY <1>2, <1>3
<1>5. \A k \in 1 .. n - 1 : needed[k + 1] <= needed[k] + 3
  BY <1>2, <1>3
<1>6. PICK old : old = b.cap
  OBVIOUS
<1>7. /\ GrownFor(old, needed) \in Nat /\ GrownFor(old, needed) >= needed[n] + 1
      /\ Capacity(GrownFor(old, needed))
  BY <1>2, <1>3, <1>4, <1>5, <1>6, FitPuts
<1> QED
  BY <1>1, <1>2, <1>4, <1>6, <1>7

LEMMA PairJoined ==
  ASSUME NEW x, NEW y
  PROVE  <<x, y>> = <<x>> \o <<y>>
<1>1. PICK s, t, d : s = <<x>> /\ t = <<y>> /\ d = s \o t
  OBVIOUS
<1>2. s \in Seq({x, y}) /\ t \in Seq({x, y}) /\ Len(s) = 1 /\ Len(t) = 1 /\ s[1] = x /\ t[1] = y
  BY <1>1
<1>3. d \in Seq({x, y}) /\ Len(d) = 2 /\ d[1] = x /\ d[1 + 1] = y
  BY <1>1, <1>2, Joined
<1>4. <<x, y>> \in Seq({x, y}) /\ Len(<<x, y>>) = 2
  OBVIOUS
<1>5. \A i \in 1 .. 2 : d[i] = <<x, y>>[i]
  BY <1>3
<1> QED
  BY <1>1, <1>3, <1>4, <1>5, SeqEqual

LEMMA EmitWork ==
  ASSUME Records, NEW b, NEW P, Work(b, P),
         NEW e, NEW d, NEW cap, e = [bytes |-> d, cap |-> cap], Capacity(cap), Len(d) <= cap + 4,
         NEW o, NEW n, Puts(d, b.bytes, o, n), NEW Q, Leads(d, b.bytes, o, P, Q)
  PROVE  /\ Work(e, Q) /\ Keeps(e.bytes, b.bytes) /\ Emits(e.bytes, b.bytes, o, n)
         /\ Len(e.bytes) = Len(b.bytes) + n
         /\ o \in Forward => IsJump(e.bytes, Len(b.bytes) + 1, Forward)
<1>1. PICK c : c = b.bytes
  OBVIOUS
<1>2. Stage(c, P) /\ Len(c) \in Nat
  BY <1>1 DEF Work
<1>3. /\ Stage(d, Q) /\ Keeps(d, c)
      /\ o \in Forward => IsJump(d, Len(c) + 1, Forward)
  BY <1>1, <1>2, EmitStage
<1>4. d \in Seq(Bytes) /\ Len(d) = Len(c) + n /\ n \in Nat /\ Emits(d, c, o, n)
  BY <1>1 DEF Puts, Emits
<1>5. e \in [bytes : Seq(Bytes), cap : Nat] /\ e.bytes = d /\ e.cap = cap
  BY <1>4 DEF Capacity
<1> QED
  BY <1>1, <1>2, <1>3, <1>4, <1>5 DEF Work

\* An instruction that is no jump.
LEMMA LeadsOn ==
  ASSUME NEW d, NEW c, NEW P, NEW o, o \notin Jumps
  PROVE  Leads(d, c, o, P, P)
  BY DEF Leads, Jumps

LEMMA PutOp ==
  ASSUME Records, NEW b, NEW P, Work(b, P), NEW o \in Alone
  PROVE  /\ Work(chput(b, Op(o)), P) /\ Fits(chput(b, Op(o)))
         /\ Keeps(chput(b, Op(o)).bytes, b.bytes)
         /\ Emits(chput(b, Op(o)).bytes, b.bytes, o, 1)
         /\ Len(chput(b, Op(o)).bytes) = Len(b.bytes) + 1
<1>1. /\ b.bytes \in Seq(Bytes) /\ Len(b.bytes) \in Nat
      /\ o \in Emittable /\ o \notin Lists /\ o \notin Jumps
  BY DEF Work, Emittable, Lists, Jumps, Forward, Alone
<1>2. PICK e, d, cap : /\ e = chput(b, Op(o)) /\ d = Append(b.bytes, Op(o))
                       /\ cap = Grown(b.cap, Len(b.bytes))
  OBVIOUS
<1>3. e = [bytes |-> d, cap |-> cap]
  BY <1>2 DEF chput
<1>4. Emits(d, b.bytes, o, 1)
  BY <1>1, <1>2, EmitOp
<1>5. Puts(d, b.bytes, o, 1)
  BY <1>1, <1>4 DEF Puts, LengthIn, Emits
<1>6. cap \in Nat /\ cap >= Len(b.bytes) + 1 /\ Capacity(cap)
  BY <1>2, FitPut DEF Work
<1>7. Len(d) = Len(b.bytes) + 1 /\ Len(d) <= cap /\ Len(d) <= cap + 4
  BY <1>1, <1>4, <1>6 DEF Emits
<1>8. /\ Work(e, P) /\ Keeps(e.bytes, b.bytes) /\ Emits(e.bytes, b.bytes, o, 1)
      /\ Len(e.bytes) = Len(b.bytes) + 1
  <2>1. Leads(d, b.bytes, o, P, P)
    BY <1>1, LeadsOn
  <2> QED
    BY <1>3, <1>5, <1>6, <1>7, <2>1, EmitWork
<1>9. Fits(e)
  BY <1>3, <1>7 DEF Fits
<1> QED
  BY <1>2, <1>8, <1>9

\* Arguments behind the bytes of an instruction.
LEMMA EmitMore ==
  ASSUME NEW c \in Seq(Bytes), NEW o, NEW t, Args(t)
  PROVE  /\ \A d : Emits(d, c, o, 1) => Emits(d \o t, c, o, 1 + Len(t))
         /\ \A d : Emits(d, c, o, 3) => Emits(d \o t, c, o, 3 + Len(t))
         /\ \A d : Emits(d, c, o, 2) => Emits(d \o t, c, o, 2 + Len(t))
<1>1. ASSUME NEW d, NEW n \in 1 .. 3, Emits(d, c, o, n) PROVE Emits(d \o t, c, o, n + Len(t))
  BY <1>1, EmitArgs
<1> QED
  BY <1>1

\* An opcode and a byte, put one after the other.
LEMMA ShortPut ==
  ASSUME Records, NEW b, b.bytes \in Seq(Bytes), Capacity(b.cap), Len(b.bytes) <= b.cap + 4,
         NEW o \in Emittable, NEW m \in Nat
  PROVE  LET e == chputs(b, <<Op(o), Arg(m)>>)
         IN  /\ e = [bytes |-> e.bytes, cap |-> e.cap]
             /\ Emits(e.bytes, b.bytes, o, 2) /\ Len(e.bytes) = Len(b.bytes) + 2
             /\ e.cap \in Nat /\ e.cap >= Len(b.bytes) + 2 /\ Capacity(e.cap)
<1>1. b.bytes \in Seq(Bytes) /\ Len(b.bytes) \in Nat
  BY LenProperties
<1>2. PICK e, d, cap : /\ e = chputs(b, <<Op(o), Arg(m)>>) /\ d = b.bytes \o <<Op(o), Arg(m)>>
                       /\ cap = GrownFor(b.cap, [k \in 1 .. 2 |-> Len(b.bytes) + k - 1])
  OBVIOUS
<1>3. e = [bytes |-> d, cap |-> cap]
  BY <1>2 DEF chputs
<1>4. Emits(d, b.bytes, o, 2)
  <2>1. Args(<<Arg(m)>>) /\ Len(<<Arg(m)>>) = 1
    BY OneArg
  <2>2. d = Append(b.bytes, Op(o)) \o <<Arg(m)>>
    <3>1. <<Op(o), Arg(m)>> = <<Op(o)>> \o <<Arg(m)>>
      BY PairJoined
    <3>2. b.bytes \o (<<Op(o)>> \o <<Arg(m)>>) = Append(b.bytes, Op(o)) \o <<Arg(m)>>
      BY <1>1, <2>1, OpArgs
    <3> QED
      BY <1>2, <3>1, <3>2
  <2>3. Emits(Append(b.bytes, Op(o)), b.bytes, o, 1)
    BY <1>1, EmitOp
  <2>4. Emits(d, b.bytes, o, 1 + Len(<<Arg(m)>>))
    BY <1>1, <2>1, <2>2, <2>3, EmitMore
  <2>5. 1 + Len(<<Arg(m)>>) = 2
    BY <2>1
  <2> QED
    BY <2>4, <2>5
<1>5. cap \in Nat /\ cap >= Len(b.bytes) + 2 /\ Capacity(cap)
  <2>1. PICK n : n = 2
    OBVIOUS
  <2>2. n \in Nat /\ n > 0 /\ cap = GrownFor(b.cap, [k \in 1 .. n |-> Len(b.bytes) + k - 1])
    BY <1>2, <2>1
  <2> QED
    BY <1>1, <2>1, <2>2, FitBytes
<1>6. Len(d) = Len(b.bytes) + 2
  BY <1>4 DEF Emits
<1>7. e.bytes = d /\ e.cap = cap
  BY <1>3
<1> QED
  BY <1>2, <1>3, <1>4, <1>5, <1>6, <1>7

\* OP_CONST, OP_DEFINE_GLOBAL, OP_PUT_8_WITH_POP, OP_PUT_8_VOID.
LEMMA PutShort ==
  ASSUME Records, NEW b, NEW P, Work(b, P), NEW o \in Short, NEW m \in Nat
  PROVE  LET e == chputs(b, <<Op(o), Arg(m)>>)
         IN  Work(e, P) /\ Fits(e) /\ Keeps(e.bytes, b.bytes) /\ Emits(e.bytes, b.bytes, o, 2)
<1>1. o \in Emittable /\ o \notin Lists /\ o \notin Jumps
  BY DEF Emittable, Lists, Jumps, Forward, Short
<1>2. PICK e : e = chputs(b, <<Op(o), Arg(m)>>)
  OBVIOUS
<1>3. /\ e = [bytes |-> e.bytes, cap |-> e.cap]
      /\ Emits(e.bytes, b.bytes, o, 2) /\ Len(e.bytes) = Len(b.bytes) + 2
      /\ e.cap \in Nat /\ e.cap >= Len(b.bytes) + 2 /\ Capacity(e.cap)
  <2>1. b.bytes \in Seq(Bytes) /\ Capacity(b.cap) /\ Len(b.bytes) <= b.cap + 4
    BY DEF Work
  <2> QED
    BY <1>1, <1>2, <2>1, ShortPut
<1>4. Puts(e.bytes, b.bytes, o, 2)
  <2>1. LengthIn(e.bytes, Len(b.bytes) + 1) = 2
    BY <1>3 DEF LengthIn, Emits, Alone, Short
  <2> QED
    BY <1>1, <1>3, <2>1 DEF Puts
<1>5. Leads(e.bytes, b.bytes, o, P, P)
  BY <1>1, LeadsOn
<1>6. Len(e.bytes) <= e.cap /\ Len(e.bytes) <= e.cap + 4
  BY <1>3 DEF Work
<1>7. Work(e, P) /\ Keeps(e.bytes, b.bytes)
  BY <1>3, <1>4, <1>5, <1>6, EmitWork
<1> QED
  BY <1>2, <1>3, <1>6, <1>7 DEF Fits

LEMMA FitWide ==
  ASSUME NEW cap, Capacity(cap), NEW m \in Nat, m <= cap + 4
  PROVE  /\ Grown(Grown(cap, m), m + 3) \in Nat /\ Grown(Grown(cap, m), m + 3) >= m + 4
         /\ Capacity(Grown(Grown(cap, m), m + 3))
<1>1. PICK grown, n : grown = Grown(cap, m) /\ n = m + 3
  OBVIOUS
<1>2. grown \in Nat /\ grown > m /\ Capacity(grown)
  BY <1>1, GrownOnce
<1>3. n \in Nat /\ n <= grown + 4
  BY <1>1, <1>2
<1>4. Grown(grown, n) \in Nat /\ Grown(grown, n) > n /\ Capacity(Grown(grown, n))
  BY <1>2, <1>3, GrownOnce
<1> QED
  BY <1>1, <1>4

\* What chput and chputn put one after the other.
LEMMA LongPut ==
  ASSUME Records, NEW b, b.bytes \in Seq(Bytes), Capacity(b.cap), Len(b.bytes) <= b.cap + 4,
         NEW o \in Emittable, NEW m \in Nat
  PROVE  LET e == chputn(chput(b, Op(o)), Wide(m, 2))
         IN  /\ e = [bytes |-> e.bytes, cap |-> e.cap]
             /\ e.bytes = Append(b.bytes, Op(o)) \o Wide(m, 2)
             /\ Emits(e.bytes, b.bytes, o, 3) /\ Len(e.bytes) = Len(b.bytes) + 3
             /\ e.cap \in Nat /\ e.cap >= Len(b.bytes) + 4 /\ Capacity(e.cap)
<1>1. b.bytes \in Seq(Bytes) /\ Len(b.bytes) \in Nat
  BY LenProperties
<1>2. PICK e, d, f, t : /\ e = chputn(chput(b, Op(o)), Wide(m, 2)) /\ t = Wide(m, 2)
                        /\ f = Append(b.bytes, Op(o)) /\ d = f \o t
  OBVIOUS
<1>3. Emits(f, b.bytes, o, 1) /\ Len(f) = Len(b.bytes) + 1
  BY <1>1, <1>2, EmitOp DEF Emits
<1>4. Args(t) /\ Len(t) = 2
  <2>1. PICK k : k = 2
    OBVIOUS
  <2>2. t = Wide(m, k) /\ k \in Nat /\ k >= 1
    BY <1>2, <2>1
  <2> QED
    BY <2>1, <2>2, WideArgs
<1>5. Emits(d, b.bytes, o, 3)
  <2>1. Emits(d, b.bytes, o, 1 + Len(t))
    BY <1>1, <1>2, <1>3, <1>4, EmitMore
  <2>2. 1 + Len(t) = 3
    BY <1>4
  <2> QED
    BY <2>1, <2>2
<1>6. e = [bytes |-> d, cap |-> Grown(Grown(b.cap, Len(b.bytes)), Len(b.bytes) + 3)]
  <2>1. e = [bytes |-> d, cap |-> Grown(Grown(b.cap, Len(b.bytes)), Len(f) + Len(t))]
    BY <1>2 DEF chput, chputn
  <2>2. Len(f) + Len(t) = Len(b.bytes) + 3
    BY <1>1, <1>3, <1>4
  <2> QED
    BY <2>1, <2>2
<1>7. /\ e.bytes = d /\ e.cap = Grown(Grown(b.cap, Len(b.bytes)), Len(b.bytes) + 3)
      /\ e = [bytes |-> e.bytes, cap |-> e.cap]
  BY <1>6
<1>8. e.cap \in Nat /\ e.cap >= Len(b.bytes) + 4 /\ Capacity(e.cap)
  <2>1. PICK old, n : old = b.cap /\ n = Len(b.bytes)
    OBVIOUS
  <2>2. Capacity(old) /\ n \in Nat /\ n <= old + 4
    BY <1>1, <2>1
  <2> QED
    BY <1>7, <2>1, <2>2, FitWide
<1>9. Len(d) = Len(b.bytes) + 3
  BY <1>5 DEF Emits
<1> QED
  BY <1>2, <1>5, <1>7, <1>8, <1>9

\* OP_COLLECT_LOCALS and the instructions with a wide index.
LEMMA PutLong ==
  ASSUME Records, NEW b, NEW P, Work(b, P), NEW o \in Long, NEW m \in Nat
  PROVE  LET e == chputn(chput(b, Op(o)), Wide(m, 2))
         IN  Work(e, P) /\ Fits(e) /\ Keeps(e.bytes, b.bytes) /\ Emits(e.bytes, b.bytes, o, 3)
<1>1. o \in Emittable /\ o \notin Lists /\ o \notin Jumps
  BY DEF Emittable, Lists, Jumps, Forward, Long
<1>2. PICK e : e = chputn(chput(b, Op(o)), Wide(m, 2))
  OBVIOUS
<1>3. /\ e = [bytes |-> e.bytes, cap |-> e.cap]
      /\ Emits(e.bytes, b.bytes, o, 3) /\ Len(e.bytes) = Len(b.bytes) + 3
      /\ e.cap \in Nat /\ e.cap >= Len(b.bytes) + 4 /\ Capacity(e.cap)
  <2>1. b.bytes \in Seq(Bytes) /\ Capacity(b.cap) /\ Len(b.bytes) <= b.cap + 4
    BY DEF Work
  <2> QED
    BY <1>1, <1>2, <2>1, LongPut
<1>4. Puts(e.bytes, b.bytes, o, 3)
  <2>1. LengthIn(e.bytes, Len(b.bytes) + 1) = 3
    BY <1>3 DEF LengthIn, Emits, Alone, Short, Long
  <2> QED
    BY <1>1, <1>3, <2>1 DEF Puts
<1>5. Leads(e.bytes, b.bytes, o, P, P)
  BY <1>1, LeadsOn
<1>6. Len(e.bytes) <= e.cap /\ Len(e.bytes) <= e.cap + 4
  BY <1>3 DEF Work
<1>7. Work(e, P) /\ Keeps(e.bytes, b.bytes)
  BY <1>3, <1>4, <1>5, <1>6, EmitWork
<1> QED
  BY <1>2, <1>3, <1>6, <1>7 DEF Fits

\* A jump that is to be patched.
LEMMA PutJump ==
  ASSUME Records, NEW b, NEW P, Work(b, P), NEW o \in Forward
  PROVE  LET e == emit_jump(b, o)
         IN  /\ Work(e, P \cup {JumpArg(e)}) /\ Fits(e) /\ Keeps(e.bytes, b.bytes)
             /\ Len(e.bytes) = Len(b.bytes) + 5 /\ JumpArg(e) = Len(b.bytes) + 1
             /\ JumpArg(e) \in Nat /\ IsJump(e.bytes, JumpArg(e), Forward)
<1>1. /\ b.bytes \in Seq(Bytes) /\ Len(b.bytes) \in Nat
      /\ o \in Emittable /\ o \notin Lists /\ o # "OP_JUMP_BACK"
  BY DEF Work, Emittable, Lists, Jumps, Forward
<1>2. PICK e, d, t, w : /\ e = emit_jump(b, o) /\ w = Wide(Unpatched, 4)
                        /\ t = <<Op(o)>> \o w /\ d = b.bytes \o t
  OBVIOUS
<1>3. Args(w) /\ Len(w) = 4
  <2>1. PICK k : k = 4
    OBVIOUS
  <2>2. w = Wide(Unpatched, k) /\ k \in Nat /\ k >= 1 /\ Unpatched \in Nat
    BY <1>2, <2>1 DEF Unpatched
  <2> QED
    BY <2>1, <2>2, WideArgs
<1>4. d = Append(b.bytes, Op(o)) \o w /\ Len(t) = 5
  <2>1. d = Append(b.bytes, Op(o)) \o w /\ Len(t) = 1 + Len(w)
    BY <1>1, <1>2, <1>3, OpArgs
  <2> QED
    BY <1>3, <2>1
<1>5. Emits(d, b.bytes, o, 5)
  <2>1. Emits(d, b.bytes, o, 1 + Len(w))
    BY <1>1, <1>3, <1>4, EmitOp, EmitMore
  <2>2. 1 + Len(w) = 5
    BY <1>3
  <2> QED
    BY <2>1, <2>2
<1>6. PICK cap : cap = GrownFor(b.cap, [k \in 1 .. 5 |-> Len(b.bytes) + k - 1])
  OBVIOUS
<1>7. e = [bytes |-> d, cap |-> cap]
  BY <1>2, <1>4, <1>6 DEF emit_jump, chputs
<1>8. cap \in Nat /\ cap >= Len(b.bytes) + 5 /\ Capacity(cap)
  <2>1. PICK n : n = 5
    OBVIOUS
  <2>2. n \in Nat /\ n > 0 /\ cap = GrownFor(b.cap, [k \in 1 .. n |-> Len(b.bytes) + k - 1])
    BY <1>6, <2>1
  <2>3. Len(b.bytes) <= b.cap + 4 /\ Capacity(b.cap)
    BY DEF Work
  <2> QED
    BY <1>1, <2>1, <2>2, <2>3, FitBytes
<1>9. Len(d) = Len(b.bytes) + 5 /\ Len(d) <= cap /\ Len(d) <= cap + 4
  BY <1>1, <1>5, <1>8 DEF Emits
<1>10. Puts(d, b.bytes, o, 5)
  <2>1. LengthIn(d, Len(b.bytes) + 1) = 5
    BY <1>5 DEF LengthIn, Emits, Alone, Short, Long, Jumps, Forward
  <2> QED
    BY <1>1, <1>5, <2>1 DEF Puts
<1>11. PICK p : p = Len(b.bytes) + 1
  OBVIOUS
<1>12. Leads(d, b.bytes, o, P, P \cup {p})
  BY <1>1, <1>11 DEF Leads
<1>13. /\ Work(e, P \cup {p}) /\ Keeps(e.bytes, b.bytes)
       /\ IsJump(e.bytes, p, Forward)
  BY <1>7, <1>8, <1>9, <1>10, <1>11, <1>12, EmitWork
<1>14. e.bytes = d /\ e.cap = cap /\ JumpArg(e) = p /\ p \in Nat
  BY <1>1, <1>7, <1>9, <1>11 DEF JumpArg
<1> QED
  BY <1>2, <1>9, <1>11, <1>13, <1>14 DEF Fits

\* The jump at the end of a loop.
LEMMA PutBack ==
  ASSUME Records, NEW b, NEW P, Work(b, P), NEW target \in Nat, BeginsAt(b.bytes, target + 1)
  PROVE  LET e == jump_to(b, "OP_JUMP_BACK", target)
         IN  /\ Work(e, P) /\ Keeps(e.bytes, b.bytes)
             /\ Len(e.bytes) = Len(b.bytes) + 5
             /\ e.bytes[Len(b.bytes) + 1].op = "OP_JUMP_BACK"
             /\ e.bytes[Len(b.bytes) + 5].op = "-" /\ e.bytes[Len(b.bytes) + 5].arg = 0
<1> DEFINE o == "OP_JUMP_BACK"
<1>1. /\ b.bytes \in Seq(Bytes) /\ Len(b.bytes) \in Nat
      /\ o \in Emittable /\ o \notin Lists /\ o \notin Forward
      /\ target <= Len(b.bytes)
  BY DEF Work, Emittable, Lists, Jumps, Forward, BeginsAt
<1> HIDE DEF o
<1>2. PICK e, c, w, m : /\ e = jump_to(b, o, target) /\ c = chput(b, Op(o))
                        /\ m = Len(b.bytes) + 5 - target /\ w = Wide(m, 4)
  OBVIOUS
<1>3. /\ c = [bytes |-> Append(b.bytes, Op(o)), cap |-> Grown(b.cap, Len(b.bytes))]
      /\ Emits(c.bytes, b.bytes, o, 1) /\ Len(c.bytes) = Len(b.bytes) + 1 /\ m \in Nat
  <2>1. c = [bytes |-> Append(b.bytes, Op(o)), cap |-> Grown(b.cap, Len(b.bytes))]
    BY <1>2 DEF chput
  <2>2. Emits(c.bytes, b.bytes, o, 1)
    BY <1>1, <2>1, EmitOp
  <2>3. Len(c.bytes) = Len(b.bytes) + 1
    BY <2>2 DEF Emits
  <2> QED
    BY <1>1, <1>2, <2>1, <2>2, <2>3
<1>4. PICK d : d = c.bytes \o w
  OBVIOUS
<1>5. e = [bytes |-> d, cap |-> Grown(b.cap, Len(b.bytes))]
  <2>1. Len(c.bytes) + 4 - target = m
    BY <1>1, <1>2, <1>3
  <2>2. e = [c EXCEPT !.bytes = @ \o w]
    BY <1>2, <2>1 DEF jump_to
  <2> QED
    BY <1>3, <1>4, <2>2
<1>6. Args(w) /\ Len(w) = 4 /\ w[1].arg = m /\ w[4].arg = 0 /\ w[4].op = "-"
  <2>1. PICK k : k = 4
    OBVIOUS
  <2>2. w = Wide(m, k) /\ k \in Nat /\ k >= 1 /\ k \in 2 .. k
    BY <1>2, <2>1
  <2>3. Args(w) /\ Len(w) = k /\ w[1].arg = m /\ w[k].arg = 0
    BY <1>3, <2>2, WideArgs
  <2>4. w[k].op = "-"
    BY <2>2, <2>3 DEF Args
  <2> QED
    BY <2>1, <2>3, <2>4
<1>7. /\ Emits(d, b.bytes, o, 5)
      /\ d[Len(b.bytes) + 2] = w[1] /\ d[Len(b.bytes) + 5] = w[4]
  <2>1. PICK n : n = 1
    OBVIOUS
  <2>2. n \in Nat /\ n >= 1 /\ Emits(c.bytes, b.bytes, o, n)
    BY <1>3, <2>1
  <2>3. PICK f : f = c.bytes
    OBVIOUS
  <2>4. f \in Seq(Bytes) /\ w \in Seq(Bytes) /\ d = f \o w
    BY <1>4, <1>6, <2>2, <2>3 DEF Emits, Args
  <2>5. Emits(f \o w, b.bytes, o, n + Len(w))
    BY <1>1, <1>6, <2>2, <2>3, EmitArgs
  <2>6. \A j \in 1 .. Len(w) : (f \o w)[Len(f) + j] = w[j]
    BY <2>4, Joined
  <2>7. n + Len(w) = 5 /\ 1 \in 1 .. Len(w) /\ 4 \in 1 .. Len(w)
    BY <1>6, <2>1
  <2>8. Len(f) + 1 = Len(b.bytes) + 2 /\ Len(f) + 4 = Len(b.bytes) + 5
    BY <1>1, <1>3, <2>3
  <2>9. d[Len(f) + 1] = w[1] /\ d[Len(f) + 4] = w[4]
    BY <2>4, <2>6, <2>7
  <2> QED
    BY <2>4, <2>5, <2>7, <2>8, <2>9
<1>8. PICK cap : cap = Grown(b.cap, Len(b.bytes))
  OBVIOUS
<1>9. cap \in Nat /\ cap >= Len(b.bytes) + 1 /\ Capacity(cap)
  <2>1. Len(b.bytes) <= b.cap + 4
    BY DEF Work
  <2> QED
    BY <1>1, <1>8, <2>1, FitPut
<1>10. Len(d) = Len(b.bytes) + 5 /\ Len(d) <= cap + 4
  BY <1>1, <1>7, <1>9 DEF Emits
<1>11. Puts(d, b.bytes, o, 5)
  <2>1. LengthIn(d, Len(b.bytes) + 1) = 5
    BY <1>7 DEF LengthIn, Emits, Alone, Short, Long, Jumps, Forward, o
  <2> QED
    BY <1>1, <1>7, <2>1 DEF Puts
<1>12. Leads(d, b.bytes, o, P, P)
  <2>1. Len(b.bytes) + 6 - d[Len(b.bytes) + 2].arg = target + 1
    BY <1>1, <1>2, <1>6, <1>7
  <2> QED
    BY <1>1, <2>1 DEF Leads
<1>13. Work(e, P) /\ Keeps(e.bytes, b.bytes)
  BY <1>5, <1>8, <1>9, <1>10, <1>11, <1>12, EmitWork
<1>14. e.bytes = d /\ d[Len(b.bytes) + 1].op = o
  BY <1>5, <1>7 DEF Emits
<1> QED
  BY <1>2, <1>6, <1>7, <1>10, <1>13, <1>14 DEF o

LEMMA Patch ==
  ASSUME NEW b, NEW P, Work(b, P), NEW p, IsJump(b.bytes, p, Forward),
         NEW Q, P \ {p} \subseteq Q
  PROVE  LET e == confirm_jump(b, p)
         IN  /\ Work(e, Q) /\ Keeps(e.bytes, b.bytes)
             /\ Len(e.bytes) = Len(b.bytes) /\ e.cap = b.cap
             /\ \A i \in 1 .. Len(b.bytes) : /\ e.bytes[i].op = b.bytes[i].op
                                             /\ i # p + 1 => e.bytes[i] = b.bytes[i]
<1>1. PICK c, e : c = b.bytes /\ e = confirm_jump(b, p)
  OBVIOUS
<1>2. Stage(c, P) /\ "bytes" \in DOMAIN b
  BY <1>1 DEF Work
<1>3. /\ Stage(e.bytes, Q) /\ Keeps(e.bytes, c) /\ Len(e.bytes) = Len(c) /\ e.cap = b.cap
      /\ \A i \in 1 .. Len(c) : e.bytes[i].op = c[i].op /\ (i # p + 1 => e.bytes[i] = c[i])
  BY <1>1, <1>2, PatchStage
<1>4. e \in [bytes : Seq(Bytes), cap : Nat]
  <2>1. e.bytes \in Seq(Bytes)
    BY <1>3 DEF Stage, Good
  <2>2. PICK x : e = [b EXCEPT !.bytes = x]
    BY <1>1 DEF confirm_jump
  <2>3. e.bytes = x
    BY <1>2, <2>2
  <2> QED
    BY <2>1, <2>2, <2>3 DEF Work
<1> QED
  BY <1>1, <1>3, <1>4 DEF Work

\* The end of a block whose last byte is taken away.
LEMMA CutWork ==
  ASSUME Records, NEW b, Work(b, PendingIn(open)), open \in Seq(Constructs),
         Cuttable(b.bytes), Fresh(b.bytes, open)
  PROVE  LET e == chputn(chput([b EXCEPT !.bytes = Front(@)], Op("OP_COLLECT_LOCALS")), Wide(1, 2))
         IN  Work(e, PendingIn(open)) /\ Fits(e)
<1>1. PICK c, P, f, g, e, d :
        /\ c = b.bytes /\ P = PendingIn(open) /\ f = Front(c) /\ g = [b EXCEPT !.bytes = Front(@)]
        /\ e = chputn(chput(g, Op("OP_COLLECT_LOCALS")), Wide(1, 2)) /\ d = e.bytes
  OBVIOUS
<1>2. /\ c \in Seq(Bytes) /\ Good(c) /\ AllHold(c, open) /\ Landed(c, P) /\ Recorded(c)
      /\ Capacity(b.cap) /\ Len(c) <= b.cap + 4
  BY <1>1 DEF Work, Stage
<1>3. /\ f \in Seq(Bytes) /\ Len(c) \in Nat /\ Len(c) >= 1 /\ Len(f) = Len(c) - 1
      /\ \A i \in 1 .. Len(c) - 1 : f[i] = c[i]
  <2>1. c # <<>>
    BY <1>1 DEF Cuttable
  <2> QED
    BY <1>1, <1>2, <2>1, FrontLast
<1>4. g.bytes = f /\ g.cap = b.cap
  BY <1>1 DEF Work
<1>5. /\ e = [bytes |-> d, cap |-> e.cap] /\ Emits(d, f, "OP_COLLECT_LOCALS", 3)
      /\ e.cap \in Nat /\ e.cap >= Len(f) + 4 /\ Capacity(e.cap)
  <2>1. PICK o, m : o = "OP_COLLECT_LOCALS" /\ m = 1
    OBVIOUS
  <2>2. o \in Emittable /\ m \in Nat
    BY <2>1 DEF Emittable, Long
  <2>3. g.bytes \in Seq(Bytes) /\ Capacity(g.cap) /\ Len(g.bytes) <= g.cap + 4
    BY <1>2, <1>3, <1>4 DEF Capacity
  <2>4. e = chputn(chput(g, Op(o)), Wide(m, 2))
    BY <1>1, <2>1
  <2>5. /\ e = [bytes |-> e.bytes, cap |-> e.cap] /\ Emits(e.bytes, g.bytes, o, 3)
        /\ e.cap \in Nat /\ e.cap >= Len(g.bytes) + 4 /\ Capacity(e.cap)
    BY <2>2, <2>3, <2>4, LongPut
  <2> QED
    BY <1>1, <1>4, <2>1, <2>5
<1>6. /\ d \in Seq(Bytes) /\ Len(d) = Len(c) + 2
      /\ \A i \in 1 .. Len(c) - 1 : d[i] = c[i]
      /\ \A i \in Len(c) .. Len(d) : d[i].line = Len(lines)
      /\ d[Len(c)].op = "OP_COLLECT_LOCALS"
      /\ \A i \in Len(c) + 1 .. Len(d) : d[i].op = "-"
  <2>1. /\ d \in Seq(Bytes) /\ Len(d) = Len(f) + 3
        /\ \A i \in 1 .. Len(f) : d[i] = f[i]
        /\ \A i \in Len(f) + 1 .. Len(d) : d[i].line = Len(lines)
        /\ d[Len(f) + 1].op = "OP_COLLECT_LOCALS"
        /\ \A i \in Len(f) + 2 .. Len(d) : d[i].op = "-"
    BY <1>5 DEF Emits
  <2>2. Len(f) + 1 = Len(c) /\ Len(f) + 2 = Len(c) + 1 /\ Len(f) + 3 = Len(c) + 2
    BY <1>3
  <2> QED
    BY <1>3, <2>1, <2>2
<1>7. IsCut(d, c)
  BY <1>3, <1>6 DEF IsCut
<1>8. Good(d) /\ \A i : BeginsAt(c, i) /\ i # Len(c) + 1 => BeginsAt(d, i)
  BY <1>1, <1>2, <1>7, CutKeeps
<1>9. Landed(d, P) /\ \A p : IsJump(c, p, Jumps) => p \in 1 .. Len(c) - 1
  <2>1. \A i \in 1 .. Len(c) : c[i].op \in Jumps /\ i \notin P => To(c, i) # Len(c) + 1
    BY <1>1 DEF Fresh
  <2> QED
    BY <1>1, <1>2, <1>7, <2>1, CutLands
<1>10. AllHold(d, open)
  <2> SUFFICES ASSUME NEW k \in 1 .. Len(open) PROVE Holds(d, open[k])
    BY DEF AllHold
  <2>1. Holds(c, open[k]) /\ Len(c) \notin Starts(open[k])
    BY <1>1, <1>2 DEF AllHold, Fresh
  <2>2. \A p : IsJump(c, p, Forward) => IsJump(d, p, Forward)
    <3> SUFFICES ASSUME NEW p, IsJump(c, p, Forward) PROVE IsJump(d, p, Forward)
      OBVIOUS
    <3>1. IsJump(c, p, Jumps)
      BY DEF IsJump, Jumps
    <3>2. p \in 1 .. Len(c) - 1
      BY <1>9, <3>1
    <3> QED
      BY <1>3, <1>6, <3>2 DEF IsJump
  <2>3. \A s \in Starts(open[k]) : BeginsAt(c, s + 1) => BeginsAt(d, s + 1)
    <3>1. \A s \in Starts(open[k]) : s \in Nat
      BY <2>1, ConstructKinds DEF Holds
    <3> QED
      BY <1>3, <1>8, <2>1, <3>1
  <2> QED
    BY <2>1, <2>2, <2>3, HoldsOn
<1>11. Recorded(d)
  <2>1. lines[Len(lines)].opstart \in Nat /\ lines[Len(lines)].opstart <= Len(c) /\ Len(lines) \in Nat
        /\ Len(lines) >= 1
    BY <1>2, RecordTypes DEF Recorded
  <2>2. ASSUME NEW i \in 1 .. Len(d) PROVE InLine(d, lines, i)
    <3>1. CASE i < Len(c)
      <4>1. i \in 1 .. Len(c) /\ i \in 1 .. Len(c) - 1
        BY <1>3, <3>1
      <4>2. d[i] = c[i] /\ InLine(c, lines, i)
        BY <1>2, <1>6, <4>1 DEF Recorded
      <4> QED
        BY <4>2 DEF InLine
    <3>2. CASE i >= Len(c)
      <4>1. d[i].line = Len(lines)
        BY <1>3, <1>6, <3>2
      <4>2. lines[Len(lines)].opstart < i \/ (lines[Len(lines)].opstart = i /\ i = Len(c))
        BY <1>3, <2>1, <3>2
      <4> QED
        BY <1>6, <2>1, <4>1, <4>2 DEF InLine
    <3> QED
      BY <1>3, <3>1, <3>2
  <2> QED
    BY <1>3, <1>6, <2>1, <2>2 DEF Recorded
<1>12. Len(d) <= e.cap
  BY <1>3, <1>5, <1>6
<1>13. e \in [bytes : Seq(Bytes), cap : Nat] /\ e.bytes = d
  BY <1>1, <1>5, <1>6
<1>14. Len(d) \in Nat /\ Len(d) <= e.cap + 4
  BY <1>3, <1>5, <1>6, <1>12
<1>15. Work(e, P) /\ Fits(e)
  BY <1>5, <1>8, <1>9, <1>10, <1>11, <1>12, <1>13, <1>14 DEF Work, Stage, Fits
<1> QED
  BY <1>1, <1>15

-----------------------------------------------------------------------------
(* Constants, and what is put for them. *)

LEMMA InsertPut ==
  ASSUME Records, NEW b, NEW P, Work(b, P), consts.count \in Nat, consts.count # Indices - 1,
         NEW o \in Short, NEW o16 \in Long
  PROVE  LET e == Inserted(b, o, o16)
         IN  Work(e, P) /\ Fits(e) /\ Keeps(e.bytes, b.bytes)
<1>1. CASE consts.count < ByteConsts
  <2>1. Inserted(b, o, o16) = chputs(b, <<Op(o), Arg(consts.count)>>)
    BY <1>1 DEF Inserted
  <2> QED
    BY <2>1, PutShort
<1>2. CASE ~(consts.count < ByteConsts)
  <2>1. Inserted(b, o, o16) = chputn(chput(b, Op(o16)), Wide(consts.count, 2))
    BY <1>2 DEF Inserted
  <2> QED
    BY <2>1, PutLong
<1> QED
  BY <1>1, <1>2

\* A declaration up to its constant.
LEMMA InsertBegun ==
  ASSUME Records, NEW b, NEW P, Work(b, P), consts.count \in Nat, consts.count # Indices - 1,
         NEW o \in Lists, NEW o16 \in WideLists
  PROVE  LET e == Inserted(b, o, o16)
         IN  /\ e = [bytes |-> e.bytes, cap |-> e.cap]
             /\ e.cap \in Nat /\ Len(e.bytes) \in Nat /\ Len(e.bytes) <= e.cap /\ Capacity(e.cap)
             /\ \/ Emits(e.bytes, b.bytes, o, 2) /\ Len(e.bytes) = Len(b.bytes) + 2
                \/ Emits(e.bytes, b.bytes, o16, 3) /\ Len(e.bytes) = Len(b.bytes) + 3
<1>1. b.bytes \in Seq(Bytes) /\ Capacity(b.cap) /\ Len(b.bytes) <= b.cap + 4 /\ Len(b.bytes) \in Nat
  BY DEF Work
<1>2. o \in Emittable /\ o16 \in Emittable
  BY DEF Emittable
<1>3. PICK e : e = Inserted(b, o, o16)
  OBVIOUS
<1>4. CASE consts.count < ByteConsts
  <2>1. e = chputs(b, <<Op(o), Arg(consts.count)>>)
    BY <1>3, <1>4 DEF Inserted
  <2>2. /\ e = [bytes |-> e.bytes, cap |-> e.cap]
        /\ Emits(e.bytes, b.bytes, o, 2) /\ Len(e.bytes) = Len(b.bytes) + 2
        /\ e.cap \in Nat /\ e.cap >= Len(b.bytes) + 2 /\ Capacity(e.cap)
    BY <1>1, <1>2, <2>1, ShortPut
  <2> QED
    BY <1>1, <1>3, <2>2
<1>5. CASE ~(consts.count < ByteConsts)
  <2>1. e = chputn(chput(b, Op(o16)), Wide(consts.count, 2))
    BY <1>3, <1>5 DEF Inserted
  <2>2. /\ e = [bytes |-> e.bytes, cap |-> e.cap]
        /\ Emits(e.bytes, b.bytes, o16, 3) /\ Len(e.bytes) = Len(b.bytes) + 3
        /\ e.cap \in Nat /\ e.cap >= Len(b.bytes) + 4 /\ Capacity(e.cap)
    BY <1>1, <1>2, <2>1, LongPut
  <2> QED
    BY <1>1, <1>3, <2>2
<1> QED
  BY <1>4, <1>5

\* The list of a declaration: its length, n, and as many units as that.
LEMMA ListEnds ==
  ASSUME Records, NEW b, NEW P, Work(b, P), NEW o \in Lists, NEW o16 \in WideLists, NEW d,
         Emits(d, b.bytes, o, 2) \/ Emits(d, b.bytes, o16, 3),
         NEW t, Args(t), NEW n \in Nat, Len(t) >= 1, t[1].arg = n,
         Len(t) = 1 + (IF o = "OP_DECLARE_FUNCTION" THEN n ELSE 2 * n),
         NEW e, NEW cap, e = [bytes |-> d \o t, cap |-> cap], Capacity(cap), Len(d \o t) <= cap
  PROVE  Work(e, P) /\ Fits(e) /\ Keeps(e.bytes, b.bytes)
<1>1. PICK c, f : c = b.bytes /\ f = d \o t
  OBVIOUS
<1>2. c \in Seq(Bytes) /\ Len(c) \in Nat /\ Len(t) \in Nat /\ t \in Seq(Bytes) /\ d \in Seq(Bytes)
  BY <1>1, LenProperties DEF Work, Args, Emits
<1>3. PICK p \in {o, o16}, m \in {2, 3} : Puts(f, c, p, m + Len(t)) /\ p \in Emittable \ Jumps
  <2>1. CASE Emits(d, c, o, 2)
    <3>1. Emits(f, c, o, 2 + Len(t)) /\ Len(d) = Len(c) + 2
      <4>1. Emits(f, c, o, 2 + Len(t))
        BY <1>1, <1>2, <2>1, EmitMore
      <4> QED
        BY <2>1, <4>1 DEF Emits
    <3>2. f[Len(d) + 1] = t[1]
      <4>1. \A j \in 1 .. Len(t) : f[Len(d) + j] = t[j]
        BY <1>1, <1>2, Joined
      <4> QED
        BY <1>2, <4>1
    <3>3. Len(d) + 1 = (Len(c) + 1) + 2
      BY <1>2, <3>1
    <3>4. f[(Len(c) + 1) + 2].arg = n
      BY <3>2, <3>3
    <3>5. f[Len(c) + 1].op = o
      BY <3>1 DEF Emits
    <3>6. LengthIn(f, Len(c) + 1) = 2 + Len(t)
      <4>1. CASE o = "OP_DECLARE_FUNCTION"
        <5>1. LengthIn(f, Len(c) + 1) = 3 + n
          BY <3>4, <3>5, <4>1 DEF LengthIn, Alone, Short, Long, Jumps, Forward
        <5> QED
          BY <4>1, <5>1
      <4>2. CASE o = "OP_DECLARE_CLASS"
        <5>1. LengthIn(f, Len(c) + 1) = 3 + 2 * n
          BY <3>4, <3>5, <4>2 DEF LengthIn, Alone, Short, Long, Jumps, Forward
        <5> QED
          BY <4>2, <5>1
      <4> QED
        BY <4>1, <4>2 DEF Lists
    <3>7. o \in Emittable \ Jumps /\ 2 + Len(t) \in Nat /\ 2 + Len(t) >= 3
      BY <1>2 DEF Emittable, Lists, Jumps, Forward
    <3> QED
      BY <3>1, <3>6, <3>7 DEF Puts
  <2>2. CASE Emits(d, c, o16, 3)
    <3>1. Emits(f, c, o16, 3 + Len(t))
      BY <1>1, <1>2, <2>2, EmitMore
    <3>2. o16 \in Emittable \ Jumps /\ 3 + Len(t) \in Nat /\ 3 + Len(t) >= 3
      BY <1>2 DEF Emittable, WideLists, Jumps, Forward
    <3> QED
      BY <3>1, <3>2 DEF Puts
  <2> QED
    BY <1>1, <2>1, <2>2
<1>4. Leads(f, c, p, P, P)
  BY <1>3, LeadsOn
<1>5. PICK k : k = m + Len(t)
  OBVIOUS
<1>6. Len(f) <= cap + 4 /\ Len(f) \in Nat /\ cap \in Nat
  <2>1. f \in Seq(Bytes)
    BY <1>3 DEF Puts, Emits
  <2> QED
    BY <1>1, <2>1, LenProperties DEF Capacity
<1>7. Work(e, P) /\ Keeps(e.bytes, b.bytes)
  BY <1>1, <1>3, <1>4, <1>5, <1>6, EmitWork
<1>8. e.bytes = f /\ e.cap = cap
  BY <1>1
<1> QED
  BY <1>1, <1>7, <1>8 DEF Fits

LEMMA JoinArgs ==
  ASSUME NEW s, Args(s), NEW t, Args(t), Len(s) >= 1
  PROVE  Args(s \o t) /\ Len(s \o t) = Len(s) + Len(t) /\ (s \o t)[1] = s[1]
<1>1. PICK u : u = s \o t
  OBVIOUS
<1>2. s \in Seq(Bytes) /\ t \in Seq(Bytes)
  BY DEF Args
<1>3. /\ u \in Seq(Bytes) /\ Len(s) \in Nat /\ Len(t) \in Nat /\ Len(u) = Len(s) + Len(t)
      /\ \A i \in 1 .. Len(s) : u[i] = s[i]
      /\ \A i \in Len(s) + 1 .. Len(s) + Len(t) : u[i] = t[i - Len(s)]
  BY <1>1, <1>2, Joined
<1>4. ASSUME NEW i \in 1 .. Len(u) PROVE u[i].op = "-" /\ u[i].line = Len(lines)
  <2>1. CASE i \in 1 .. Len(s)
    BY <1>3, <2>1 DEF Args
  <2>2. CASE i \in Len(s) + 1 .. Len(s) + Len(t)
    <3>1. i - Len(s) \in 1 .. Len(t)
      BY <1>3, <2>2
    <3> QED
      BY <1>3, <2>2, <3>1 DEF Args
  <2> QED
    BY <1>3, <2>1, <2>2
<1> QED
  BY <1>1, <1>3, <1>4 DEF Args

LEMMA ArgsFrom ==
  ASSUME Records, NEW n \in Nat, NEW f, f \in [1 .. n -> Nat]
  PROVE  Args([k \in 1 .. n |-> Arg(f[k])]) /\ Len([k \in 1 .. n |-> Arg(f[k])]) = n
<1>1. PICK t : t = [k \in 1 .. n |-> Arg(f[k])]
  OBVIOUS
<1>2. \A m \in Nat : Arg(m) \in Bytes /\ Arg(m).op = "-" /\ Arg(m).line = Len(lines)
  BY ByteTypes, RecordTypes DEF Arg
<1>3. \A k \in 1 .. n : t[k] \in Bytes /\ t[k].op = "-" /\ t[k].line = Len(lines)
  BY <1>1, <1>2
<1>4. t \in Seq(Bytes) /\ Len(t) = n
  BY <1>1, <1>3
<1> QED
  BY <1>1, <1>3, <1>4 DEF Args

LEMMA FunctionPut ==
  ASSUME Records, NEW b, NEW P, Work(b, P), consts.count \in Nat, consts.count # Indices - 1,
         NEW n \in Nat
  PROVE  LET c == Inserted(b, "OP_DECLARE_FUNCTION", "OP_DECLARE_FUNCTION_16")
             e == chputs(c, <<Arg(n)>> \o [i \in 1 .. n |-> Arg(0)])
         IN  Work(e, P) /\ Fits(e) /\ Keeps(e.bytes, b.bytes)
<1>1. PICK o, o16 : o = "OP_DECLARE_FUNCTION" /\ o16 = "OP_DECLARE_FUNCTION_16"
  OBVIOUS
<1>2. PICK c, d, t, e, cap :
        /\ c = Inserted(b, o, o16) /\ d = c.bytes /\ t = <<Arg(n)>> \o [i \in 1 .. n |-> Arg(0)]
        /\ e = chputs(c, t) /\ cap = GrownFor(c.cap, [k \in 1 .. Len(t) |-> Len(d) + k - 1])
  OBVIOUS
<1>3. /\ Len(d) \in Nat /\ Len(d) <= c.cap /\ Capacity(c.cap) /\ c.cap \in Nat
      /\ Emits(d, b.bytes, o, 2) \/ Emits(d, b.bytes, o16, 3)
  <2>1. o \in Lists /\ o16 \in WideLists
    BY <1>1 DEF Lists, WideLists
  <2> QED
    BY <1>2, <2>1, InsertBegun
<1>4. Args(t) /\ Len(t) = 1 + n /\ t[1].arg = n
  <2>1. PICK z, f : z = [i \in 1 .. n |-> Arg(0)] /\ f = [i \in 1 .. n |-> 0]
    OBVIOUS
  <2>2. f \in [1 .. n -> Nat] /\ z = [k \in 1 .. n |-> Arg(f[k])]
    BY <2>1
  <2>3. Args(z) /\ Len(z) = n
    BY <2>2, ArgsFrom
  <2>4. PICK s : s = <<Arg(n)>>
    OBVIOUS
  <2>5. Args(s) /\ Len(s) = 1 /\ s[1].arg = n
    BY <2>4, OneArg
  <2>6. Args(s \o z) /\ Len(s \o z) = Len(s) + Len(z) /\ (s \o z)[1] = s[1]
    <3>1. Len(s) >= 1
      BY <2>5
    <3> QED
      BY <2>3, <2>5, <3>1, JoinArgs
  <2> QED
    BY <1>2, <2>1, <2>3, <2>4, <2>5, <2>6
<1>5. e = [bytes |-> d \o t, cap |-> cap]
  BY <1>2 DEF chputs
<1>6. cap \in Nat /\ cap >= Len(d) + Len(t) /\ Capacity(cap)
  <2>1. Len(t) \in Nat /\ Len(t) > 0 /\ Len(d) <= c.cap + 4
    BY <1>3, <1>4
  <2> QED
    BY <1>2, <1>3, <2>1, FitBytes
<1>7. Len(d \o t) <= cap
  <2>1. d \in Seq(Bytes) /\ t \in Seq(Bytes)
    BY <1>3, <1>4 DEF Emits, Args
  <2>2. Len(d \o t) = Len(d) + Len(t)
    BY <2>1, Joined
  <2> QED
    BY <1>6, <2>2
<1>8. o \in Lists /\ o16 \in WideLists /\ o = "OP_DECLARE_FUNCTION" /\ Len(t) >= 1
  BY <1>1, <1>4 DEF Lists, WideLists
<1>9. Len(t) = 1 + (IF o = "OP_DECLARE_FUNCTION" THEN n ELSE 2 * n)
  BY <1>4, <1>8
<1>10. Work(e, P) /\ Fits(e) /\ Keeps(e.bytes, b.bytes)
  BY <1>3, <1>4, <1>5, <1>6, <1>7, <1>8, <1>9, ListEnds
<1> QED
  BY <1>1, <1>2, <1>10

LEMMA ClassPut ==
  ASSUME Records, NEW b, NEW P, Work(b, P), consts.count \in Nat, consts.count # Indices - 1,
         NEW names \in Seq(Nat), names # <<>>
  PROVE  LET c == chput(Inserted(b, "OP_DECLARE_CLASS", "OP_DECLARE_CLASS_16"), Arg(Len(names)))
             e == chputs16(c, names)
         IN  Work(e, P) /\ Fits(e) /\ Keeps(e.bytes, b.bytes)
<1>1. PICK o, o16, n : o = "OP_DECLARE_CLASS" /\ o16 = "OP_DECLARE_CLASS_16" /\ n = Len(names)
  OBVIOUS
<1>2. n \in Nat /\ n >= 1
  BY <1>1, LenProperties, EmptySeq
<1>3. PICK a, c, d, s, u, e, cap :
        /\ a = Inserted(b, o, o16) /\ d = a.bytes /\ c = chput(a, Arg(n)) /\ e = chputs16(c, names)
        /\ s = <<Arg(n)>>
        /\ u = [k \in 1 .. 2 * n |-> Arg(IF k % 2 = 1 THEN names[n - k \div 2] ELSE 0)]
        /\ cap = GrownFor(c.cap, [k \in 1 .. n |-> Len(c.bytes) + 2 * k])
  OBVIOUS
<1>4. /\ Len(d) \in Nat /\ Len(d) <= a.cap /\ Capacity(a.cap) /\ a.cap \in Nat
      /\ Emits(d, b.bytes, o, 2) \/ Emits(d, b.bytes, o16, 3)
  <2>1. o \in Lists /\ o16 \in WideLists
    BY <1>1 DEF Lists, WideLists
  <2> QED
    BY <1>3, <2>1, InsertBegun
<1>5. Args(s) /\ Len(s) = 1 /\ s[1].arg = n
  BY <1>2, <1>3, OneArg
<1>6. Args(u) /\ Len(u) = 2 * n
  <2>1. PICK f, m : /\ f = [k \in 1 .. 2 * n |-> IF k % 2 = 1 THEN names[n - k \div 2] ELSE 0]
                    /\ m = 2 * n
    OBVIOUS
  <2>2. \A k \in 1 .. 2 * n : k % 2 = 1 => n - k \div 2 \in 1 .. n
    BY <1>2
  <2>3. \A k \in 1 .. n : names[k] \in Nat
    BY <1>1, ElementOfSeq
  <2>4. f \in [1 .. m -> Nat] /\ m \in Nat
    BY <1>2, <2>1, <2>2, <2>3
  <2>5. u = [k \in 1 .. m |-> Arg(f[k])]
    BY <1>3, <2>1
  <2>6. Args(u) /\ Len(u) = m
    BY <2>4, <2>5, ArgsFrom
  <2> QED
    BY <2>1, <2>6
<1>7. PICK t : t = s \o u
  OBVIOUS
<1>8. Args(t) /\ Len(t) = 1 + 2 * n /\ t[1].arg = n
  <2>1. Len(s) >= 1
    BY <1>5
  <2>2. Args(s \o u) /\ Len(s \o u) = Len(s) + Len(u) /\ (s \o u)[1] = s[1]
    BY <1>5, <1>6, <2>1, JoinArgs
  <2> QED
    BY <1>5, <1>6, <1>7, <2>2
<1>9. c = [bytes |-> Append(d, Arg(n)), cap |-> Grown(a.cap, Len(d))]
  BY <1>3 DEF chput
<1>10. d \in Seq(Bytes) /\ s \in Seq(Bytes) /\ u \in Seq(Bytes) /\ t \in Seq(Bytes)
  BY <1>4, <1>5, <1>6, <1>8 DEF Emits, Args
<1>11. c.bytes = d \o s
  <2>1. PICK x : x = Arg(n)
    OBVIOUS
  <2>2. x \in Bytes
    BY <1>2, <2>1, ByteTypes, RecordTypes DEF Arg
  <2>3. Append(d, x) = d \o <<x>>
    BY <1>10, <2>2, AppendIsConcat
  <2> QED
    BY <1>3, <1>9, <2>1, <2>3
<1>12. d \o t = c.bytes \o u
  <2>1. (d \o s) \o u = d \o (s \o u)
    BY <1>10, ConcatAssociative
  <2> QED
    BY <1>7, <1>11, <2>1
<1>13. e = [bytes |-> d \o t, cap |-> cap]
  BY <1>1, <1>3, <1>12 DEF chputs16
<1>14. c.cap \in Nat /\ c.cap >= Len(d) + 1 /\ Capacity(c.cap) /\ Len(c.bytes) = Len(d) + 1
  <2>1. PICK old, len : old = a.cap /\ len = Len(d)
    OBVIOUS
  <2>2. Grown(old, len) \in Nat /\ Grown(old, len) > len /\ Capacity(Grown(old, len))
    <3>1. Capacity(old) /\ len \in Nat /\ len <= old + 4
      BY <1>4, <2>1
    <3> QED
      BY <3>1, GrownOnce
  <2>3. Len(d \o s) = Len(d) + Len(s)
    BY <1>10, Joined
  <2> QED
    BY <1>4, <1>5, <1>9, <1>11, <2>1, <2>2, <2>3
<1>15. cap \in Nat /\ cap >= Len(c.bytes) + 2 * n /\ Capacity(cap)
  <2>1. PICK needed, old, len : /\ needed = [k \in 1 .. n |-> Len(c.bytes) + 2 * k]
                                /\ old = c.cap /\ len = Len(c.bytes)
    OBVIOUS
  <2>2. n = Len(needed) /\ \A k \in 1 .. n : needed[k] = len + 2 * k
    BY <1>2, <2>1
  <2>3. len \in Nat /\ len <= old /\ Capacity(old) /\ old \in Nat
    BY <1>4, <1>14, <2>1
  <2>4. \A k \in 1 .. n : needed[k] \in Nat
    BY <1>2, <2>2, <2>3
  <2>5. needed[1] = len + 2 /\ needed[n] = len + 2 * n
    <3>1. 1 \in 1 .. n /\ n \in 1 .. n
      BY <1>2
    <3> QED
      BY <2>2, <2>3, <3>1
  <2>6. ASSUME NEW k \in 1 .. n - 1 PROVE needed[k + 1] <= needed[k] + 3
    <3>1. k \in 1 .. n /\ k + 1 \in 1 .. n
      BY <1>2
    <3>2. needed[k] = len + 2 * k /\ needed[k + 1] = len + 2 * (k + 1)
      BY <2>2, <3>1
    <3> QED
      BY <2>3, <3>1, <3>2
  <2>7. needed[1] <= old + 4 /\ n > 0
    BY <1>2, <2>3, <2>5
  <2>8. /\ GrownFor(old, needed) \in Nat /\ GrownFor(old, needed) >= needed[n] + 1
        /\ Capacity(GrownFor(old, needed))
    BY <1>2, <2>2, <2>3, <2>4, <2>6, <2>7, FitPuts
  <2>9. cap = GrownFor(old, needed)
    BY <1>3, <2>1
  <2>10. cap \in Nat /\ cap >= len + 2 * n + 1 /\ Capacity(cap)
    BY <2>5, <2>8, <2>9
  <2>11. cap >= len + 2 * n
    BY <1>2, <2>3, <2>10
  <2>12. len = Len(c.bytes)
    BY <2>1
  <2> QED
    BY <2>10, <2>11, <2>12
<1>16. Len(d \o t) <= cap
  <2>1. Len(d \o t) = Len(d) + Len(t)
    BY <1>10, Joined
  <2> QED
    BY <1>2, <1>4, <1>8, <1>14, <1>15, <2>1
<1>17. o \in Lists /\ o16 \in WideLists /\ o # "OP_DECLARE_FUNCTION" /\ Len(t) >= 1
  BY <1>1, <1>2, <1>8 DEF Lists, WideLists
<1>18. Len(t) = 1 + (IF o = "OP_DECLARE_FUNCTION" THEN n ELSE 2 * n)
  BY <1>8, <1>17
<1>19. Work(e, P) /\ Fits(e) /\ Keeps(e.bytes, b.bytes)
  BY <1>2, <1>4, <1>8, <1>13, <1>15, <1>16, <1>17, <1>18, ListEnds
<1> QED
  BY <1>1, <1>3, <1>19

-----------------------------------------------------------------------------
(* The steps. *)

LEMMA ConstFacts ==
  ASSUME Constants
  PROVE  consts.count \in Nat /\ (ConstCap # 0 => consts.count # Indices - 1)
<1>1. PICK S \in SUBSET (FirstCap .. Indices) :
        /\ {FirstCap, Indices} \subseteq S /\ \A n \in S \ {Indices} : 2 * n \in S
        /\ consts.capacity \in (S \cup {0}) \ {Indices}
  BY DEF Constants
<1>2. /\ consts.count \in Nat /\ consts.capacity \in Nat /\ consts.count <= consts.capacity
      /\ FirstCap \in Nat /\ FirstCap > 4 /\ Indices \in Nat /\ FirstCap < Indices
  BY ChunkAssumption DEF Constants
<1>3. \A n \in S : n \in Nat /\ n >= FirstCap /\ n <= Indices
  BY <1>2
<1>4. consts.capacity < Indices
  BY <1>1, <1>2
<1>5. CASE consts.capacity > consts.count
  BY <1>2, <1>4, <1>5
<1>6. CASE ~(consts.capacity > consts.count)
  <2>1. consts.count = consts.capacity
    BY <1>2, <1>6
  <2>2. CASE consts.capacity = 0
    BY <1>2, <2>1, <2>2
  <2>3. CASE consts.capacity # 0
    <3>1. consts.capacity \in S \ {Indices} /\ consts.capacity >= FirstCap
      BY <1>1, <1>3, <2>3
    <3>2. 2 * consts.capacity <= Indices
      BY <1>1, <1>3, <3>1
    <3> QED
      BY <1>2, <2>1, <3>1, <3>2
  <2> QED
    BY <2>2, <2>3
<1> QED
  BY <1>5, <1>6

LEMMA AddConst ==
  ASSUME Constants, States, add_const
  PROVE  Constants' /\ ended' \in {"no", "compiled", "not enough memory"}
<1>1. PICK S \in SUBSET (FirstCap .. Indices) :
        /\ {FirstCap, Indices} \subseteq S /\ \A n \in S \ {Indices} : 2 * n \in S
        /\ consts.capacity \in (S \cup {0}) \ {Indices}
  BY DEF Constants
<1>2. /\ consts.count \in Nat /\ consts.capacity \in Nat /\ consts.count <= consts.capacity
      /\ FirstCap \in Nat /\ FirstCap > 4 /\ Indices \in Nat /\ FirstCap < Indices
  BY ChunkAssumption DEF Constants
<1>3. \A n \in S : n \in Nat /\ n >= FirstCap /\ n <= Indices
  BY <1>2
<1>4. CASE ConstCap = 0
  BY <1>4 DEF add_const, Constants
<1>5. CASE ConstCap # 0
  <2>1. ConstCap \in S \ {Indices} /\ ConstCap \in Nat /\ consts.count + 1 <= ConstCap
    <3>1. CASE consts.capacity > consts.count
      <4>1. ConstCap = consts.capacity
        BY <3>1 DEF ConstCap
      <4> QED
        BY <1>1, <1>2, <3>1, <4>1
    <3>2. CASE ~(consts.capacity > consts.count) /\ consts.capacity < FirstCap
      <4>1. ConstCap = FirstCap /\ consts.capacity = 0
        <5>1. \A n \in S : n >= FirstCap
          BY <1>2
        <5> QED
          BY <1>1, <1>2, <3>2, <5>1 DEF ConstCap
      <4> QED
        BY <1>1, <1>2, <3>2, <4>1
    <3>3. CASE ~(consts.capacity > consts.count) /\ ~(consts.capacity < FirstCap)
      <4>1. consts.capacity \in S \ {Indices} /\ consts.count = consts.capacity
        BY <1>1, <1>2, <3>3
      <4>2. ConstCap = (2 * consts.capacity) % Indices
        BY <3>3 DEF ConstCap
      <4>3. 2 * consts.capacity \in S /\ 2 * consts.capacity <= Indices
        BY <1>1, <1>3, <4>1
      <4>4. \A n \in Nat : n > 0 => n % n = 0
        OBVIOUS
      <4>5. \A c, n \in Nat : c < n => c % n = c
        OBVIOUS
      <4>6. 2 * consts.capacity # Indices
        BY <1>2, <1>5, <4>2, <4>4
      <4>7. ConstCap = 2 * consts.capacity
        BY <1>2, <4>2, <4>3, <4>5, <4>6
      <4> QED
        BY <1>2, <3>3, <4>1, <4>3, <4>6, <4>7
    <3> QED
      BY <3>1, <3>2, <3>3
  <2>2. consts' = [count |-> consts.count + 1, capacity |-> ConstCap] /\ ended' = ended
    BY <1>5 DEF add_const
  <2>3. /\ consts' \in [count : Nat, capacity : Nat] /\ consts'.count <= consts'.capacity
        /\ consts'.capacity \in (S \cup {0}) \ {Indices}
    BY <1>2, <2>1, <2>2
  <2>4. ended' \in {"no", "compiled", "not enough memory"}
    BY <2>2 DEF States
  <2> QED
    BY <1>1, <2>3, <2>4 DEF Constants
<1> QED
  BY <1>4, <1>5

LEMMA BufferWork ==
  ASSUME IInv
  PROVE  /\ Records /\ open \in Seq(Constructs) /\ Work(Buffer, PendingIn(open))
         /\ Buffer.bytes = code /\ Buffer.cap = capacity
         /\ Stage(code, PendingIn(open)) /\ Constants /\ States /\ Room
<1>1. /\ Records /\ open \in Seq(Constructs) /\ Constants /\ States /\ Room
      /\ Good(code) /\ AllHold(code, open) /\ Landed(code, PendingIn(open)) /\ Recorded(code)
  BY DEF IInv, Source
<1>2. Stage(code, PendingIn(open))
  BY <1>1 DEF Stage
<1>3. Buffer = [bytes |-> code, cap |-> capacity]
  BY DEF Buffer
<1>4. code \in Seq(Bytes) /\ Len(code) \in Nat /\ capacity \in Nat
  BY <1>1, LenProperties DEF Good, Room, Capacity
<1>5. Capacity(capacity) /\ Len(code) <= capacity + 4
  BY <1>1, <1>4 DEF Room, opcount
<1> QED
  BY <1>1, <1>2, <1>3, <1>4, <1>5 DEF Work

\* What a step has to show.
LEMMA Close ==
  ASSUME IInv, lines' = lines, Constants', Room',
         ended' \in {"no", "compiled", "not enough memory"},
         at' \in {"operand", "expression", "clause", "body", "statement", "member"},
         NEW c, code' = c, NEW o, open' = o, o \in Seq(Constructs),
         Stage(c, PendingIn(o)), AllHold(c, o),
         at' = "statement" /\ o # <<>> /\ o[Len(o)].is = "block" => Ended(c, o),
         at' = "member" => o # <<>> /\ o[Len(o)].is = "class"
  PROVE  IInv'
<1>1. Source'
  BY DEF Source, Stage
<1>2. Records'
  BY DEF IInv, Records
<1>3. Recorded(code)'
  BY DEF Stage, Recorded, InLine
<1>4. States'
  BY DEF States
<1> QED
  BY <1>1, <1>2, <1>3, <1>4 DEF IInv

LEMMA CloseBuffer ==
  ASSUME IInv, lines' = lines, Constants',
         ended' \in {"no", "compiled", "not enough memory"},
         at' \in {"operand", "expression", "clause", "body", "statement", "member"},
         NEW b, code' = b.bytes, capacity' = b.cap, NEW o, open' = o, o \in Seq(Constructs),
         Work(b, PendingIn(o)), AllHold(b.bytes, o),
         Fits(b) \/ (Len(b.bytes) > 4 /\ b.bytes[Len(b.bytes) - 4].op = "OP_JUMP_BACK"),
         at' = "statement" /\ o # <<>> /\ o[Len(o)].is = "block" => Ended(b.bytes, o),
         at' = "member" => o # <<>> /\ o[Len(o)].is = "class"
  PROVE  IInv'
<1>1. PICK c : c = b.bytes
  OBVIOUS
<1>2. Stage(c, PendingIn(o)) /\ Capacity(b.cap) /\ Len(c) <= b.cap + 4
  BY <1>1 DEF Work
<1>3. Room'
  BY <1>1, <1>2 DEF Room, opcount, Fits
<1> QED
  BY <1>1, <1>2, <1>3, Close

LEMMA PushPending ==
  ASSUME open \in Seq(Constructs), NEW e, NEW p \in Nat, Work(e, PendingIn(open) \cup {p}),
         IsJump(e.bytes, p, Forward), NEW k \in {"if", "tail", "function"}
  PROVE  LET o == Append(open, [is |-> k, arg |-> p])
         IN  o \in Seq(Constructs) /\ AllHold(e.bytes, o) /\ Work(e, PendingIn(o))
<1>1. PICK x : x = [is |-> k, arg |-> p]
  OBVIOUS
<1>2. x \in Constructs
  BY <1>1, NewConstruct
<1>3. x.is = k /\ x.arg = p
  BY <1>1
<1>4. Patches(x) = {p} /\ Starts(x) = {}
  BY <1>2, <1>3, ConstructKinds
<1>5. Holds(e.bytes, x) /\ AllHold(e.bytes, open)
  BY <1>2, <1>4 DEF Holds, Work, Stage
<1> QED
  BY <1>1, <1>4, <1>5, PushHolds

LEMMA InsertStep ==
  ASSUME IInv, NEW o \in Short, NEW o16 \in Long, insert_op(Buffer, o, o16),
         lines' = lines, open' = open, at' \in {"expression", "statement"},
         at' = "statement" /\ open # <<>> => open[Len(open)].is # "block"
  PROVE  IInv'
<1>1. /\ Records /\ open \in Seq(Constructs) /\ Work(Buffer, PendingIn(open))
      /\ Stage(code, PendingIn(open)) /\ Constants /\ States /\ Room
  BY BufferWork
<1>2. add_const /\ (ConstCap = 0 => UNCHANGED <<code, capacity>>)
      /\ (ConstCap # 0 => SetBuffer(Inserted(Buffer, o, o16)))
  BY DEF insert_op
<1>3. /\ Constants' /\ ended' \in {"no", "compiled", "not enough memory"}
      /\ consts.count \in Nat /\ (ConstCap # 0 => consts.count # Indices - 1)
  BY <1>1, <1>2, AddConst, ConstFacts
<1>4. AllHold(code, open)
  BY <1>1 DEF Stage
<1>5. CASE ConstCap = 0
  <2>1. code' = code /\ Room'
    BY <1>1, <1>2, <1>5 DEF Room, opcount
  <2> QED
    BY <1>1, <1>3, <1>4, <2>1, Close
<1>6. CASE ConstCap # 0
  <2>1. PICK b : b = Inserted(Buffer, o, o16)
    OBVIOUS
  <2>2. Work(b, PendingIn(open)) /\ Fits(b)
    BY <1>1, <1>3, <1>6, <2>1, InsertPut
  <2>3. code' = b.bytes /\ capacity' = b.cap /\ AllHold(b.bytes, open)
    BY <1>2, <1>6, <2>1, <2>2 DEF SetBuffer, Work, Stage
  <2> QED
    BY <1>1, <1>3, <2>2, <2>3, CloseBuffer
<1> QED
  BY <1>5, <1>6

\* A step that emits, with the constructs as they are.
LEMMA EmittedStep ==
  ASSUME IInv, NEW b, NEW next, Emitted(b, next), Work(b, PendingIn(open)), Fits(b), open' = open,
         next \in {"operand", "expression", "clause", "body", "statement", "member"},
         next = "statement" /\ open # <<>> => Ended(b.bytes, open), next # "member"
  PROVE  IInv'
<1>1. open \in Seq(Constructs) /\ Constants /\ States
  BY BufferWork
<1>2. /\ code' = b.bytes /\ capacity' = b.cap /\ at' = next
      /\ lines' = lines /\ consts' = consts /\ ended' = ended
  BY DEF Emitted, SetBuffer
<1>3. Constants' /\ ended' \in {"no", "compiled", "not enough memory"}
  BY <1>1, <1>2 DEF Constants, States
<1>4. AllHold(b.bytes, open)
  BY DEF Work, Stage
<1> QED
  BY <1>1, <1>2, <1>3, <1>4, CloseBuffer

\* A step that emits, with other constructs.
LEMMA OpenedStep ==
  ASSUME IInv, NEW b, NEW next, Emitted(b, next), NEW o, open' = o, o \in Seq(Constructs),
         Work(b, PendingIn(o)), AllHold(b.bytes, o), Fits(b),
         next \in {"operand", "expression", "clause", "body"}
  PROVE  IInv'
<1>1. Constants /\ States
  BY BufferWork
<1>2. /\ code' = b.bytes /\ capacity' = b.cap /\ at' = next
      /\ lines' = lines /\ consts' = consts /\ ended' = ended
  BY DEF Emitted, SetBuffer
<1>3. Constants' /\ ended' \in {"no", "compiled", "not enough memory"}
  BY <1>1, <1>2 DEF Constants, States
<1> QED
  BY <1>2, <1>3, CloseBuffer

LEMMA StepConstant ==
  ASSUME IInv, Constant
  PROVE  IInv'
<1>1. PICK o, o16 : o = "OP_CONST" /\ o16 = "OP_CONST_16"
  OBVIOUS
<1>2. o \in Short /\ o16 \in Long
  BY <1>1 DEF Short, Long
<1>3. insert_op(Buffer, o, o16) /\ at' = "expression" /\ lines' = lines /\ open' = open
  BY <1>1 DEF Constant
<1> QED
  BY <1>2, <1>3, InsertStep

LEMMA StepDefineGlobal ==
  ASSUME IInv, DefineGlobal
  PROVE  IInv'
<1>1. PICK o, o16 : o = "OP_DEFINE_GLOBAL" /\ o16 = "OP_DEFINE_GLOBAL_16"
  OBVIOUS
<1>2. o \in Short /\ o16 \in Long
  BY <1>1 DEF Short, Long
<1>3. insert_op(Buffer, o, o16) /\ at' = "statement" /\ lines' = lines /\ open' = open /\ ~InScope
  BY <1>1 DEF DefineGlobal
<1>4. open # <<>> => open[Len(open)].is # "block"
  <2> HAVE open # <<>>
  <2>1. open \in Seq(Constructs)
    BY BufferWork
  <2>2. Len(open) \in DOMAIN open
    BY <2>1, FrontLast
  <2> QED
    BY <1>3, <2>2 DEF InScope
<1> QED
  BY <1>2, <1>3, <1>4, InsertStep

\* After an OP_OP the code is fresh.
LEMMA OpOpEnds ==
  ASSUME Records, open \in Seq(Constructs), NEW b, Work(b, PendingIn(open))
  PROVE  LET c == chput(b, Op("OP_OP"))
         IN  Work(c, PendingIn(open)) /\ Fits(c) /\ Ended(c.bytes, open)
<1>1. PICK c, o : c = chput(b, Op(o)) /\ o = "OP_OP"
  OBVIOUS
<1>2. o \in Alone /\ o \notin Jumps
  BY <1>1 DEF Alone, Jumps, Forward
<1>3. /\ Work(c, PendingIn(open)) /\ Fits(c) /\ Emits(c.bytes, b.bytes, o, 1)
      /\ Len(c.bytes) = Len(b.bytes) + 1
  BY <1>1, <1>2, PutOp
<1>4. Fresh(c.bytes, open)
  <2>1. PICK n : n = 1
    OBVIOUS
  <2>2. n \in Nat /\ n >= 1 /\ Emits(c.bytes, b.bytes, o, n) /\ Stage(b.bytes, PendingIn(open))
    BY <1>3, <2>1 DEF Work
  <2> QED
    BY <1>2, <2>2, EmitFresh
<1>5. c.bytes[Len(c.bytes)].op = o /\ c.bytes # <<>>
  <2>1. c.bytes[Len(b.bytes) + 1].op = o /\ Len(b.bytes) \in Nat
    BY <1>3 DEF Emits, Work
  <2> QED
    BY <1>3, <2>1
<1> QED
  BY <1>1, <1>3, <1>4, <1>5 DEF Ended

LEMMA StepEndStatement ==
  ASSUME IInv, EndStatement
  PROVE  IInv'
<1>1. Records /\ open \in Seq(Constructs) /\ Work(Buffer, PendingIn(open))
  BY BufferWork
<1>2. PICK c : c = chput(Buffer, Op("OP_OP"))
  OBVIOUS
<1>3. Work(c, PendingIn(open)) /\ Fits(c) /\ Ended(c.bytes, open)
  BY <1>1, <1>2, OpOpEnds
<1>4. Emitted(c, "statement") /\ open' = open
  BY <1>2 DEF EndStatement
<1> QED
  BY <1>3, <1>4, EmittedStep

LEMMA StepDeclare ==
  ASSUME IInv, NEW r \in Registers, Declare(r)
  PROVE  IInv'
<1>1. Records /\ open \in Seq(Constructs) /\ Work(Buffer, PendingIn(open)) /\ r \in Nat
  BY BufferWork, ChunkAssumption
<1>2. PICK b, c, o : b = Buffer /\ c = chputs(b, <<Op(o), Arg(r)>>) /\ o = "OP_PUT_8_WITH_POP"
  OBVIOUS
<1>3. o \in Short /\ o \notin Jumps
  BY <1>2 DEF Short, Jumps, Forward
<1>4. Work(c, PendingIn(open)) /\ Fits(c) /\ Emits(c.bytes, b.bytes, o, 2)
  BY <1>1, <1>2, <1>3, PutShort
<1>5. Fresh(c.bytes, open)
  <2>1. PICK n : n = 2
    OBVIOUS
  <2>2. n \in Nat /\ n >= 1 /\ Emits(c.bytes, b.bytes, o, n) /\ Stage(b.bytes, PendingIn(open))
    BY <1>1, <1>2, <1>4, <2>1 DEF Work
  <2> QED
    BY <1>1, <1>3, <2>2, EmitFresh
<1>6. Ended(c.bytes, open)
  <2>1. /\ Len(b.bytes) \in Nat /\ Len(c.bytes) = Len(b.bytes) + 2
        /\ c.bytes[Len(b.bytes) + 1].op = o
        /\ \A i \in Len(b.bytes) + 2 .. Len(c.bytes) : c.bytes[i].op = "-"
    BY <1>1, <1>2, <1>4 DEF Emits, Work
  <2>2. /\ c.bytes[Len(c.bytes)].op = "-" /\ Len(c.bytes) > 1 /\ c.bytes # <<>>
        /\ c.bytes[Len(c.bytes) - 1].op = o
    <3>1. Len(c.bytes) \in Len(b.bytes) + 2 .. Len(c.bytes) /\ Len(c.bytes) - 1 = Len(b.bytes) + 1
          /\ Len(c.bytes) > 1
      BY <2>1
    <3>2. c.bytes # <<>>
      BY <3>1
    <3> QED
      BY <2>1, <3>1, <3>2
  <2> QED
    BY <1>2, <1>5, <2>2 DEF Ended
<1>7. Emitted(c, "statement") /\ open' = open
  BY <1>2 DEF Declare
<1> QED
  BY <1>4, <1>6, <1>7, EmittedStep

LEMMA StepDeclareVoid ==
  ASSUME IInv, DeclareVoid
  PROVE  IInv'
<1>1. Records /\ open \in Seq(Constructs) /\ Work(Buffer, PendingIn(open))
  BY BufferWork
<1>2. PICK b, c, o, r : /\ b = chputs(Buffer, <<Op(o), Arg(r)>>) /\ o = "OP_PUT_8_VOID" /\ r = 0
                        /\ c = chput(b, Op("OP_OP"))
  OBVIOUS
<1>3. o \in Short /\ r \in Nat
  BY <1>2 DEF Short
<1>4. Work(b, PendingIn(open))
  BY <1>1, <1>2, <1>3, PutShort
<1>5. Work(c, PendingIn(open)) /\ Fits(c) /\ Ended(c.bytes, open)
  BY <1>1, <1>2, <1>4, OpOpEnds
<1>6. Emitted(c, "statement") /\ open' = open
  BY <1>2 DEF DeclareVoid
<1> QED
  BY <1>5, <1>6, EmittedStep

LEMMA StepReturn ==
  ASSUME IInv, Return
  PROVE  IInv'
<1>1. Records /\ open \in Seq(Constructs) /\ Work(Buffer, PendingIn(open))
  BY BufferWork
<1>2. PICK b, c, o, o2, m :
        /\ b = chputn(chput(Buffer, Op(o)), Wide(m, 2)) /\ o = "OP_COLLECT_LOCALS" /\ m = 1
        /\ c = chput(b, Op(o2)) /\ o2 = "OP_RETURN"
  OBVIOUS
<1>3. o \in Long /\ m \in Nat /\ o2 \in Alone /\ o2 \notin {"OP_OP", "-"}
  BY <1>2 DEF Long, Alone
<1>4. Work(b, PendingIn(open))
  BY <1>1, <1>2, <1>3, PutLong
<1>5. /\ Work(c, PendingIn(open)) /\ Fits(c) /\ Emits(c.bytes, b.bytes, o2, 1)
      /\ Len(c.bytes) = Len(b.bytes) + 1
  BY <1>1, <1>2, <1>3, <1>4, PutOp
<1>6. Ended(c.bytes, open)
  <2>1. c.bytes[Len(b.bytes) + 1].op = o2 /\ Len(b.bytes) \in Nat
    BY <1>4, <1>5 DEF Emits, Work
  <2>2. c.bytes[Len(c.bytes)].op = o2 /\ c.bytes # <<>>
    BY <1>5, <2>1
  <2> QED
    BY <1>3, <2>2 DEF Ended
<1>7. Emitted(c, "statement") /\ open' = open
  BY <1>2 DEF Return
<1> QED
  BY <1>5, <1>6, <1>7, EmittedStep

LEMMA JumpStep ==
  ASSUME IInv, NEW e, NEW p \in Nat, Work(e, PendingIn(open) \cup {p}), Fits(e),
         IsJump(e.bytes, p, Forward), NEW k \in {"if", "tail", "function"},
         Emitted(e, "operand"), open' = Append(open, [is |-> k, arg |-> p])
  PROVE  IInv'
<1>1. PICK o : o = Append(open, [is |-> k, arg |-> p])
  OBVIOUS
<1>2. open \in Seq(Constructs)
  BY BufferWork
<1>3. o \in Seq(Constructs) /\ AllHold(e.bytes, o) /\ Work(e, PendingIn(o))
  BY <1>1, <1>2, PushPending
<1> QED
  BY <1>1, <1>3, OpenedStep

LEMMA StepBeginIf ==
  ASSUME IInv, BeginIf
  PROVE  IInv'
<1>1. Records /\ Work(Buffer, PendingIn(open))
  BY BufferWork
<1>2. PICK e, o : e = emit_jump(Buffer, o) /\ o = "OP_JUMP_IF_FALSE"
  OBVIOUS
<1>3. o \in Forward
  BY <1>2 DEF Forward
<1>4. /\ Work(e, PendingIn(open) \cup {JumpArg(e)}) /\ Fits(e) /\ JumpArg(e) \in Nat
      /\ IsJump(e.bytes, JumpArg(e), Forward)
  BY <1>1, <1>2, <1>3, PutJump
<1>5. Emitted(e, "operand") /\ open' = Append(open, [is |-> "if", arg |-> JumpArg(e)])
  BY <1>2 DEF BeginIf, Push
<1> QED
  BY <1>4, <1>5, JumpStep

LEMMA StepBeginFunction ==
  ASSUME IInv, BeginFunction
  PROVE  IInv'
<1>1. Records /\ Work(Buffer, PendingIn(open))
  BY BufferWork
<1>2. PICK e, o : e = emit_jump(Buffer, o) /\ o = "OP_JUMP"
  OBVIOUS
<1>3. o \in Forward
  BY <1>2 DEF Forward
<1>4. /\ Work(e, PendingIn(open) \cup {JumpArg(e)}) /\ Fits(e) /\ JumpArg(e) \in Nat
      /\ IsJump(e.bytes, JumpArg(e), Forward)
  BY <1>1, <1>2, <1>3, PutJump
<1>5. Emitted(e, "operand") /\ open' = Append(open, [is |-> "function", arg |-> JumpArg(e)])
  BY <1>2 DEF BeginFunction, Push
<1> QED
  BY <1>4, <1>5, JumpStep

LEMMA StepBeginSecond ==
  ASSUME IInv, BeginSecond
  PROVE  IInv'
<1>1. Records /\ Work(Buffer, PendingIn(open))
  BY BufferWork
<1>2. PICK e, o, c, o2 : /\ e = emit_jump(Buffer, o) /\ o = "OP_JUMP_IF_FALSE_ONSTACK"
                         /\ c = chput(e, Op(o2)) /\ o2 = "OP_OP"
  OBVIOUS
<1>3. o \in Forward /\ o2 \in Alone
  BY <1>2 DEF Forward, Alone
<1>4. /\ Work(e, PendingIn(open) \cup {JumpArg(e)}) /\ JumpArg(e) \in Nat
      /\ IsJump(e.bytes, JumpArg(e), Forward)
  BY <1>1, <1>2, <1>3, PutJump
<1>5. Work(c, PendingIn(open) \cup {JumpArg(e)}) /\ Fits(c) /\ Keeps(c.bytes, e.bytes)
  BY <1>1, <1>2, <1>3, <1>4, PutOp
<1>6. IsJump(c.bytes, JumpArg(e), Forward)
  BY <1>4, <1>5 DEF Keeps
<1>7. Emitted(c, "operand") /\ open' = Append(open, [is |-> "tail", arg |-> JumpArg(e)])
  BY <1>2 DEF BeginSecond, Push
<1> QED
  BY <1>4, <1>5, <1>6, <1>7, JumpStep

\* The construct at the top, and the ones below.
LEMMA Topmost ==
  ASSUME open \in Seq(Constructs), open # <<>>, NEW b, NEW P, Work(b, P)
  PROVE  /\ Top \in Constructs /\ Front(open) \in Seq(Constructs) /\ AllHold(b.bytes, Front(open))
         /\ Holds(b.bytes, Top)
         /\ PendingIn(open) = PendingIn(Front(open)) \cup Patches(Top)
         /\ Len(Front(open)) = Len(open) - 1 /\ Len(open) \in Nat /\ Len(open) >= 1
         /\ \A i \in 1 .. Len(open) - 1 : Front(open)[i] = open[i]
<1>1. Top = Last(open)
  BY DEF Top
<1>2. AllHold(b.bytes, open)
  BY DEF Work, Stage
<1>3. /\ Front(open) \in Seq(Constructs) /\ AllHold(b.bytes, Front(open)) /\ Holds(b.bytes, Last(open))
      /\ PendingIn(open) = PendingIn(Front(open)) \cup Patches(Last(open))
  BY <1>2, PopHolds
<1>4. /\ Len(open) \in Nat /\ Len(open) >= 1 /\ Last(open) \in Constructs
      /\ Len(Front(open)) = Len(open) - 1
      /\ \A i \in 1 .. Len(open) - 1 : Front(open)[i] = open[i]
  BY FrontLast
<1> QED
  BY <1>1, <1>3, <1>4

\* The jump of an if, a tail or a function.
LEMMA TopJump ==
  ASSUME open \in Seq(Constructs), Top.is \in {"if", "tail", "function"}, NEW b, NEW P, Work(b, P)
  PROVE  /\ open # <<>> /\ IsJump(b.bytes, Top.arg, Forward) /\ Top.arg \in Nat
         /\ PendingIn(open) = PendingIn(Front(open)) \cup {Top.arg}
<1>1. open # <<>>
  BY TopIs
<1>2. Top \in Constructs /\ Holds(b.bytes, Top) /\ PendingIn(open) = PendingIn(Front(open)) \cup Patches(Top)
  BY <1>1, Topmost
<1>3. Patches(Top) = {Top.arg} /\ Top.arg \in Nat
  BY <1>2, ConstructKinds
<1> QED
  BY <1>1, <1>2, <1>3 DEF Holds

LEMMA StepElse ==
  ASSUME IInv, Else
  PROVE  IInv'
<1>1. Records /\ open \in Seq(Constructs) /\ Work(Buffer, PendingIn(open)) /\ Top.is = "if"
  BY BufferWork DEF Else
<1>2. PICK e, o, p, c, q : /\ e = emit_jump(Buffer, o) /\ o = "OP_JUMP" /\ p = JumpArg(e)
                           /\ q = Top.arg /\ c = confirm_jump(e, q)
  OBVIOUS
<1>3. o \in Forward
  BY <1>2 DEF Forward
<1>4. /\ Work(e, PendingIn(open) \cup {p}) /\ Fits(e) /\ p \in Nat /\ IsJump(e.bytes, p, Forward)
  BY <1>1, <1>2, <1>3, PutJump
<1>5. /\ open # <<>> /\ IsJump(e.bytes, q, Forward)
      /\ PendingIn(open) = PendingIn(Front(open)) \cup {q}
  BY <1>1, <1>2, <1>4, TopJump
<1>6. /\ Work(c, PendingIn(Front(open)) \cup {p}) /\ Keeps(c.bytes, e.bytes)
      /\ Len(c.bytes) = Len(e.bytes) /\ c.cap = e.cap
  <2>1. (PendingIn(open) \cup {p}) \ {q} \subseteq PendingIn(Front(open)) \cup {p}
    BY <1>5
  <2>2. PICK P, Q : P = PendingIn(open) \cup {p} /\ Q = PendingIn(Front(open)) \cup {p}
    OBVIOUS
  <2>3. Work(e, P) /\ P \ {q} \subseteq Q
    BY <1>4, <2>1, <2>2
  <2>4. /\ Work(c, Q) /\ Keeps(c.bytes, e.bytes)
        /\ Len(c.bytes) = Len(e.bytes) /\ c.cap = e.cap
    BY <1>2, <1>5, <2>3, Patch
  <2> QED
    BY <2>2, <2>4
<1>7. PICK x, n : x = [is |-> "tail", arg |-> p] /\ n = Append(Front(open), x)
  OBVIOUS
<1>8. x \in Constructs /\ Patches(x) = {p} /\ Starts(x) = {}
  <2>1. x \in Constructs /\ x.is = "tail" /\ x.arg = p
    BY <1>4, <1>7, NewConstruct
  <2> QED
    BY <2>1, ConstructKinds
<1>9. Holds(c.bytes, x)
  BY <1>4, <1>6, <1>8 DEF Holds, Keeps
<1>10. Front(open) \in Seq(Constructs) /\ AllHold(c.bytes, Front(open))
  BY <1>1, <1>5, <1>6, Topmost
<1>11. /\ n \in Seq(Constructs) /\ AllHold(c.bytes, n)
       /\ PendingIn(n) = PendingIn(Front(open)) \cup {p}
  BY <1>7, <1>8, <1>9, <1>10, PushHolds
<1>12. Emitted(c, "operand") /\ open' = n /\ Fits(c)
  BY <1>2, <1>4, <1>6, <1>7 DEF Else, Replace, Fits
<1> QED
  BY <1>6, <1>11, <1>12, OpenedStep

LEMMA StepEndIf ==
  ASSUME IInv, EndIf
  PROVE  IInv'
<1>1. Records /\ open \in Seq(Constructs) /\ Work(Buffer, PendingIn(open)) /\ Top.is = "if"
  BY BufferWork DEF EndIf
<1>2. PICK e, o, p, c, q, d, o2, f :
        /\ e = emit_jump(Buffer, o) /\ o = "OP_JUMP" /\ p = JumpArg(e)
        /\ q = Top.arg /\ c = confirm_jump(e, q)
        /\ d = chput(c, Op(o2)) /\ o2 = "OP_LOAD_NOTHING" /\ f = confirm_jump(d, p)
  OBVIOUS
<1>3. o \in Forward /\ o2 \in Alone
  BY <1>2 DEF Forward, Alone
<1>4. Work(e, PendingIn(open) \cup {p}) /\ p \in Nat /\ IsJump(e.bytes, p, Forward)
  BY <1>1, <1>2, <1>3, PutJump
<1>5. /\ open # <<>> /\ IsJump(e.bytes, q, Forward)
      /\ PendingIn(open) = PendingIn(Front(open)) \cup {q}
  BY <1>1, <1>2, <1>4, TopJump
<1>6. Work(c, PendingIn(Front(open)) \cup {p}) /\ Keeps(c.bytes, e.bytes)
  <2>1. (PendingIn(open) \cup {p}) \ {q} \subseteq PendingIn(Front(open)) \cup {p}
    BY <1>5
  <2> QED
    BY <1>2, <1>4, <1>5, <2>1, Patch
<1>7. Work(d, PendingIn(Front(open)) \cup {p}) /\ Fits(d) /\ Keeps(d.bytes, c.bytes)
  BY <1>1, <1>2, <1>3, <1>6, PutOp
<1>8. IsJump(d.bytes, p, Forward)
  BY <1>4, <1>6, <1>7 DEF Keeps
<1>9. /\ Work(f, PendingIn(Front(open))) /\ Len(f.bytes) = Len(d.bytes) /\ f.cap = d.cap
  <2>1. (PendingIn(Front(open)) \cup {p}) \ {p} \subseteq PendingIn(Front(open))
    OBVIOUS
  <2> QED
    BY <1>2, <1>7, <1>8, <2>1, Patch
<1>10. Front(open) \in Seq(Constructs) /\ AllHold(f.bytes, Front(open))
  BY <1>1, <1>5, <1>9, Topmost
<1>11. Emitted(f, "expression") /\ open' = Front(open) /\ Fits(f)
  BY <1>2, <1>7, <1>9 DEF EndIf, Pop, Fits
<1> QED
  BY <1>9, <1>10, <1>11, OpenedStep

LEMMA StepEndTail ==
  ASSUME IInv, EndTail
  PROVE  IInv'
<1>1. Records /\ open \in Seq(Constructs) /\ Work(Buffer, PendingIn(open)) /\ Top.is = "tail" /\ Room
  BY BufferWork DEF EndTail
<1>2. PICK b, c, q : b = Buffer /\ q = Top.arg /\ c = confirm_jump(b, q)
  OBVIOUS
<1>3. /\ open # <<>> /\ IsJump(b.bytes, q, Forward)
      /\ PendingIn(open) = PendingIn(Front(open)) \cup {q}
  BY <1>1, <1>2, TopJump
<1>4. /\ Work(c, PendingIn(Front(open))) /\ Len(c.bytes) = Len(b.bytes) /\ c.cap = b.cap
      /\ \A i \in 1 .. Len(b.bytes) : c.bytes[i].op = b.bytes[i].op
  <2>1. PendingIn(open) \ {q} \subseteq PendingIn(Front(open))
    BY <1>3
  <2>2. PICK P, Q : P = PendingIn(open) /\ Q = PendingIn(Front(open))
    OBVIOUS
  <2>3. Work(b, P) /\ P \ {q} \subseteq Q
    BY <1>1, <1>2, <2>1, <2>2
  <2>4. /\ Work(c, Q) /\ Len(c.bytes) = Len(b.bytes) /\ c.cap = b.cap
        /\ \A i \in 1 .. Len(b.bytes) : c.bytes[i].op = b.bytes[i].op
    BY <1>2, <1>3, <2>3, Patch
  <2> QED
    BY <2>2, <2>4
<1>5. Front(open) \in Seq(Constructs) /\ AllHold(c.bytes, Front(open))
  BY <1>1, <1>3, <1>4, Topmost
<1>6. Emitted(c, "expression") /\ open' = Front(open)
  BY <1>2 DEF EndTail, Pop
<1>7. Fits(c) \/ (Len(c.bytes) > 4 /\ c.bytes[Len(c.bytes) - 4].op = "OP_JUMP_BACK")
  <2>1. b.bytes = code /\ b.cap = capacity /\ Len(b.bytes) \in Nat
    BY <1>1, <1>2, BufferWork DEF Work
  <2>2. Len(b.bytes) > 4 => Len(b.bytes) - 4 \in 1 .. Len(b.bytes)
    BY <2>1
  <2> QED
    BY <1>1, <1>4, <2>1, <2>2 DEF Room, opcount, Fits
<1>8. /\ code' = c.bytes /\ capacity' = c.cap /\ at' = "expression"
      /\ lines' = lines /\ consts' = consts /\ ended' = ended
  BY <1>6 DEF Emitted, SetBuffer
<1>9. Constants' /\ ended' \in {"no", "compiled", "not enough memory"}
  BY <1>8, BufferWork DEF Constants, States
<1> QED
  BY <1>4, <1>5, <1>6, <1>7, <1>8, <1>9, CloseBuffer

LEMMA PushStep ==
  ASSUME IInv, code' = code, capacity' = capacity, lines' = lines, consts' = consts, ended' = ended,
         NEW x, Holds(code, x), Patches(x) = {}, open' = Append(open, x),
         at' \in {"operand", "clause", "body", "member"}, at' = "member" => x.is = "class"
  PROVE  IInv'
<1>1. /\ open \in Seq(Constructs) /\ Stage(code, PendingIn(open)) /\ Constants /\ States /\ Room
  BY BufferWork
<1>2. PICK o : o = Append(open, x)
  OBVIOUS
<1>3. /\ o \in Seq(Constructs) /\ AllHold(code, o) /\ o # <<>>
      /\ PendingIn(o) = PendingIn(open)
  BY <1>1, <1>2, PushHolds DEF Stage
<1>4. o[Len(o)] = x
  <2>1. x \in Constructs
    BY DEF Holds
  <2> QED
    BY <1>1, <1>2, <2>1, AppendProperties
<1>5. Constants' /\ Room' /\ ended' \in {"no", "compiled", "not enough memory"}
  BY <1>1 DEF Constants, Room, opcount, States
<1> QED
  BY <1>1, <1>2, <1>3, <1>4, <1>5, Close

LEMMA StepBeginLoop ==
  ASSUME IInv, BeginLoop
  PROVE  IInv'
<1>1. Good(code)
  BY BufferWork DEF Stage
<1>2. PICK x, k : x = [is |-> k, start |-> opcount] /\ k = "loop"
  OBVIOUS
<1>3. opcount \in Nat /\ BeginsAt(code, opcount + 1)
  BY <1>1, LenProperties DEF Good, opcount, BeginsAt
<1>4. x \in Constructs /\ x.is = "loop" /\ x.start = opcount
  BY <1>2, <1>3, NewConstruct
<1>5. Patches(x) = {} /\ Holds(code, x)
  BY <1>3, <1>4, ConstructKinds DEF Holds
<1> QED
  BY <1>2, <1>5, PushStep DEF BeginLoop, Push

LEMMA StepBeginFor ==
  ASSUME IInv, BeginFor
  PROVE  IInv'
<1>1. PICK x, k : x = [is |-> k] /\ k = "for"
  OBVIOUS
<1>2. x \in Constructs /\ x.is = "for"
  BY <1>1, NewConstruct
<1>3. Patches(x) = {} /\ Holds(code, x)
  BY <1>2, ConstructKinds DEF Holds
<1> QED
  BY <1>1, <1>3, PushStep DEF BeginFor, Push

LEMMA StepBeginBlock ==
  ASSUME IInv, BeginBlock
  PROVE  IInv'
<1>1. PICK x, k : x = [is |-> k] /\ k = "block"
  OBVIOUS
<1>2. x \in Constructs /\ x.is = "block"
  BY <1>1, NewConstruct
<1>3. Patches(x) = {} /\ Holds(code, x)
  BY <1>2, ConstructKinds DEF Holds
<1> QED
  BY <1>1, <1>3, PushStep DEF BeginBlock, Push

LEMMA StepBeginClass ==
  ASSUME IInv, BeginClass
  PROVE  IInv'
<1>1. PICK x : x = [is |-> "class", names |-> <<>>]
  OBVIOUS
<1>2. x \in Constructs /\ x.is = "class"
  <2>1. <<>> \in Seq(Nat)
    OBVIOUS
  <2> QED
    BY <1>1, <2>1, NewConstruct
<1>3. Patches(x) = {} /\ Holds(code, x)
  BY <1>2, ConstructKinds DEF Holds
<1> QED
  BY <1>1, <1>2, <1>3, PushStep DEF BeginClass, Push

\* A construct at the top that nothing is kept of.
LEMMA TopBlock ==
  ASSUME open \in Seq(Constructs), Top.is \in {"block", "class", "for"}, NEW b, NEW P, Work(b, P)
  PROVE  /\ open # <<>> /\ PendingIn(open) = PendingIn(Front(open))
         /\ Front(open) \in Seq(Constructs) /\ AllHold(b.bytes, Front(open))
<1>1. open # <<>>
  BY TopIs
<1>2. /\ Top \in Constructs /\ Front(open) \in Seq(Constructs) /\ AllHold(b.bytes, Front(open))
      /\ PendingIn(open) = PendingIn(Front(open)) \cup Patches(Top)
  BY <1>1, Topmost
<1>3. Patches(Top) = {}
  BY <1>2, ConstructKinds
<1> QED
  BY <1>1, <1>2, <1>3

\* The loop at the top.
LEMMA TopLoop ==
  ASSUME open \in Seq(Constructs), Top.is \in Loops, NEW b, NEW P, Work(b, P)
  PROVE  /\ open # <<>> /\ Top.start \in Nat /\ BeginsAt(b.bytes, Top.start + 1)
         /\ Front(open) \in Seq(Constructs) /\ AllHold(b.bytes, Front(open))
         /\ Top.is \in {"loop", "condition"} => /\ PendingIn(open) = PendingIn(Front(open))
                                                /\ Patches(Top) = {}
         /\ Top.is \in {"clauses", "body", "for body"} =>
              /\ PendingIn(open) = PendingIn(Front(open)) \cup Exit(Top.exit)
              /\ Patches(Top) = Exit(Top.exit)
              /\ Top.exit \in Nat /\ \A p \in Exit(Top.exit) : IsJump(b.bytes, p, Forward)
         /\ Top.is = "increment" =>
              /\ PendingIn(open) = PendingIn(Front(open)) \cup (Exit(Top.exit) \cup {Top.skip})
              /\ Top.exit \in Nat /\ \A p \in Exit(Top.exit) : IsJump(b.bytes, p, Forward)
              /\ IsJump(b.bytes, Top.skip, Forward) /\ Top.skip \in Nat
<1>1. open # <<>>
  BY TopIs DEF Loops
<1>2. /\ Top \in Constructs /\ Holds(b.bytes, Top)
      /\ Front(open) \in Seq(Constructs) /\ AllHold(b.bytes, Front(open))
      /\ PendingIn(open) = PendingIn(Front(open)) \cup Patches(Top)
  BY <1>1, Topmost
<1>3. PICK x : x = Top
  OBVIOUS
<1>4. /\ x.is \in {"loop", "condition"} =>
           Patches(x) = {} /\ Starts(x) = {x.start} /\ x.start \in Nat
      /\ x.is \in {"clauses", "body", "for body"} =>
           /\ Patches(x) = Exit(x.exit) /\ Starts(x) = {x.start}
           /\ x.start \in Nat /\ x.exit \in Nat
      /\ x.is = "increment" =>
           /\ Patches(x) = Exit(x.exit) \cup {x.skip} /\ Starts(x) = {x.start}
           /\ x.start \in Nat /\ x.exit \in Nat /\ x.skip \in Nat
  BY <1>2, <1>3, ConstructKinds
<1>5. /\ \A p \in Patches(x) : IsJump(b.bytes, p, Forward)
      /\ \A s \in Starts(x) : BeginsAt(b.bytes, s + 1)
  BY <1>2, <1>3 DEF Holds
<1>6. x.start \in Nat /\ BeginsAt(b.bytes, x.start + 1)
  BY <1>3, <1>4, <1>5 DEF Loops
<1> QED
  BY <1>1, <1>2, <1>3, <1>4, <1>5, <1>6

\* A step that emits, with another construct in the place of the one at the top.
LEMMA ReplaceStep ==
  ASSUME IInv, open # <<>>, NEW e, NEW next, Emitted(e, next), Fits(e),
         next \in {"operand", "clause", "body"}, NEW x, Holds(e.bytes, x),
         NEW P, Work(e, P), P = PendingIn(Front(open)) \cup Patches(x),
         open' = Append(Front(open), x)
  PROVE  IInv'
<1>1. open \in Seq(Constructs)
  BY BufferWork
<1>2. PICK f, o : f = Front(open) /\ o = Append(f, x)
  OBVIOUS
<1>3. f \in Seq(Constructs) /\ AllHold(e.bytes, f)
  BY <1>1, <1>2, Topmost
<1>4. o \in Seq(Constructs) /\ AllHold(e.bytes, o) /\ PendingIn(o) = PendingIn(f) \cup Patches(x)
  BY <1>2, <1>3, PushHolds
<1>5. Work(e, PendingIn(o))
  BY <1>2, <1>4
<1> QED
  BY <1>2, <1>4, <1>5, OpenedStep

\* The same without an emission.
LEMMA TurnStep ==
  ASSUME IInv, open # <<>>,
         code' = code, capacity' = capacity, lines' = lines, consts' = consts, ended' = ended,
         at' \in {"clause", "body"}, NEW x, Holds(code, x), Patches(x) = Patches(Top),
         open' = Append(Front(open), x)
  PROVE  IInv'
<1>1. /\ open \in Seq(Constructs) /\ Stage(code, PendingIn(open)) /\ Constants /\ States /\ Room
      /\ Work(Buffer, PendingIn(open)) /\ Buffer.bytes = code
  BY BufferWork
<1>2. PICK f, o : f = Front(open) /\ o = Append(f, x)
  OBVIOUS
<1>3. /\ f \in Seq(Constructs) /\ AllHold(code, f)
      /\ PendingIn(open) = PendingIn(f) \cup Patches(Top)
  BY <1>1, <1>2, Topmost
<1>4. o \in Seq(Constructs) /\ AllHold(code, o) /\ PendingIn(o) = PendingIn(f) \cup Patches(x)
  BY <1>2, <1>3, PushHolds
<1>5. Stage(code, PendingIn(o))
  BY <1>1, <1>3, <1>4
<1>6. Constants' /\ Room' /\ ended' \in {"no", "compiled", "not enough memory"}
  BY <1>1 DEF Constants, Room, opcount, States
<1> QED
  BY <1>2, <1>4, <1>5, <1>6, Close

LEMMA StepLoopBody ==
  ASSUME IInv, LoopBody
  PROVE  IInv'
<1>1. /\ Records /\ open \in Seq(Constructs) /\ Work(Buffer, PendingIn(open))
      /\ Top.is = "loop" /\ Top.is \in Loops
  BY BufferWork DEF LoopBody, Loops
<1>2. PICK e, o, p, s, k : /\ e = emit_jump(Buffer, o) /\ o = "OP_JUMP_IF_FALSE" /\ p = JumpArg(e)
                           /\ s = Top.start /\ k = "body"
  OBVIOUS
<1>3. o \in Forward
  BY <1>2 DEF Forward
<1>4. /\ Work(e, PendingIn(open) \cup {p}) /\ Fits(e) /\ p \in Nat /\ IsJump(e.bytes, p, Forward)
  BY <1>1, <1>2, <1>3, PutJump
<1>5. /\ s \in Nat /\ BeginsAt(e.bytes, s + 1) /\ PendingIn(open) = PendingIn(Front(open))
      /\ open # <<>>
  BY <1>1, <1>2, <1>4, TopLoop
<1>6. PICK x : x = [is |-> k, start |-> s, exit |-> p]
  OBVIOUS
<1>7. x \in Constructs /\ Patches(x) = {p} /\ Starts(x) = {s}
  <2>1. x \in Constructs /\ x.is = "body" /\ x.start = s /\ x.exit = p
    BY <1>2, <1>4, <1>5, <1>6, NewConstruct
  <2>2. p # 0
    BY <1>4 DEF IsJump
  <2> QED
    BY <2>1, <2>2, ConstructKinds DEF Exit
<1>8. Holds(e.bytes, x)
  BY <1>4, <1>5, <1>7 DEF Holds
<1>9. Emitted(e, "body") /\ open' = Append(Front(open), x)
  BY <1>2, <1>6 DEF LoopBody, Replace
<1>10. PICK P : P = PendingIn(Front(open)) \cup Patches(x)
  OBVIOUS
<1>11. Work(e, P)
  BY <1>4, <1>5, <1>7, <1>10
<1> QED
  BY <1>4, <1>5, <1>8, <1>9, <1>10, <1>11, ReplaceStep

\* The condition of a for begins at the end of the code.
LEMMA ConditionStep ==
  ASSUME IInv, Top.is = "for", NEW b, Work(b, PendingIn(open)), Fits(b), BeginCondition(b)
  PROVE  IInv'
<1>1. open \in Seq(Constructs)
  BY BufferWork
<1>2. open # <<>> /\ PendingIn(open) = PendingIn(Front(open))
  BY <1>1, TopBlock
<1>3. PICK x, k, s : x = [is |-> k, start |-> s] /\ k = "condition" /\ s = Len(b.bytes)
  OBVIOUS
<1>4. s \in Nat /\ BeginsAt(b.bytes, s + 1)
  BY <1>3 DEF Work, BeginsAt
<1>5. x \in Constructs /\ Patches(x) = {} /\ Starts(x) = {s}
  <2>1. x \in Constructs /\ x.is = "condition" /\ x.start = s
    BY <1>3, <1>4, NewConstruct
  <2> QED
    BY <2>1, ConstructKinds
<1>6. Holds(b.bytes, x)
  BY <1>4, <1>5 DEF Holds
<1>7. Emitted(b, "clause") /\ open' = Append(Front(open), x)
  BY <1>3 DEF BeginCondition, Replace
<1>8. PICK P : P = PendingIn(Front(open)) \cup Patches(x)
  OBVIOUS
<1>9. Work(b, P)
  BY <1>2, <1>5, <1>8
<1> QED
  BY <1>2, <1>6, <1>7, <1>8, <1>9, ReplaceStep

LEMMA StepInitializer ==
  ASSUME IInv, Initializer
  PROVE  IInv'
<1>1. /\ Records /\ open \in Seq(Constructs) /\ Work(Buffer, PendingIn(open))
      /\ Top.is = "for" /\ Stage(code, PendingIn(open))
  BY BufferWork DEF Initializer
<1>2. CASE BeginCondition(Buffer)
  <2>1. open # <<>>
    BY <1>1, TopBlock
  <2>2. PICK x, k : x = [is |-> k, start |-> opcount] /\ k = "condition"
    OBVIOUS
  <2>3. opcount \in Nat /\ BeginsAt(code, opcount + 1)
    BY <1>1, LenProperties DEF Stage, Good, opcount, BeginsAt
  <2>4. x \in Constructs /\ x.is = "condition" /\ x.start = opcount
    BY <2>2, <2>3, NewConstruct
  <2>5. Patches(x) = {} /\ Holds(code, x)
    BY <2>3, <2>4, ConstructKinds DEF Holds
  <2>6. Patches(Top) = {}
    <3>1. Top \in Constructs
      BY <1>1, <2>1, TopOf
    <3> QED
      BY <1>1, <3>1, ConstructKinds
  <2>7. /\ code' = code /\ capacity' = capacity /\ lines' = lines /\ consts' = consts
        /\ ended' = ended /\ at' = "clause" /\ open' = Append(Front(open), x)
    BY <1>2, <2>2 DEF BeginCondition, Emitted, SetBuffer, Buffer, Replace, opcount
  <2> QED
    BY <2>1, <2>5, <2>6, <2>7, TurnStep
<1>3. CASE BeginCondition(chput(Buffer, Op("OP_OP")))
  <2>1. PICK b, o : b = chput(Buffer, Op(o)) /\ o = "OP_OP"
    OBVIOUS
  <2>2. o \in Alone
    BY <2>1 DEF Alone
  <2>3. Work(b, PendingIn(open)) /\ Fits(b)
    BY <1>1, <2>1, <2>2, PutOp
  <2> QED
    BY <1>1, <1>3, <2>1, <2>3, ConditionStep
<1>4. ASSUME NEW o \in {"OP_PUT_8_VOID", "OP_PUT_8"},
             BeginCondition(chputs(Buffer, <<Op(o), Arg(0)>>))
      PROVE  IInv'
  <2>1. PICK b, r : b = chputs(Buffer, <<Op(o), Arg(r)>>) /\ r = 0
    OBVIOUS
  <2>2. o \in Short /\ r \in Nat
    BY <2>1 DEF Short
  <2>3. Work(b, PendingIn(open)) /\ Fits(b)
    BY <1>1, <2>1, <2>2, PutShort
  <2> QED
    BY <1>1, <1>4, <2>1, <2>3, ConditionStep
<1> QED
  BY <1>2, <1>3, <1>4 DEF Initializer

LEMMA StepNoCondition ==
  ASSUME IInv, NoCondition
  PROVE  IInv'
<1>1. /\ open \in Seq(Constructs) /\ Work(Buffer, PendingIn(open)) /\ Buffer.bytes = code
      /\ Top.is = "condition" /\ Top.is \in Loops
  BY BufferWork DEF NoCondition, Loops
<1>2. PICK s, x, k, m : /\ x = [is |-> k, start |-> s, exit |-> m]
                        /\ s = Top.start /\ k = "clauses" /\ m = 0
  OBVIOUS
<1>3. open # <<>> /\ s \in Nat /\ BeginsAt(code, s + 1) /\ Patches(Top) = {}
  BY <1>1, <1>2, TopLoop
<1>4. x \in Constructs /\ Patches(x) = {} /\ Starts(x) = {s}
  <2>1. x \in Constructs /\ x.is = "clauses" /\ x.start = s /\ x.exit = 0
    BY <1>2, <1>3, NewConstruct
  <2> QED
    BY <2>1, ConstructKinds DEF Exit
<1>5. Holds(code, x)
  BY <1>3, <1>4 DEF Holds
<1>6. /\ code' = code /\ capacity' = capacity /\ lines' = lines /\ consts' = consts
      /\ ended' = ended /\ at' = "clause" /\ open' = Append(Front(open), x)
  BY <1>2 DEF NoCondition, Replace
<1> QED
  BY <1>3, <1>4, <1>5, <1>6, TurnStep

LEMMA StepEndCondition ==
  ASSUME IInv, EndCondition
  PROVE  IInv'
<1>1. /\ Records /\ open \in Seq(Constructs) /\ Work(Buffer, PendingIn(open))
      /\ Top.is = "condition" /\ Top.is \in Loops
  BY BufferWork DEF EndCondition, Loops
<1>2. PICK e, o, p, s, k : /\ e = emit_jump(Buffer, o) /\ o = "OP_JUMP_IF_FALSE" /\ p = JumpArg(e)
                           /\ s = Top.start /\ k = "clauses"
  OBVIOUS
<1>3. o \in Forward
  BY <1>2 DEF Forward
<1>4. /\ Work(e, PendingIn(open) \cup {p}) /\ Fits(e) /\ p \in Nat /\ IsJump(e.bytes, p, Forward)
  BY <1>1, <1>2, <1>3, PutJump
<1>5. /\ s \in Nat /\ BeginsAt(e.bytes, s + 1) /\ PendingIn(open) = PendingIn(Front(open))
      /\ open # <<>>
  BY <1>1, <1>2, <1>4, TopLoop
<1>6. PICK x : x = [is |-> k, start |-> s, exit |-> p]
  OBVIOUS
<1>7. x \in Constructs /\ Patches(x) = {p} /\ Starts(x) = {s}
  <2>1. x \in Constructs /\ x.is = "clauses" /\ x.start = s /\ x.exit = p
    BY <1>2, <1>4, <1>5, <1>6, NewConstruct
  <2>2. p # 0
    BY <1>4 DEF IsJump
  <2> QED
    BY <2>1, <2>2, ConstructKinds DEF Exit
<1>8. Holds(e.bytes, x)
  BY <1>4, <1>5, <1>7 DEF Holds
<1>9. Emitted(e, "clause") /\ open' = Append(Front(open), x)
  BY <1>2, <1>6 DEF EndCondition, Replace
<1>10. PICK P : P = PendingIn(Front(open)) \cup Patches(x)
  OBVIOUS
<1>11. Work(e, P)
  BY <1>4, <1>5, <1>7, <1>10
<1> QED
  BY <1>4, <1>5, <1>8, <1>9, <1>10, <1>11, ReplaceStep

LEMMA StepNoIncrement ==
  ASSUME IInv, NoIncrement
  PROVE  IInv'
<1>1. /\ open \in Seq(Constructs) /\ Work(Buffer, PendingIn(open)) /\ Buffer.bytes = code
      /\ Top.is = "clauses" /\ Top.is \in Loops
  BY BufferWork DEF NoIncrement, Loops
<1>2. PICK s, x, k, m : /\ x = [is |-> k, start |-> s, exit |-> m]
                        /\ s = Top.start /\ k = "for body" /\ m = Top.exit
  OBVIOUS
<1>3. /\ open # <<>> /\ s \in Nat /\ BeginsAt(code, s + 1) /\ Patches(Top) = Exit(m)
      /\ m \in Nat /\ \A p \in Exit(m) : IsJump(code, p, Forward)
  BY <1>1, <1>2, TopLoop
<1>4. x \in Constructs /\ Patches(x) = Exit(m) /\ Starts(x) = {s}
  <2>1. x \in Constructs /\ x.is = "for body" /\ x.start = s /\ x.exit = m
    BY <1>2, <1>3, NewConstruct
  <2> QED
    BY <2>1, ConstructKinds
<1>5. Holds(code, x)
  BY <1>3, <1>4 DEF Holds
<1>6. /\ code' = code /\ capacity' = capacity /\ lines' = lines /\ consts' = consts
      /\ ended' = ended /\ at' = "body" /\ open' = Append(Front(open), x)
  BY <1>2 DEF NoIncrement, Replace
<1> QED
  BY <1>3, <1>4, <1>5, <1>6, TurnStep

LEMMA StepBeginIncrement ==
  ASSUME IInv, BeginIncrement
  PROVE  IInv'
<1>1. /\ Records /\ open \in Seq(Constructs) /\ Work(Buffer, PendingIn(open))
      /\ Top.is = "clauses" /\ Top.is \in Loops
  BY BufferWork DEF BeginIncrement, Loops
<1>2. PICK e, o, p, s, m : /\ e = emit_jump(Buffer, o) /\ o = "OP_JUMP" /\ p = JumpArg(e)
                           /\ s = Top.start /\ m = Top.exit
  OBVIOUS
<1>3. o \in Forward
  BY <1>2 DEF Forward
<1>4. /\ Work(e, PendingIn(open) \cup {p}) /\ Fits(e) /\ p \in Nat /\ IsJump(e.bytes, p, Forward)
  BY <1>1, <1>2, <1>3, PutJump
<1>5. /\ open # <<>> /\ s \in Nat /\ BeginsAt(e.bytes, s + 1)
      /\ PendingIn(open) = PendingIn(Front(open)) \cup Exit(m)
      /\ m \in Nat /\ \A q \in Exit(m) : IsJump(e.bytes, q, Forward)
  BY <1>1, <1>2, <1>4, TopLoop
<1>6. PICK x : x = [is |-> "increment", start |-> s, exit |-> m, skip |-> p]
  OBVIOUS
<1>7. x \in Constructs /\ Patches(x) = Exit(m) \cup {p} /\ Starts(x) = {s}
  <2>1. /\ x \in Constructs /\ x.is = "increment" /\ x.start = s /\ x.exit = m /\ x.skip = p
    BY <1>4, <1>5, <1>6, NewConstruct
  <2> QED
    BY <2>1, ConstructKinds
<1>8. Holds(e.bytes, x)
  BY <1>4, <1>5, <1>7 DEF Holds
<1>9. Emitted(e, "operand") /\ open' = Append(Front(open), x)
  BY <1>2, <1>6 DEF BeginIncrement, Replace
<1>10. PICK P : P = PendingIn(Front(open)) \cup Patches(x)
  OBVIOUS
<1>11. Work(e, P)
  <2>1. P = PendingIn(open) \cup {p}
    BY <1>5, <1>7, <1>10
  <2> QED
    BY <1>4, <2>1
<1> QED
  BY <1>4, <1>5, <1>8, <1>9, <1>10, <1>11, ReplaceStep

\* c is b with a jump back put behind it, and a jump patched if there is one.
Back(c, b, pending) ==
  /\ Work(c, pending) /\ Keeps(c.bytes, b.bytes)
  /\ Len(c.bytes) > 4 /\ c.bytes[Len(c.bytes) - 4].op = "OP_JUMP_BACK"
  /\ \A o : Ended(c.bytes, o)

LEMMA BackWork ==
  ASSUME IInv, NEW b, NEW P, Work(b, P), NEW s \in Nat, BeginsAt(b.bytes, s + 1),
         NEW q, IsJump(b.bytes, q, Forward), NEW Q, P \ {q} \subseteq Q,
         NEW c, c = confirm_jump(jump_to(b, "OP_JUMP_BACK", s), q)
  PROVE  Back(c, b, Q)
<1>0. PICK e : e = jump_to(b, "OP_JUMP_BACK", s)
  OBVIOUS
<1>1. Records
  BY BufferWork
<1>2. /\ Work(e, P) /\ Keeps(e.bytes, b.bytes)
      /\ Len(e.bytes) = Len(b.bytes) + 5
      /\ e.bytes[Len(b.bytes) + 1].op = "OP_JUMP_BACK"
      /\ e.bytes[Len(b.bytes) + 5].op = "-" /\ e.bytes[Len(b.bytes) + 5].arg = 0
  BY <1>0, <1>1, PutBack
<1>3. IsJump(e.bytes, q, Forward)
  BY <1>2 DEF Keeps
<1>4. /\ Work(c, Q) /\ Keeps(c.bytes, e.bytes)
      /\ Len(c.bytes) = Len(e.bytes)
      /\ \A i \in 1 .. Len(e.bytes) : /\ c.bytes[i].op = e.bytes[i].op
                                      /\ i # q + 1 => c.bytes[i] = e.bytes[i]
  <2>1. Work(c, Q) /\ Keeps(c.bytes, e.bytes) /\ Len(c.bytes) = Len(e.bytes)
    BY <1>0, <1>2, <1>3, Patch
  <2>2. ASSUME NEW i \in 1 .. Len(e.bytes)
        PROVE  c.bytes[i].op = e.bytes[i].op /\ (i # q + 1 => c.bytes[i] = e.bytes[i])
    <3>1. LET f == confirm_jump(e, q)
          IN  \A j \in 1 .. Len(e.bytes) : /\ f.bytes[j].op = e.bytes[j].op
                                           /\ j # q + 1 => f.bytes[j] = e.bytes[j]
      BY <1>0, <1>2, <1>3, <2>1, Patch
    <3> QED
      BY <1>0, <3>1
  <2> QED
    BY <2>1, <2>2
<1>5. Len(b.bytes) \in Nat /\ q \in Nat /\ q + 4 <= Len(b.bytes)
  <2>1. IsJump(b.bytes, q, Jumps) /\ Good(b.bytes)
    BY DEF IsJump, Jumps, Work, Stage
  <2> QED
    BY <2>1, JumpInside
<1>6. /\ Len(c.bytes) > 4 /\ c.bytes[Len(c.bytes) - 4].op = "OP_JUMP_BACK"
      /\ c.bytes[Len(c.bytes)].op = "-" /\ c.bytes[Len(c.bytes)].arg = 0
  <2>1. Len(c.bytes) = Len(b.bytes) + 5 /\ Len(c.bytes) - 4 = Len(b.bytes) + 1
    BY <1>2, <1>4, <1>5
  <2>2. /\ Len(b.bytes) + 1 \in 1 .. Len(e.bytes) /\ Len(b.bytes) + 5 \in 1 .. Len(e.bytes)
        /\ Len(b.bytes) + 5 # q + 1 /\ Len(c.bytes) > 4
    BY <1>2, <1>4, <1>5
  <2> QED
    BY <1>2, <1>4, <2>1, <2>2
<1>7. Keeps(c.bytes, b.bytes)
  BY <1>2, <1>4 DEF Keeps
<1>8. ASSUME NEW o PROVE Ended(c.bytes, o)
  <2>1. c.bytes # <<>>
    BY <1>6
  <2> QED
    BY <1>6, <2>1 DEF Ended
<1> QED
  BY <1>4, <1>6, <1>7, <1>8 DEF Back

\* A step that ends with that.
LEMMA BackStep ==
  ASSUME IInv, NEW c, NEW next \in {"body", "statement"}, Emitted(c, next),
         NEW o, open' = o, o \in Seq(Constructs), Work(c, PendingIn(o)), AllHold(c.bytes, o),
         Len(c.bytes) > 4, c.bytes[Len(c.bytes) - 4].op = "OP_JUMP_BACK", Ended(c.bytes, o)
  PROVE  IInv'
<1>1. /\ code' = c.bytes /\ capacity' = c.cap /\ at' = next
      /\ lines' = lines /\ consts' = consts /\ ended' = ended
  BY DEF Emitted, SetBuffer
<1>2. Constants' /\ ended' \in {"no", "compiled", "not enough memory"}
  BY <1>1, BufferWork DEF Constants, States
<1> QED
  BY <1>1, <1>2, CloseBuffer

LEMMA StepEndIncrement ==
  ASSUME IInv, EndIncrement
  PROVE  IInv'
<1>1. /\ Records /\ open \in Seq(Constructs) /\ Work(Buffer, PendingIn(open))
      /\ Top.is = "increment" /\ Top.is \in Loops
  BY BufferWork DEF EndIncrement, Loops
<1>2. PICK b, o, c, s, q, p :
        /\ b = chput(Buffer, Op(o)) /\ o = "OP_OP" /\ s = Top.start /\ q = Top.skip /\ p = Top.exit
        /\ c = confirm_jump(jump_to(b, "OP_JUMP_BACK", s), q)
  OBVIOUS
<1>3. o \in Alone
  BY <1>2 DEF Alone
<1>4. Work(b, PendingIn(open))
  BY <1>1, <1>2, <1>3, PutOp
<1>5. /\ s \in Nat /\ BeginsAt(b.bytes, s + 1)
      /\ Front(open) \in Seq(Constructs) /\ AllHold(b.bytes, Front(open))
      /\ PendingIn(open) = PendingIn(Front(open)) \cup (Exit(p) \cup {q})
      /\ p \in Nat /\ \A r \in Exit(p) : IsJump(b.bytes, r, Forward)
      /\ IsJump(b.bytes, q, Forward) /\ q \in Nat
  BY <1>1, <1>2, <1>4, TopLoop
<1>6. BeginsAt(b.bytes, q + 4 + 1)
  <2>1. IsJump(b.bytes, q, Jumps) /\ Good(b.bytes)
    BY <1>4, <1>5 DEF IsJump, Jumps, Work, Stage
  <2>2. BeginsAt(b.bytes, q + 5) /\ q + 4 + 1 = q + 5
    BY <1>5, <2>1, JumpInside
  <2> QED
    BY <2>2
<1>7. PICK x, n, Q : /\ x = [is |-> "for body", start |-> q + 4, exit |-> p]
                     /\ n = Append(Front(open), x) /\ Q = PendingIn(Front(open)) \cup Exit(p)
  OBVIOUS
<1>8. x \in Constructs /\ Patches(x) = Exit(p) /\ Starts(x) = {q + 4}
  <2>1. PICK m : m = q + 4
    OBVIOUS
  <2>2. m \in Nat
    BY <1>5, <2>1
  <2>3. PICK k : k = "for body"
    OBVIOUS
  <2>4. x \in Constructs /\ x.is = "for body" /\ x.start = m /\ x.exit = p
    BY <1>5, <1>7, <2>1, <2>2, <2>3, NewConstruct
  <2> QED
    BY <2>1, <2>4, ConstructKinds
<1>9. Emitted(c, "body") /\ open' = n
  BY <1>2, <1>7 DEF EndIncrement, Replace
<1>10. /\ Work(c, Q) /\ Keeps(c.bytes, b.bytes)
       /\ Len(c.bytes) > 4 /\ c.bytes[Len(c.bytes) - 4].op = "OP_JUMP_BACK"
       /\ \A r : Ended(c.bytes, r)
  <2>1. PICK P : P = PendingIn(open)
    OBVIOUS
  <2>2. Work(b, P) /\ P \ {q} \subseteq Q
    BY <1>4, <1>5, <1>7, <2>1
  <2>3. Back(c, b, Q)
    BY <1>1, <1>2, <1>5, <2>2, BackWork
  <2> QED
    BY <2>3 DEF Back
<1>11. AllHold(c.bytes, Front(open))
  BY <1>1, <1>10, TopLoop
<1>12. Holds(c.bytes, x)
  BY <1>5, <1>6, <1>8, <1>10 DEF Holds, Keeps
<1>13. n \in Seq(Constructs) /\ AllHold(c.bytes, n) /\ PendingIn(n) = Q
  <2>1. PICK f : f = Front(open)
    OBVIOUS
  <2>2. f \in Seq(Constructs) /\ AllHold(c.bytes, f) /\ n = Append(f, x)
    BY <1>5, <1>7, <1>11, <2>1
  <2>3. /\ n \in Seq(Constructs) /\ AllHold(c.bytes, n)
        /\ PendingIn(n) = PendingIn(f) \cup Patches(x)
    BY <1>12, <2>2, PushHolds
  <2> QED
    BY <1>7, <1>8, <2>1, <2>3
<1> QED
  BY <1>9, <1>10, <1>13, BackStep

\* Nothing is patched.
LEMMA BackOnly ==
  ASSUME IInv, NEW b, NEW P, Work(b, P), NEW s \in Nat, BeginsAt(b.bytes, s + 1),
         NEW c, c = jump_to(b, "OP_JUMP_BACK", s)
  PROVE  Back(c, b, P)
<1>1. Records
  BY BufferWork
<1>2. /\ Work(c, P) /\ Keeps(c.bytes, b.bytes)
      /\ Len(c.bytes) = Len(b.bytes) + 5
      /\ c.bytes[Len(b.bytes) + 1].op = "OP_JUMP_BACK"
      /\ c.bytes[Len(b.bytes) + 5].op = "-" /\ c.bytes[Len(b.bytes) + 5].arg = 0
  BY <1>1, PutBack
<1>3. Len(b.bytes) \in Nat
  BY DEF Work
<1>4. Len(c.bytes) > 4 /\ Len(c.bytes) - 4 = Len(b.bytes) + 1 /\ c.bytes # <<>>
  <2>1. Len(c.bytes) > 4 /\ Len(c.bytes) - 4 = Len(b.bytes) + 1
    BY <1>2, <1>3
  <2> QED
    BY <2>1
<1>5. c.bytes[Len(c.bytes)].op = "-" /\ c.bytes[Len(c.bytes)].arg = 0
  BY <1>2
<1>6. ASSUME NEW o PROVE Ended(c.bytes, o)
  BY <1>4, <1>5 DEF Ended
<1> QED
  BY <1>2, <1>4, <1>6 DEF Back

LEMMA StepEndLoop ==
  ASSUME IInv, EndLoop
  PROVE  IInv'
<1>1. /\ open \in Seq(Constructs) /\ Work(Buffer, PendingIn(open))
      /\ Top.is \in {"body", "for body"} /\ Top.is \in Loops
  BY BufferWork DEF EndLoop, Loops
<1>2. PICK b, e, c, s, q :
        /\ b = Buffer /\ s = Top.start /\ q = Top.exit /\ e = jump_to(b, "OP_JUMP_BACK", s)
        /\ c = IF q = 0 THEN e ELSE confirm_jump(e, q)
  OBVIOUS
<1>3. /\ s \in Nat /\ BeginsAt(b.bytes, s + 1)
      /\ Front(open) \in Seq(Constructs)
      /\ PendingIn(open) = PendingIn(Front(open)) \cup Exit(q)
      /\ q \in Nat /\ \A p \in Exit(q) : IsJump(b.bytes, p, Forward)
  BY <1>1, <1>2, TopLoop
<1>4. PICK P, Q : P = PendingIn(open) /\ Q = PendingIn(Front(open))
  OBVIOUS
<1>5. Work(b, P)
  BY <1>1, <1>2, <1>4
<1>6. Back(c, b, Q)
  <2>1. CASE q = 0
    <3>1. c = jump_to(b, "OP_JUMP_BACK", s) /\ P = Q
      BY <1>2, <1>3, <1>4, <2>1 DEF Exit
    <3>2. Back(c, b, P)
      BY <1>3, <1>5, <3>1, BackOnly
    <3> QED
      BY <3>1, <3>2
  <2>2. CASE q # 0
    <3>1. /\ c = confirm_jump(jump_to(b, "OP_JUMP_BACK", s), q)
          /\ IsJump(b.bytes, q, Forward) /\ P \ {q} \subseteq Q
      BY <1>2, <1>3, <1>4, <2>2 DEF Exit
    <3> QED
      BY <1>3, <1>5, <3>1, BackWork
  <2> QED
    BY <2>1, <2>2
<1>7. /\ Work(c, Q) /\ Len(c.bytes) > 4 /\ c.bytes[Len(c.bytes) - 4].op = "OP_JUMP_BACK"
      /\ \A r : Ended(c.bytes, r)
  BY <1>6 DEF Back
<1>8. AllHold(c.bytes, Front(open))
  BY <1>1, <1>7, TopLoop
<1>9. Emitted(c, "statement") /\ open' = Front(open)
  BY <1>2 DEF EndLoop, Pop
<1> QED
  BY <1>3, <1>4, <1>7, <1>8, <1>9, BackStep

LEMMA StepEndBlock ==
  ASSUME IInv, EndBlock
  PROVE  IInv'
<1>1. /\ Records /\ open \in Seq(Constructs) /\ Work(Buffer, PendingIn(open)) /\ Buffer.bytes = code
      /\ Top.is = "block" /\ at = "statement"
  BY BufferWork DEF EndBlock
<1>2. open # <<>>
  BY <1>1, TopIs
<1>3. Ended(code, open)
  <2>1. open[Len(open)].is = "block"
    BY <1>1, <1>2, TopOf
  <2> QED
    BY <1>1, <1>2, <2>1 DEF IInv, Source
<1>4. PICK b, c, u, e : /\ b = Buffer /\ c = b.bytes /\ u = chunputif(b, "OP_OP", "OP_LOAD_NOTHING")
                        /\ e = chputn(chput(u, Op("OP_COLLECT_LOCALS")), Wide(1, 2))
  OBVIOUS
<1>5. Last(c) = c[Len(c)] /\ c = code
  BY <1>1, <1>4 DEF Last
<1>6. Work(e, PendingIn(open)) /\ Fits(e)
  <2>1. CASE c[Len(c)].op = "OP_OP" \/ (c[Len(c)].op = "-" /\ c[Len(c)].arg = OpOp)
    <3>1. u = [b EXCEPT !.bytes = Front(@)]
      BY <1>4, <1>5, <2>1 DEF chunputif
    <3>2. Cuttable(c) /\ Fresh(c, open)
      BY <1>3, <1>5, <2>1 DEF Ended, Cuttable, OpOp
    <3> QED
      BY <1>1, <1>4, <3>1, <3>2, CutWork
  <2>2. CASE ~(c[Len(c)].op = "OP_OP" \/ (c[Len(c)].op = "-" /\ c[Len(c)].arg = OpOp))
    <3>1. PICK o, o2, m : o = "OP_LOAD_NOTHING" /\ o2 = "OP_COLLECT_LOCALS" /\ m = 1
      OBVIOUS
    <3>2. u = chput(b, Op(o)) /\ e = chputn(chput(u, Op(o2)), Wide(m, 2))
      BY <1>4, <1>5, <2>2, <3>1 DEF chunputif
    <3>3. o \in Alone /\ o2 \in Long /\ m \in Nat
      BY <3>1 DEF Alone, Long
    <3>4. Work(u, PendingIn(open))
      BY <1>1, <1>4, <3>2, <3>3, PutOp
    <3> QED
      BY <1>1, <3>2, <3>3, <3>4, PutLong
  <2> QED
    BY <2>1, <2>2
<1>7. /\ PendingIn(open) = PendingIn(Front(open))
      /\ Front(open) \in Seq(Constructs) /\ AllHold(e.bytes, Front(open))
  BY <1>1, <1>6, TopBlock
<1>8. Emitted(e, "expression") /\ open' = Front(open)
  BY <1>4 DEF EndBlock, Pop
<1> QED
  BY <1>6, <1>7, <1>8, OpenedStep

LEMMA StepEndFunction ==
  ASSUME IInv, NEW captured \in 0 .. MaxCaptured, EndFunction(captured)
  PROVE  IInv'
<1>1. /\ Records /\ open \in Seq(Constructs) /\ Work(Buffer, PendingIn(open))
      /\ Constants /\ States /\ Top.is = "function" /\ captured \in Nat
  BY BufferWork, ChunkAssumption DEF EndFunction
<1>2. PICK a, o, q, b, c, e :
        /\ a = chput(Buffer, Op(o)) /\ o = "OP_RETURN" /\ q = Top.arg /\ b = confirm_jump(a, q)
        /\ c = Inserted(b, "OP_DECLARE_FUNCTION", "OP_DECLARE_FUNCTION_16")
        /\ e = chputs(c, <<Arg(captured)>> \o [i \in 1 .. captured |-> Arg(0)])
  OBVIOUS
<1>3. o \in Alone
  BY <1>2 DEF Alone
<1>4. Work(a, PendingIn(open)) /\ Fits(a)
  BY <1>1, <1>2, <1>3, PutOp
<1>5. /\ open # <<>> /\ IsJump(a.bytes, q, Forward)
      /\ PendingIn(open) = PendingIn(Front(open)) \cup {q}
  BY <1>1, <1>2, <1>4, TopJump
<1>6. PICK P, Q : P = PendingIn(open) /\ Q = PendingIn(Front(open))
  OBVIOUS
<1>7. Work(a, P) /\ P \ {q} \subseteq Q
  BY <1>4, <1>5, <1>6
<1>8. Work(b, Q) /\ Len(b.bytes) = Len(a.bytes) /\ b.cap = a.cap
  BY <1>2, <1>5, <1>7, Patch
<1>9. /\ Constants' /\ ended' \in {"no", "compiled", "not enough memory"}
      /\ consts.count \in Nat /\ (ConstCap # 0 => consts.count # Indices - 1)
  BY <1>1, AddConst, ConstFacts DEF EndFunction
<1>10. PICK d : d = IF ConstCap = 0 THEN b ELSE e
  OBVIOUS
<1>11. Work(d, Q) /\ Fits(d)
  <2>1. Fits(b)
    BY <1>4, <1>8 DEF Fits
  <2>2. ConstCap # 0 => Work(e, Q) /\ Fits(e)
    BY <1>1, <1>2, <1>8, <1>9, FunctionPut
  <2> QED
    BY <1>8, <1>10, <2>1, <2>2
<1>12. /\ code' = d.bytes /\ capacity' = d.cap /\ lines' = lines /\ open' = Front(open)
       /\ at' = IF Len(open) > 1 /\ open[Len(open) - 1].is = "class" THEN "member" ELSE "expression"
  BY <1>2, <1>10 DEF EndFunction, SetBuffer, Pop
<1>13. /\ Front(open) \in Seq(Constructs) /\ AllHold(d.bytes, Front(open))
       /\ Len(Front(open)) = Len(open) - 1 /\ Len(open) \in Nat /\ Len(open) >= 1
       /\ \A i \in 1 .. Len(open) - 1 : Front(open)[i] = open[i]
  BY <1>1, <1>5, <1>11, Topmost
<1>14. PICK f : f = Front(open)
  OBVIOUS
<1>15. at' = "member" => f # <<>> /\ f[Len(f)].is = "class"
  <2> HAVE at' = "member"
  <2>1. Len(open) > 1 /\ open[Len(open) - 1].is = "class"
    BY <1>12
  <2>2. Len(f) = Len(open) - 1 /\ Len(f) >= 1 /\ f[Len(f)] = open[Len(open) - 1]
    BY <1>13, <1>14, <2>1
  <2>3. f # <<>>
    BY <2>2
  <2> QED
    BY <2>1, <2>2, <2>3
<1>16. at' \in {"member", "expression"}
  BY <1>12
<1> QED
  BY <1>6, <1>9, <1>11, <1>12, <1>13, <1>14, <1>15, <1>16, CloseBuffer

\* A class that is open gets the name of a further method.
LEMMA NamedMethod ==
  ASSUME open \in Seq(Constructs), Top.is = "class", NEW b, NEW P, Work(b, P), NEW n \in Nat
  PROVE  LET o == Append(Front(open), [Top EXCEPT !.names = Append(@, n)])
         IN  o \in Seq(Constructs) /\ AllHold(b.bytes, o) /\ PendingIn(o) = PendingIn(open)
<1>1. /\ open # <<>> /\ PendingIn(open) = PendingIn(Front(open))
      /\ Front(open) \in Seq(Constructs) /\ AllHold(b.bytes, Front(open))
  BY TopBlock
<1>2. Top \in Constructs
  BY <1>1, TopOf
<1>3. Top \in [is : {"class"}, names : Seq(Nat)]
  BY <1>2 DEF Constructs
<1>4. PICK names, m, x : /\ names = Top.names /\ m = Append(names, n)
                         /\ x = [Top EXCEPT !.names = Append(@, n)]
  OBVIOUS
<1>5. names \in Seq(Nat)
  BY <1>3, <1>4
<1>6. m \in Seq(Nat)
  BY <1>4, <1>5
<1>7. x = [is |-> "class", names |-> m]
  BY <1>3, <1>4
<1>8. x \in Constructs /\ x.is = "class"
  BY <1>6, <1>7, NewConstruct
<1>9. Patches(x) = {} /\ Holds(b.bytes, x)
  BY <1>8, ConstructKinds DEF Holds
<1>10. PICK f, o : f = Front(open) /\ o = Append(f, x)
  OBVIOUS
<1>11. o \in Seq(Constructs) /\ AllHold(b.bytes, o) /\ PendingIn(o) = PendingIn(f) \cup Patches(x)
  BY <1>1, <1>9, <1>10, PushHolds
<1>12. PendingIn(o) = PendingIn(open)
  BY <1>1, <1>9, <1>10, <1>11
<1> QED
  BY <1>4, <1>10, <1>11, <1>12

LEMMA StepBeginMethod ==
  ASSUME IInv, BeginMethod
  PROVE  IInv'
<1>1. /\ Records /\ open \in Seq(Constructs) /\ Work(Buffer, PendingIn(open))
      /\ Stage(code, PendingIn(open)) /\ Constants /\ States /\ Room /\ at = "member"
  BY BufferWork DEF BeginMethod
<1>2. /\ Constants' /\ ended' \in {"no", "compiled", "not enough memory"}
      /\ consts.count \in Nat
  BY <1>1, AddConst, ConstFacts DEF BeginMethod
<1>3. AllHold(code, open) /\ at' = "operand" /\ lines' = lines
  BY <1>1 DEF Stage, BeginMethod
<1>4. CASE ConstCap = 0
  <2>1. code' = code /\ capacity' = capacity /\ open' = open
    BY <1>4 DEF BeginMethod
  <2>2. Room'
    BY <1>1, <2>1 DEF Room, opcount
  <2> QED
    BY <1>1, <1>2, <1>3, <2>1, <2>2, Close
<1>5. CASE ConstCap # 0
  <2>1. PICK e, o, p, n, x, f :
          /\ e = emit_jump(Buffer, o) /\ o = "OP_JUMP" /\ p = JumpArg(e)
          /\ n = Append(Front(open), [Top EXCEPT !.names = Append(@, consts.count)])
          /\ x = [is |-> "function", arg |-> p] /\ f = Append(n, x)
    OBVIOUS
  <2>2. o \in Forward
    BY <2>1 DEF Forward
  <2>3. Work(e, PendingIn(open) \cup {p}) /\ Fits(e) /\ p \in Nat /\ IsJump(e.bytes, p, Forward)
    BY <1>1, <2>1, <2>2, PutJump
  <2>4. open # <<>> /\ open[Len(open)].is = "class"
    BY <1>1 DEF IInv, Source
  <2>5. Top.is = "class"
    BY <1>1, <2>4, TopOf
  <2>6. n \in Seq(Constructs) /\ AllHold(e.bytes, n) /\ PendingIn(n) = PendingIn(open)
    BY <1>1, <1>2, <2>1, <2>3, <2>5, NamedMethod
  <2>7. x \in Constructs /\ Patches(x) = {p} /\ Starts(x) = {}
    <3>1. PICK k : k = "function"
      OBVIOUS
    <3>2. x = [is |-> k, arg |-> p] /\ k \in {"if", "tail", "function"}
      BY <2>1, <3>1
    <3>3. x \in Constructs /\ x.is = k /\ x.arg = p
      BY <2>3, <3>2, NewConstruct
    <3> QED
      BY <3>2, <3>3, ConstructKinds
  <2>8. Holds(e.bytes, x)
    BY <2>3, <2>7 DEF Holds
  <2>9. f \in Seq(Constructs) /\ AllHold(e.bytes, f) /\ PendingIn(f) = PendingIn(open) \cup {p}
    <3>1. /\ f \in Seq(Constructs) /\ AllHold(e.bytes, f)
          /\ PendingIn(f) = PendingIn(n) \cup Patches(x)
      BY <2>1, <2>6, <2>8, PushHolds
    <3> QED
      BY <2>6, <2>7, <3>1
  <2>10. code' = e.bytes /\ capacity' = e.cap /\ open' = f
    BY <1>5, <2>1 DEF BeginMethod, SetBuffer
  <2>11. Work(e, PendingIn(f))
    BY <2>3, <2>9
  <2> QED
    BY <1>2, <1>3, <2>3, <2>9, <2>10, <2>11, CloseBuffer
<1> QED
  BY <1>4, <1>5

LEMMA StepEndClass ==
  ASSUME IInv, EndClass
  PROVE  IInv'
<1>1. /\ Records /\ open \in Seq(Constructs) /\ Work(Buffer, PendingIn(open))
      /\ Stage(code, PendingIn(open)) /\ Constants /\ States /\ Room /\ at = "member"
  BY BufferWork DEF EndClass
<1>2. /\ Constants' /\ ended' \in {"no", "compiled", "not enough memory"}
      /\ consts.count \in Nat /\ (ConstCap # 0 => consts.count # Indices - 1)
  BY <1>1, AddConst, ConstFacts DEF EndClass
<1>3. Top.is = "class" /\ Top.names \in Seq(Nat) /\ Top.names # <<>>
  <2>1. open # <<>> /\ open[Len(open)].is = "class"
    BY <1>1 DEF IInv, Source
  <2>2. Top.is = "class" /\ Top \in Constructs
    BY <1>1, <2>1, TopOf
  <2>3. Top \in [is : {"class"}, names : Seq(Nat)]
    BY <2>2 DEF Constructs
  <2> QED
    BY <2>2, <2>3 DEF EndClass
<1>4. /\ PendingIn(open) = PendingIn(Front(open))
      /\ Front(open) \in Seq(Constructs) /\ AllHold(Buffer.bytes, Front(open))
  BY <1>1, <1>3, TopBlock
<1>5. /\ at' = "expression" /\ lines' = lines /\ open' = Front(open) /\ Buffer.bytes = code
  BY <1>1, BufferWork DEF EndClass, Pop
<1>6. CASE ConstCap = 0
  <2>1. code' = code /\ Room'
    BY <1>1, <1>6 DEF EndClass, Room, opcount
  <2>2. Stage(code, PendingIn(Front(open))) /\ AllHold(code, Front(open))
    BY <1>1, <1>4, <1>5
  <2> QED
    BY <1>2, <1>4, <1>5, <2>1, <2>2, Close
<1>7. CASE ConstCap # 0
  <2>1. PICK names : names = Top.names
    OBVIOUS
  <2>2. PICK b : b = chputs16(chput(Inserted(Buffer, "OP_DECLARE_CLASS", "OP_DECLARE_CLASS_16"),
                                    Arg(Len(names))), names)
    OBVIOUS
  <2>3. Work(b, PendingIn(open)) /\ Fits(b)
    BY <1>1, <1>2, <1>3, <1>7, <2>1, <2>2, ClassPut
  <2>4. code' = b.bytes /\ capacity' = b.cap
    BY <1>7, <2>1, <2>2 DEF EndClass, SetBuffer
  <2>5. Work(b, PendingIn(Front(open))) /\ AllHold(b.bytes, Front(open))
    BY <1>1, <1>3, <1>4, <2>3, TopBlock
  <2> QED
    BY <1>2, <1>4, <1>5, <2>3, <2>4, <2>5, CloseBuffer
<1> QED
  BY <1>6, <1>7

LEMMA StepEndOfSource ==
  ASSUME IInv, EndOfSource
  PROVE  IInv'
<1>1. /\ Records /\ open \in Seq(Constructs) /\ Work(Buffer, PendingIn(open))
      /\ Constants /\ States /\ open = <<>> /\ at \in {"body", "statement"}
  BY BufferWork DEF EndOfSource, BeginsStatement
<1>2. PICK b, o : b = chput(Buffer, Op(o)) /\ o = "OP_EXIT"
  OBVIOUS
<1>3. o \in Alone
  BY <1>2 DEF Alone
<1>4. Work(b, PendingIn(open)) /\ Fits(b)
  BY <1>1, <1>2, <1>3, PutOp
<1>5. /\ code' = b.bytes /\ capacity' = b.cap /\ at' = at /\ open' = open
      /\ lines' = lines /\ consts' = consts /\ ended' = "compiled"
  BY <1>2 DEF EndOfSource, SetBuffer
<1>6. Constants'
  BY <1>1, <1>5 DEF Constants
<1>7. AllHold(b.bytes, open)
  BY <1>4 DEF Work, Stage
<1> QED
  BY <1>1, <1>4, <1>5, <1>6, <1>7, CloseBuffer

LEMMA StepNewLine ==
  ASSUME IInv, NewLine
  PROVE  IInv'
<1>1. /\ UNCHANGED <<code, capacity, consts, open, at, ended>>
      /\ lines' = Append([lines EXCEPT ![Len(lines)].opend = opcount],
                         [opstart |-> opcount, opend |-> 0])
  BY DEF NewLine
<1>2. Source' /\ Room' /\ Constants' /\ States'
  BY <1>1 DEF IInv, Source, Room, Constants, States, opcount
<1>3. /\ Records /\ Recorded(code) /\ code \in Seq(Bytes) /\ Len(code) \in Nat /\ opcount = Len(code)
  BY LenProperties DEF IInv, Source, Good, opcount
<1>4. /\ Len(lines) \in Nat /\ Len(lines) >= 1
      /\ \A r \in 1 .. Len(lines) : lines[r].opstart \in Nat /\ lines[r].opend \in Nat
  BY <1>3, RecordTypes
<1>5. PICK n, m, t, l : /\ n = Len(lines) /\ m = opcount /\ t = [lines EXCEPT ![n].opend = m]
                        /\ l = Append(t, [opstart |-> m, opend |-> 0])
  OBVIOUS
<1>6. n \in Nat /\ n >= 1 /\ m \in Nat /\ m = Len(code) /\ lines' = l
  BY <1>1, <1>3, <1>4, <1>5
<1>7. /\ t \in Seq([opstart : Nat, opend : Nat]) /\ Len(t) = n
      /\ \A r \in 1 .. n : t[r].opstart = lines[r].opstart
      /\ \A r \in 1 .. n - 1 : t[r] = lines[r]
      /\ t[n].opend = m
  <2>1. lines \in Seq([opstart : Nat, opend : Nat]) /\ n \in 1 .. Len(lines)
    BY <1>3, <1>5, <1>6 DEF Records
  <2>2. lines[n] \in [opstart : Nat, opend : Nat]
    BY <2>1, ElementOfSeq
  <2>3. PICK x : x = [lines[n] EXCEPT !.opend = m]
    OBVIOUS
  <2>4. x \in [opstart : Nat, opend : Nat] /\ x.opstart = lines[n].opstart /\ x.opend = m
    BY <1>6, <2>2, <2>3
  <2>5. t = [lines EXCEPT ![n] = x]
    BY <1>5, <2>3
  <2>6. t \in Seq([opstart : Nat, opend : Nat]) /\ Len(t) = Len(lines)
    BY <2>1, <2>4, <2>5
  <2>7. \A r \in 1 .. n : t[r] = IF r = n THEN x ELSE lines[r]
    <3>1. DOMAIN lines = 1 .. n
      BY <1>5, <2>1
    <3> QED
      BY <2>5, <3>1
  <2> QED
    BY <1>5, <1>6, <2>4, <2>6, <2>7
<1>8. /\ l \in Seq([opstart : Nat, opend : Nat]) /\ Len(l) = n + 1
      /\ \A r \in 1 .. n : l[r] = t[r]
      /\ l[n + 1].opstart = m
  <2>1. PICK x : x = [opstart |-> m, opend |-> 0]
    OBVIOUS
  <2>2. x \in [opstart : Nat, opend : Nat] /\ x.opstart = m /\ l = Append(t, x)
    BY <1>5, <1>6, <2>1
  <2>3. l \in Seq([opstart : Nat, opend : Nat]) /\ Len(l) = n + 1 /\ l[n + 1] = x
    BY <1>7, <2>2, AppendProperties
  <2>4. \A r \in 1 .. n : l[r] = t[r]
    BY <1>7, <2>2, AppendProperties
  <2> QED
    BY <2>2, <2>3, <2>4
<1>9. Records'
  <2>1. l # <<>>
    BY <1>6, <1>8
  <2>2. l[1].opstart = 0
    BY <1>3, <1>6, <1>7, <1>8 DEF Records
  <2>3. ASSUME NEW r \in 1 .. Len(l) - 1
        PROVE  l[r].opend = l[r + 1].opstart /\ l[r].opstart <= l[r].opend
    <3>1. CASE r = n
      <4>1. l[r].opend = m /\ l[r + 1].opstart = m /\ l[r].opstart = lines[n].opstart
        BY <1>6, <1>7, <1>8, <3>1
      <4>2. lines[n].opstart <= m
        BY <1>3, <1>5 DEF Recorded
      <4> QED
        BY <4>1, <4>2
    <3>2. CASE r # n
      <4>1. r \in 1 .. n - 1 /\ r + 1 \in 1 .. n /\ r \in 1 .. n
        BY <1>6, <1>8, <3>2
      <4>2. lines[r].opend = lines[r + 1].opstart /\ lines[r].opstart <= lines[r].opend
        BY <1>3, <1>5, <4>1 DEF Records
      <4> QED
        BY <1>7, <1>8, <4>1, <4>2
    <3> QED
      BY <3>1, <3>2
  <2> QED
    BY <1>6, <1>8, <2>1, <2>2, <2>3 DEF Records
<1>10. Recorded(code)'
  <2>1. l[Len(l)].opstart <= Len(code)
    BY <1>6, <1>8
  <2>2. ASSUME NEW i \in 1 .. Len(code) PROVE InLine(code, l, i)
    <3>1. PICK r : r = code[i].line
      OBVIOUS
    <3>2. /\ r \in 1 .. n /\ (r < n => i <= lines[r].opend)
          /\ lines[r].opstart < i \/ (lines[r].opstart = i /\ code[i].op = "OP_COLLECT_LOCALS")
      BY <1>3, <1>5, <3>1 DEF Recorded, InLine
    <3>3. r \in 1 .. Len(l) /\ l[r].opstart = lines[r].opstart
      BY <1>6, <1>7, <1>8, <3>2
    <3>4. i <= l[r].opend
      <4>1. CASE r = n
        BY <1>6, <1>7, <1>8, <3>2, <4>1
      <4>2. CASE r # n
        <5>1. r \in 1 .. n - 1 /\ r < n
          BY <1>6, <3>2, <4>2
        <5> QED
          BY <1>7, <1>8, <3>2, <5>1
      <4> QED
        BY <4>1, <4>2
    <3> QED
      BY <3>1, <3>2, <3>3, <3>4 DEF InLine
  <2> QED
    BY <1>1, <1>6, <2>1, <2>2 DEF Recorded
<1> QED
  BY <1>2, <1>9, <1>10 DEF IInv

LEMMA InitHolds ==
  Init => IInv
<1> SUFFICES ASSUME Init PROVE IInv
  OBVIOUS
<1>1. code = <<>> /\ open = <<>> /\ at = "body" /\ ended = "no" /\ capacity = 0
  BY DEF Init
<1>2. Source
  <2>1. PICK c, o : c = code /\ o = open
    OBVIOUS
  <2>2. c \in Seq(Bytes) /\ o \in Seq(Constructs) /\ Len(c) = 0 /\ Len(o) = 0
    BY <1>1, <2>1
  <2>3. Good(c)
    BY <2>2 DEF Good, BeginsAt
  <2>4. AllHold(c, o) /\ Landed(c, PendingIn(o))
    BY <2>2 DEF AllHold, Landed
  <2> QED
    BY <1>1, <2>1, <2>2, <2>3, <2>4 DEF Source
<1>3. Room
  BY <1>1 DEF Room, Capacity, opcount
<1>4. Constants
  <2>1. consts = [count |-> 0, capacity |-> 0]
    BY DEF Init
  <2>2. /\ consts \in [count : Nat, capacity : Nat] /\ consts.count <= consts.capacity
        /\ consts.capacity = 0 /\ Indices # 0
    BY <2>1, ChunkAssumption
  <2> QED
    BY <2>2, ChunkAssumption DEF Constants
<1>5. Records /\ lines[1].opstart = 0 /\ Len(lines) = 1
  <2>1. PICK x : x = [opstart |-> 0, opend |-> 0]
    OBVIOUS
  <2>2. x \in [opstart : Nat, opend : Nat] /\ x.opstart = 0 /\ lines = <<x>>
    BY <2>1 DEF Init
  <2>3. /\ lines \in Seq([opstart : Nat, opend : Nat]) /\ lines # <<>> /\ Len(lines) = 1
        /\ lines[1] = x
    BY <2>2
  <2> QED
    BY <2>2, <2>3 DEF Records
<1>6. Recorded(code)
  <2>1. Len(code) = 0
    BY <1>1
  <2> QED
    BY <1>5, <2>1 DEF Recorded
<1>7. States
  BY <1>1 DEF States
<1> QED
  BY <1>2, <1>3, <1>4, <1>5, <1>6, <1>7 DEF IInv

LEMMA NextHolds ==
  IInv /\ [Next]_vars => IInv'
<1> SUFFICES ASSUME IInv, [Next]_vars PROVE IInv'
  OBVIOUS
<1>1. CASE NewLine
  BY <1>1, StepNewLine
<1>2. CASE Constant
  BY <1>2, StepConstant
<1>3. CASE EndStatement
  BY <1>3, StepEndStatement
<1>4. CASE DefineGlobal
  BY <1>4, StepDefineGlobal
<1>5. CASE Return
  BY <1>5, StepReturn
<1>6. CASE DeclareVoid
  BY <1>6, StepDeclareVoid
<1>7. CASE \E r \in Registers : Declare(r)
  BY <1>7, StepDeclare
<1>8. CASE BeginIf
  BY <1>8, StepBeginIf
<1>9. CASE Else
  BY <1>9, StepElse
<1>10. CASE EndIf
  BY <1>10, StepEndIf
<1>11. CASE BeginSecond
  BY <1>11, StepBeginSecond
<1>12. CASE EndTail
  BY <1>12, StepEndTail
<1>13. CASE BeginLoop
  BY <1>13, StepBeginLoop
<1>14. CASE LoopBody
  BY <1>14, StepLoopBody
<1>15. CASE BeginFor
  BY <1>15, StepBeginFor
<1>16. CASE Initializer
  BY <1>16, StepInitializer
<1>17. CASE NoCondition
  BY <1>17, StepNoCondition
<1>18. CASE EndCondition
  BY <1>18, StepEndCondition
<1>19. CASE NoIncrement
  BY <1>19, StepNoIncrement
<1>20. CASE BeginIncrement
  BY <1>20, StepBeginIncrement
<1>21. CASE EndIncrement
  BY <1>21, StepEndIncrement
<1>22. CASE EndLoop
  BY <1>22, StepEndLoop
<1>23. CASE BeginBlock
  BY <1>23, StepBeginBlock
<1>24. CASE EndBlock
  BY <1>24, StepEndBlock
<1>25. CASE BeginFunction
  BY <1>25, StepBeginFunction
<1>26. CASE \E captured \in 0 .. MaxCaptured : EndFunction(captured)
  BY <1>26, StepEndFunction
<1>27. CASE BeginClass
  BY <1>27, StepBeginClass
<1>28. CASE BeginMethod
  BY <1>28, StepBeginMethod
<1>29. CASE EndClass
  BY <1>29, StepEndClass
<1>30. CASE EndOfSource
  BY <1>30, StepEndOfSource
<1>31. CASE UNCHANGED vars
  BY <1>31 DEF vars, IInv, Source, Room, Constants, Records, Recorded, InLine, States, opcount
<1> QED
  BY <1>1, <1>2, <1>3, <1>4, <1>5, <1>6, <1>7, <1>8, <1>9, <1>10, <1>11, <1>12, <1>13, <1>14,
     <1>15, <1>16, <1>17, <1>18, <1>19, <1>20, <1>21, <1>22, <1>23, <1>24, <1>25, <1>26, <1>27,
     <1>28, <1>29, <1>30, <1>31 DEF Next

LEMMA Invariant ==
  Spec => []IInv
  BY InitHolds, NextHolds, PTL DEF Spec

-----------------------------------------------------------------------------
(* The properties of Chunk. *)

LEMMA EmittableShown ==
  Emittable \subseteq Opcodes
<1>1. /\ Row(RunAlone, 0, 0) \in Machine /\ Row(RunAccesses, 1, 0) \in Machine
      /\ Row(RunJumps, 4, 0) \in Machine /\ Row(RunFrames, 2, 0) \in Machine
      /\ RunGlobals \subseteq Machine /\ RunConstants \subseteq Machine
      /\ RunClasses \subseteq Machine /\ RunFunctions \subseteq Machine
  BY DEF Machine
<1>2. /\ Row({"OP_LOAD_GLOBAL", "OP_DEFINE_GLOBAL", "OP_ASSIGN_GLOBAL"}, 1, 0) \in Machine
      /\ Row({"OP_LOAD_GLOBAL_16", "OP_DEFINE_GLOBAL_16", "OP_ASSIGN_GLOBAL_16"}, 2, 0) \in Machine
      /\ Row({"OP_CONST"}, 1, 0) \in Machine /\ Row({"OP_CONST_16"}, 2, 0) \in Machine
      /\ Row({"OP_DECLARE_CLASS"}, 2, 2) \in Machine
      /\ Row({"OP_DECLARE_CLASS_16"}, 2, 0) \in Machine
      /\ Row({"OP_DECLARE_FUNCTION"}, 2, 1) \in Machine
      /\ Row({"OP_DECLARE_FUNCTION_16"}, 3, 1) \in Machine
  BY <1>1 DEF RunGlobals, RunConstants, RunClasses, RunFunctions
<1>3. \A ops, n, each : Row(ops, n, each) \in Machine => ops \subseteq Opcodes
  <2> SUFFICES ASSUME NEW ops, NEW n, NEW each, Row(ops, n, each) \in Machine PROVE ops \subseteq Opcodes
    OBVIOUS
  <2>1. Row(ops, n, each).ops = ops
    BY DEF Row
  <2> QED
    BY <2>1 DEF Opcodes
<1>4. /\ RunAlone \subseteq Opcodes /\ RunAccesses \subseteq Opcodes /\ RunJumps \subseteq Opcodes
      /\ RunFrames \subseteq Opcodes
      /\ "OP_DEFINE_GLOBAL" \in Opcodes /\ "OP_DEFINE_GLOBAL_16" \in Opcodes
      /\ "OP_CONST" \in Opcodes /\ "OP_CONST_16" \in Opcodes
      /\ "OP_DECLARE_CLASS" \in Opcodes /\ "OP_DECLARE_CLASS_16" \in Opcodes
      /\ "OP_DECLARE_FUNCTION" \in Opcodes /\ "OP_DECLARE_FUNCTION_16" \in Opcodes
  BY <1>1, <1>2, <1>3
<1>5. Alone \subseteq RunAlone /\ Jumps \subseteq RunJumps
  BY DEF Alone, RunAlone, Jumps, Forward, RunJumps
<1>6. "OP_PUT_8_WITH_POP" \in RunAccesses /\ "OP_PUT_8_VOID" \in RunAccesses
      /\ "OP_PUT_8" \in RunAccesses
      /\ "OP_COLLECT_LOCALS" \in RunFrames
  BY DEF RunAccesses, RunFrames
<1> QED
  BY <1>4, <1>5, <1>6 DEF Emittable, Short, Long, Lists, WideLists

LEMMA TypesHold ==
  IInv => TypeOK
<1> SUFFICES ASSUME IInv PROVE TypeOK
  OBVIOUS
<1>1. Room /\ Constants /\ States /\ code \in Seq(Bytes)
  BY DEF IInv, Source, Good
<1>2. \A i \in 1 .. opcount : code[i].op \in Opcodes \cup {"-"} /\ code[i].arg \in Nat
  BY <1>1, ElementTypes, EmittableShown DEF opcount
<1>3. consts.count <= consts.capacity /\ consts.capacity < Indices
  <2>1. PICK S \in SUBSET (FirstCap .. Indices) : consts.capacity \in (S \cup {0}) \ {Indices}
    BY <1>1 DEF Constants
  <2>2. \A n \in S : n \in Nat /\ n <= Indices
    BY ChunkAssumption
  <2> QED
    BY <1>1, <2>1, <2>2, ChunkAssumption DEF Constants
<1> QED
  BY <1>1, <1>2, <1>3 DEF TypeOK, Room, Capacity, States

LEMMA PendingIsIn ==
  ASSUME open \in Seq(Constructs)
  PROVE  PendingIn(open) \subseteq Pending
<1>1. DOMAIN open = 1 .. Len(open)
  OBVIOUS
<1>2. ASSUME NEW k \in 1 .. Len(open)
      PROVE  Patches(open[k]) \subseteq {open[k][m] : m \in DOMAIN open[k] \cap {"arg", "exit", "skip"}}
  <2>1. PICK x : x = open[k]
    OBVIOUS
  <2>2. x \in Constructs
    BY <1>2, <2>1, ElementOfSeq
  <2>3. CASE x \in [is : {"if", "tail", "function"}, arg : Nat]
    <3>1. DOMAIN x \cap {"arg", "exit", "skip"} = {"arg"} /\ Patches(x) = {x.arg}
      BY <2>3 DEF Patches
    <3> QED
      BY <2>1, <3>1
  <2>4. CASE x \in [is : {"block", "for"}]
    <3>1. DOMAIN x \cap {"arg", "exit", "skip"} = {} /\ Patches(x) = {}
      BY <2>4 DEF Patches
    <3> QED
      BY <2>1, <3>1
  <2>5. CASE x \in [is : {"class"}, names : Seq(Nat)]
    <3>1. DOMAIN x \cap {"arg", "exit", "skip"} = {} /\ Patches(x) = {}
      BY <2>5 DEF Patches
    <3> QED
      BY <2>1, <3>1
  <2>6. CASE x \in [is : {"loop", "condition"}, start : Nat]
    <3>1. DOMAIN x \cap {"arg", "exit", "skip"} = {} /\ Patches(x) = {}
      BY <2>6 DEF Patches
    <3> QED
      BY <2>1, <3>1
  <2>7. CASE x \in [is : {"clauses", "body", "for body"}, start : Nat, exit : Nat]
    <3>1. DOMAIN x \cap {"arg", "exit", "skip"} = {"exit"} /\ Patches(x) \subseteq {x.exit}
      BY <2>7 DEF Patches, Exit
    <3> QED
      BY <2>1, <3>1
  <2>8. CASE x \in [is : {"increment"}, start : Nat, exit : Nat, skip : Nat]
    <3>1. DOMAIN x \cap {"arg", "exit", "skip"} = {"exit", "skip"} /\ Patches(x) \subseteq {x.exit, x.skip}
      BY <2>8 DEF Patches, Exit
    <3> QED
      BY <2>1, <3>1
  <2> QED
    BY <2>2, <2>3, <2>4, <2>5, <2>6, <2>7, <2>8 DEF Constructs
<1>3. \A k \in 1 .. Len(open) : Patches(open[k]) \subseteq Nat
  BY ElementOfSeq, ConstructKinds
<1> QED
  BY <1>1, <1>2, <1>3 DEF Pending, PendingIn

LEMMA EmissionsBegin ==
  ASSUME Len(code) \in Nat
  PROVE  \A i : i \in Emissions <=> BeginsAt(code, i)
  BY DEF Emissions, BeginsAt, opcount

LEMMA LandedHolds ==
  IInv => JumpsLand
<1> SUFFICES ASSUME IInv, NEW i \in 1 .. opcount, code[i].op \in RunJumps, i \notin Pending
             PROVE  Target(i) \in Emissions
  BY DEF JumpsLand
<1>1. /\ Good(code) /\ open \in Seq(Constructs) /\ Landed(code, PendingIn(open))
      /\ code \in Seq(Bytes) /\ Len(code) \in Nat /\ opcount = Len(code)
  BY LenProperties DEF IInv, Source, Good, opcount
<1>2. code[i].op \in Jumps
  <2>1. code[i].op \in Emittable \cup {"-"}
    BY <1>1, ElementTypes
  <2> QED
    BY <2>1 DEF RunJumps, Emittable, Alone, Short, Long, Jumps, Forward, Lists, WideLists
<1>3. i \notin PendingIn(open)
  BY <1>1, PendingIsIn
<1>4. BeginsAt(code, To(code, i))
  BY <1>1, <1>2, <1>3 DEF Landed
<1>5. Target(i) = To(code, i)
  <2>1. code[i + 1].arg \in Nat
    BY <1>1, <1>2, JumpInside DEF IsJump
  <2>2. \A a \in Nat : a * 1 = a /\ 1 * a = a /\ (-1) * a = -a
    OBVIOUS
  <2> QED
    BY <1>1, <2>1, <2>2 DEF Target, To
<1> QED
  BY <1>1, <1>4, <1>5, EmissionsBegin

LEMMA LinesHold ==
  IInv => LinesKept
<1> SUFFICES ASSUME IInv, NEW i \in 1 .. opcount, i <= lines[Len(lines)].opstart
             PROVE  \E r \in DOMAIN lines :
                      /\ lines[r].opstart < i /\ i <= lines[r].opend
                      /\ code[i].op # "-" =>
                           r = code[i].line \/ (r < code[i].line /\ code[i].op = "OP_COLLECT_LOCALS")
  BY DEF LinesKept
<1>1. /\ Records /\ InLine(code, lines, i) /\ i \in Nat /\ i >= 1
      /\ DOMAIN lines = 1 .. Len(lines)
  BY LenProperties DEF IInv, Source, Good, opcount, Recorded, Records
<1>2. /\ Len(lines) \in Nat /\ Len(lines) >= 1
      /\ \A r \in 1 .. Len(lines) : lines[r].opstart \in Nat /\ lines[r].opend \in Nat
  BY <1>1, RecordTypes
<1>3. PICK n : n = code[i].line
  OBVIOUS
<1>4. /\ n \in 1 .. Len(lines) /\ (n < Len(lines) => i <= lines[n].opend)
      /\ \/ lines[n].opstart < i
         \/ lines[n].opstart = i /\ code[i].op = "OP_COLLECT_LOCALS"
  BY <1>1, <1>3 DEF InLine
<1>5. CASE lines[n].opstart < i
  <2>1. n < Len(lines)
    BY <1>2, <1>4, <1>5
  <2> QED
    BY <1>1, <1>3, <1>4, <1>5, <2>1
<1>6. CASE ~(lines[n].opstart < i)
  <2>1. lines[n].opstart = i /\ code[i].op = "OP_COLLECT_LOCALS"
    BY <1>4, <1>6
  \* The first record that starts at i; the one before it ends there.
  <2> DEFINE S == {r \in 1 .. Len(lines) : lines[r].opstart >= i}
  <2>2. PICK m \in S : \A r \in S : m <= r
    <3>1. S \in SUBSET Nat /\ S # {}
      BY <1>2, <1>4, <2>1
    <3> HIDE DEF S
    <3> QED
      BY <3>1, LeastOf
  <2>3. m \in 2 .. Len(lines) /\ m <= n /\ lines[m].opstart >= i
    <3>1. m # 1
      BY <1>1, <1>2 DEF Records
    <3>2. n \in S
      BY <1>4, <2>1
    <3> QED
      BY <1>2, <2>2, <3>1, <3>2
  <2>4. m - 1 \in 1 .. Len(lines) - 1 /\ m - 1 \in 1 .. Len(lines) /\ m - 1 + 1 = m /\ m - 1 < n
    BY <1>2, <1>4, <2>3
  <2>5. lines[m - 1].opstart < i
    <3>1. m - 1 \notin S
      BY <2>2, <2>4
    <3> QED
      BY <1>1, <1>2, <2>4, <3>1
  <2>6. lines[m - 1].opend = lines[m].opstart
    BY <1>1, <2>4 DEF Records
  <2> QED
    BY <1>1, <1>2, <1>3, <2>1, <2>3, <2>4, <2>5, <2>6
<1> QED
  BY <1>5, <1>6

-----------------------------------------------------------------------------
(* The readers. *)

\* The rows of the reader that hold opcode o, all of them alike.
Reads(reader, o, n, each) ==
  /\ \E row \in reader : o \in row.ops
  /\ \A row \in reader : o \in row.ops => row.n = n /\ row.each = each

\* The opcodes of the instructions that are not wide lists are read as they are put.
ReadsAll(reader) ==
  /\ \A o \in Alone : Reads(reader, o, 0, 0)
  /\ \A o \in Short : Reads(reader, o, 1, 0)
  /\ \A o \in Long : Reads(reader, o, 2, 0)
  /\ \A o \in Jumps : Reads(reader, o, 4, 0)
  /\ Reads(reader, "OP_DECLARE_FUNCTION", 2, 1)
  /\ Reads(reader, "OP_DECLARE_CLASS", 2, 2)

LEMMA RowParts ==
  ASSUME NEW ops, NEW n, NEW each
  PROVE  Row(ops, n, each).ops = ops /\ Row(ops, n, each).n = n /\ Row(ops, n, each).each = each
  BY DEF Row

LEMMA MachineReads ==
  ReadsAll(Machine)
<1>1. ASSUME NEW row \in Machine
      PROVE  \/ row.ops = RunAlone /\ row.n = 0 /\ row.each = 0
             \/ row.ops = RunAccesses /\ row.n = 1 /\ row.each = 0
             \/ row.ops = RunJumps /\ row.n = 4 /\ row.each = 0
             \/ row.ops = RunFrames /\ row.n = 2 /\ row.each = 0
             \/ row.ops = {"OP_LOAD_GLOBAL", "OP_DEFINE_GLOBAL", "OP_ASSIGN_GLOBAL"}
                  /\ row.n = 1 /\ row.each = 0
             \/ row.ops = {"OP_LOAD_GLOBAL_16", "OP_DEFINE_GLOBAL_16", "OP_ASSIGN_GLOBAL_16"}
                  /\ row.n = 2 /\ row.each = 0
             \/ row.ops = {"OP_SET", "OP_GET"} /\ row.n = 1 /\ row.each = 0
             \/ row.ops = {"OP_SET_16", "OP_GET_16"} /\ row.n = 2 /\ row.each = 0
             \/ row.ops = {"OP_CONST"} /\ row.n = 1 /\ row.each = 0
             \/ row.ops = {"OP_CONST_16"} /\ row.n = 2 /\ row.each = 0
             \/ row.ops = {"OP_DECLARE_CLASS"} /\ row.n = 2 /\ row.each = 2
             \/ row.ops = {"OP_DECLARE_CLASS_16"} /\ row.n = 2 /\ row.each = 0
             \/ row.ops = {"OP_DECLARE_FUNCTION"} /\ row.n = 2 /\ row.each = 1
             \/ row.ops = {"OP_DECLARE_FUNCTION_16"} /\ row.n = 3 /\ row.each = 1
  BY RowParts
     DEF Machine, RunGlobals, RunFields, RunConstants, RunClasses, RunFunctions
<1>2. \A o \in Emittable : \E row \in Machine : o \in row.ops
  BY EmittableShown DEF Opcodes
<1>3. \A o \in Alone : Reads(Machine, o, 0, 0)
  BY <1>1, <1>2 DEF Reads, Emittable, Alone, RunAccesses, RunJumps, RunFrames
<1>4. \A o \in Short : Reads(Machine, o, 1, 0)
  BY <1>1, <1>2 DEF Reads, Emittable, Short, RunAlone, RunJumps, RunFrames
<1>5. \A o \in Long : Reads(Machine, o, 2, 0)
  BY <1>1, <1>2 DEF Reads, Emittable, Long, RunAlone, RunJumps, RunAccesses
<1>6. \A o \in Jumps : Reads(Machine, o, 4, 0)
  BY <1>1, <1>2 DEF Reads, Emittable, Jumps, Forward, RunAlone, RunFrames, RunAccesses
<1>7. /\ Reads(Machine, "OP_DECLARE_FUNCTION", 2, 1)
      /\ Reads(Machine, "OP_DECLARE_CLASS", 2, 2)
  BY <1>1, <1>2 DEF Reads, Emittable, Lists, RunAlone, RunFrames, RunAccesses, RunJumps
<1> QED
  BY <1>3, <1>4, <1>5, <1>6, <1>7 DEF ReadsAll

LEMMA DisassemblerReads ==
  ReadsAll(Disassembler)
<1> DEFINE Cased == Alone \cup Short \cup Long \cup Jumps \cup Lists
<1>1. ASSUME NEW row \in Shown
      PROVE  \/ row.ops = ShownAlone /\ row.n = 0 /\ row.each = 0
             \/ row.ops = ShownAccesses /\ row.n = 1 /\ row.each = 0
             \/ row.ops = ShownJumps /\ row.n = 4 /\ row.each = 0
             \/ row.ops = ShownFrames /\ row.n = 2 /\ row.each = 0
             \/ row.ops = {"OP_DEFINE_GLOBAL", "OP_LOAD_GLOBAL", "OP_ASSIGN_GLOBAL"}
                  /\ row.n = 1 /\ row.each = 0
             \/ row.ops = {"OP_DEFINE_GLOBAL_16", "OP_LOAD_GLOBAL_16", "OP_ASSIGN_GLOBAL_16"}
                  /\ row.n = 2 /\ row.each = 0
             \/ row.ops = {"OP_SET", "OP_GET"} /\ row.n = 1 /\ row.each = 0
             \/ row.ops = {"OP_SET_16", "OP_GET_16"} /\ row.n = 2 /\ row.each = 0
             \/ row.ops = {"OP_CONST"} /\ row.n = 1 /\ row.each = 0
             \/ row.ops = {"OP_CONST_16"} /\ row.n = 2 /\ row.each = 0
             \/ row.ops = {"OP_DECLARE_CLASS"} /\ row.n = 2 /\ row.each = 2
             \/ row.ops = {"OP_DECLARE_CLASS_16"} /\ row.n = 3 /\ row.each = 2
             \/ row.ops = {"OP_DECLARE_FUNCTION"} /\ row.n = 2 /\ row.each = 1
  BY RowParts DEF Shown, ShownGlobals, ShownFields, ShownConstants, ShownDeclarations
<1>2. \A o \in Cased : \E row \in Shown : o \in row.ops
  <2>1. /\ Row(ShownAlone, 0, 0) \in Shown /\ Row(ShownAccesses, 1, 0) \in Shown
        /\ Row(ShownJumps, 4, 0) \in Shown /\ Row(ShownFrames, 2, 0) \in Shown
        /\ Row({"OP_DEFINE_GLOBAL", "OP_LOAD_GLOBAL", "OP_ASSIGN_GLOBAL"}, 1, 0) \in Shown
        /\ Row({"OP_DEFINE_GLOBAL_16", "OP_LOAD_GLOBAL_16", "OP_ASSIGN_GLOBAL_16"}, 2, 0) \in Shown
        /\ Row({"OP_CONST"}, 1, 0) \in Shown /\ Row({"OP_CONST_16"}, 2, 0) \in Shown
        /\ Row({"OP_DECLARE_CLASS"}, 2, 2) \in Shown
        /\ Row({"OP_DECLARE_FUNCTION"}, 2, 1) \in Shown
    BY DEF Shown, ShownGlobals, ShownConstants, ShownDeclarations
  <2>2. \A ops, n, each : Row(ops, n, each) \in Shown
          => \A o \in ops : \E row \in Shown : o \in row.ops
    BY RowParts
  <2>3. /\ \A o \in ShownAlone : \E row \in Shown : o \in row.ops
        /\ \A o \in ShownAccesses : \E row \in Shown : o \in row.ops
        /\ \A o \in ShownJumps : \E row \in Shown : o \in row.ops
        /\ \A o \in ShownFrames : \E row \in Shown : o \in row.ops
        /\ \E row \in Shown : "OP_DEFINE_GLOBAL" \in row.ops
        /\ \E row \in Shown : "OP_DEFINE_GLOBAL_16" \in row.ops
        /\ \E row \in Shown : "OP_CONST" \in row.ops
        /\ \E row \in Shown : "OP_CONST_16" \in row.ops
        /\ \E row \in Shown : "OP_DECLARE_CLASS" \in row.ops
        /\ \E row \in Shown : "OP_DECLARE_FUNCTION" \in row.ops
    BY <2>1, <2>2
  <2>4. Alone \subseteq ShownAlone /\ Jumps \subseteq ShownJumps
        /\ "OP_PUT_8_WITH_POP" \in ShownAccesses /\ "OP_PUT_8_VOID" \in ShownAccesses
        /\ "OP_PUT_8" \in ShownAccesses
        /\ "OP_COLLECT_LOCALS" \in ShownFrames
    BY DEF Alone, ShownAlone, Jumps, Forward, ShownJumps, ShownAccesses, ShownFrames
  <2> QED
    BY <2>3, <2>4 DEF Short, Long, Lists
<1>3. ASSUME NEW o \in Cased, NEW n, NEW each, Reads(Shown, o, n, each)
      PROVE  Reads(Disassembler, o, n, each)
  <2>1. o \notin ShownUnknown.ops
    <3>1. ShownUnknown.ops = Opcodes \ UNION {row.ops : row \in Shown}
      BY RowParts DEF ShownUnknown
    <3> QED
      BY <1>2, <3>1
  <2> QED
    BY <1>2, <1>3, <2>1 DEF Reads, Disassembler
<1>4. \A o \in Alone : Reads(Shown, o, 0, 0)
  BY <1>1, <1>2 DEF Reads, Alone, ShownAccesses, ShownJumps, ShownFrames
<1>5. \A o \in Short : Reads(Shown, o, 1, 0)
  BY <1>1, <1>2 DEF Reads, Short, ShownAlone, ShownJumps, ShownFrames
<1>6. \A o \in Long : Reads(Shown, o, 2, 0)
  BY <1>1, <1>2 DEF Reads, Long, ShownAlone, ShownJumps, ShownAccesses
<1>7. \A o \in Jumps : Reads(Shown, o, 4, 0)
  BY <1>1, <1>2 DEF Reads, Jumps, Forward, ShownAlone, ShownFrames, ShownAccesses
<1>8. /\ Reads(Shown, "OP_DECLARE_FUNCTION", 2, 1)
      /\ Reads(Shown, "OP_DECLARE_CLASS", 2, 2)
  BY <1>1, <1>2 DEF Reads, Lists, ShownAlone, ShownFrames, ShownAccesses, ShownJumps
<1>9. "OP_DECLARE_FUNCTION" \in Cased /\ "OP_DECLARE_CLASS" \in Cased
  BY DEF Lists
<1> QED
  BY <1>3, <1>4, <1>5, <1>6, <1>7, <1>8, <1>9 DEF ReadsAll

\* A reader takes an instruction to be as long as it was put.
LEMMA LengthRead ==
  ASSUME NEW reader, ReadsAll(reader), NEW i, code[i].op \in Emittable \ WideLists,
         code[i].op \in Lists => code[i + 2].arg \in Nat
  PROVE  LengthAt(reader, i) = LengthIn(code, i)
<1>1. ASSUME NEW n, NEW each, Reads(reader, code[i].op, n, each)
      PROVE  LengthAt(reader, i) = 1 + n + (IF each = 0 THEN 0 ELSE each * code[i + n].arg)
  BY <1>1 DEF LengthAt, Reads
<1>2. CASE code[i].op \in Alone
  <2>1. Reads(reader, code[i].op, 0, 0)
    BY <1>2 DEF ReadsAll
  <2> QED
    BY <1>1, <1>2, <2>1 DEF LengthIn
<1>3. CASE code[i].op \in Short
  <2>1. Reads(reader, code[i].op, 1, 0)
    BY <1>3 DEF ReadsAll
  <2>2. code[i].op \notin Alone
    BY <1>3 DEF Short, Alone
  <2> QED
    BY <1>1, <1>3, <2>1, <2>2 DEF LengthIn
<1>4. CASE code[i].op \in Long
  <2>1. Reads(reader, code[i].op, 2, 0)
    BY <1>4 DEF ReadsAll
  <2>2. code[i].op \notin Alone \cup Short
    BY <1>4 DEF Long, Short, Alone
  <2> QED
    BY <1>1, <1>4, <2>1, <2>2 DEF LengthIn
<1>5. CASE code[i].op \in Jumps
  <2>1. Reads(reader, code[i].op, 4, 0)
    BY <1>5 DEF ReadsAll
  <2>2. code[i].op \notin Alone \cup Short \cup Long
    BY <1>5 DEF Jumps, Forward, Long, Short, Alone
  <2> QED
    BY <1>1, <1>5, <2>1, <2>2 DEF LengthIn
<1>6. CASE code[i].op \in Lists
  <2>1. code[i].op \notin Alone \cup Short \cup Long \cup Jumps
    BY <1>6 DEF Jumps, Forward, Long, Short, Alone, Lists
  <2>2. CASE code[i].op = "OP_DECLARE_FUNCTION"
    <3>1. Reads(reader, code[i].op, 2, 1)
      BY <2>2 DEF ReadsAll
    <3>2. LengthAt(reader, i) = 1 + 2 + 1 * code[i + 2].arg
      BY <1>1, <3>1
    <3>3. LengthIn(code, i) = 3 + code[i + 2].arg
      BY <2>1, <2>2 DEF LengthIn
    <3> QED
      BY <1>6, <3>2, <3>3
  <2>3. CASE code[i].op # "OP_DECLARE_FUNCTION"
    <3>1. code[i].op = "OP_DECLARE_CLASS"
      BY <1>6, <2>3 DEF Lists
    <3>2. Reads(reader, code[i].op, 2, 2)
      BY <3>1 DEF ReadsAll
    <3>3. LengthAt(reader, i) = 1 + 2 + 2 * code[i + 2].arg
      BY <1>1, <3>2
    <3>4. LengthIn(code, i) = 3 + 2 * code[i + 2].arg
      BY <2>1, <2>3 DEF LengthIn
    <3> QED
      BY <1>6, <3>3, <3>4
  <2> QED
    BY <2>2, <2>3
<1> QED
  BY <1>2, <1>3, <1>4, <1>5, <1>6 DEF Emittable

\* The recursive definition in Visited.
IsVisit(f, reader) ==
  f = [i \in Nat \ {0} |->
         {i} \cup (IF i <= opcount /\ code[i].op # "-" THEN f[i + LengthAt(reader, i)] ELSE {})]

From(i) == {j \in Emissions : j >= i}

\* A reader that comes from each instruction to the next one.
Follows(reader) ==
  \A i \in 1 .. opcount :
    code[i].op # "-" =>
      /\ LengthAt(reader, i) \in Nat /\ LengthAt(reader, i) >= 1
      /\ i + LengthAt(reader, i) \in Emissions
      /\ \A j \in i + 1 .. i + LengthAt(reader, i) - 1 : j \notin Emissions

LEMMA FollowsOn ==
  ASSUME opcount \in Nat, NEW reader, Follows(reader), NEW i \in Emissions, i # opcount + 1
  PROVE  /\ i \in 1 .. opcount /\ code[i].op # "-"
         /\ LengthAt(reader, i) \in Nat /\ i + LengthAt(reader, i) \in Emissions
         /\ i < i + LengthAt(reader, i) /\ From(i) = {i} \cup From(i + LengthAt(reader, i))
<1>1. i \in 1 .. opcount /\ code[i].op # "-"
  BY DEF Emissions
<1>2. PICK n : n = LengthAt(reader, i)
  OBVIOUS
<1>3. /\ n \in Nat /\ n >= 1 /\ i + n \in Emissions
      /\ \A j \in i + 1 .. i + n - 1 : j \notin Emissions
  BY <1>1, <1>2 DEF Follows
<1>4. \A j \in Emissions : j \in Nat
  BY DEF Emissions
<1>5. \A j \in Nat : j >= i => j = i \/ j \in i + 1 .. i + n - 1 \/ j >= i + n
  BY <1>1, <1>3
<1>6. \A j \in Nat : j >= i + n => j >= i
  BY <1>1, <1>3
<1>7. ASSUME NEW j PROVE j \in From(i) <=> j \in {i} \cup From(i + n)
  <2>1. j \in From(i) <=> j \in Emissions /\ j >= i
    BY DEF From
  <2>2. j \in From(i + n) <=> j \in Emissions /\ j >= i + n
    BY DEF From
  <2>3. i \in Emissions /\ i >= i
    BY <1>1
  <2>4. j \in Emissions => (j >= i <=> j = i \/ j >= i + n)
    BY <1>3, <1>4, <1>5, <1>6, <2>3
  <2> QED
    BY <2>1, <2>2, <2>3, <2>4
<1>8. From(i) = {i} \cup From(i + n)
  BY <1>7
<1> QED
  BY <1>1, <1>2, <1>3, <1>8

LEMMA VisitExists ==
  ASSUME opcount \in Nat, NEW reader, Follows(reader)
  PROVE  \E f : IsVisit(f, reader)
<1>1. PICK g : g = [i \in Nat \ {0} |-> IF i \in Emissions THEN From(i) ELSE {i}]
  OBVIOUS
<1>2. Emissions \subseteq Nat \ {0}
  BY DEF Emissions
<1>3. ASSUME NEW i \in Nat \ {0}
      PROVE  g[i] = {i} \cup (IF i <= opcount /\ code[i].op # "-"
                                THEN g[i + LengthAt(reader, i)] ELSE {})
  <2>1. CASE i \notin Emissions
    <3>1. ~(i <= opcount /\ code[i].op # "-")
      BY <2>1 DEF Emissions
    <3> QED
      BY <1>1, <2>1, <3>1
  <2>2. CASE i = opcount + 1
    <3>1. ~(i <= opcount) /\ i \in Emissions
      BY <2>2 DEF Emissions
    <3>2. From(i) = {i}
      BY <2>2 DEF From, Emissions
    <3> QED
      BY <1>1, <3>1, <3>2
  <2>3. CASE i \in Emissions /\ i # opcount + 1
    <3>1. PICK n : n = LengthAt(reader, i)
      OBVIOUS
    <3>2. /\ i \in 1 .. opcount /\ code[i].op # "-" /\ i + n \in Emissions
          /\ From(i) = {i} \cup From(i + n)
      BY <2>3, <3>1, FollowsOn
    <3>3. g[i] = From(i) /\ g[i + n] = From(i + n)
      BY <1>1, <1>2, <2>3, <3>2
    <3> QED
      BY <3>1, <3>2, <3>3
  <2> QED
    BY <2>1, <2>2, <2>3
<1>4. IsVisit(g, reader)
  BY <1>1, <1>3 DEF IsVisit
<1> QED
  BY <1>4

LEMMA VisitedAll ==
  ASSUME opcount \in Nat, NEW reader, Follows(reader), 1 \in Emissions
  PROVE  Visited(reader) = Emissions
<1> DEFINE h == CHOOSE g : IsVisit(g, reader)
<1>1. IsVisit(h, reader) /\ Visited(reader) = h[1]
  <2>1. IsVisit(h, reader)
    BY VisitExists
  <2>2. Visited(reader) = h[1]
    BY DEF Visited, IsVisit
  <2> QED
    BY <2>1, <2>2
<1>2. PICK f : f = h
  OBVIOUS
<1>3. ASSUME NEW i \in Nat \ {0}
      PROVE  f[i] = {i} \cup (IF i <= opcount /\ code[i].op # "-"
                                THEN f[i + LengthAt(reader, i)] ELSE {})
  <2>1. IsVisit(f, reader)
    BY <1>1, <1>2
  <2> QED
    BY <2>1 DEF IsVisit
<1> HIDE DEF h
<1> DEFINE Bad == {k \in 0 .. opcount : /\ opcount + 1 - k \in Emissions
                                        /\ f[opcount + 1 - k] # From(opcount + 1 - k)}
<1>4. Bad = {}
  <2> SUFFICES ASSUME Bad # {} PROVE FALSE
    OBVIOUS
  <2>1. Bad \in SUBSET Nat
    OBVIOUS
  <2> HIDE DEF Bad
  <2>2. PICK k \in Bad : \A m \in Bad : k <= m
    BY <2>1, LeastOf
  <2>3. PICK i : i = opcount + 1 - k
    OBVIOUS
  <2>4. k \in 0 .. opcount /\ i \in Emissions /\ f[i] # From(i) /\ i \in Nat \ {0}
    BY <2>2, <2>3 DEF Bad
  <2>5. i # opcount + 1
    <3> SUFFICES ASSUME i = opcount + 1 PROVE FALSE
      OBVIOUS
    <3>1. From(i) = {i}
      BY DEF From, Emissions
    <3>2. ~(i <= opcount)
      OBVIOUS
    <3> QED
      BY <1>3, <2>4, <3>1, <3>2
  <2>6. PICK n : n = LengthAt(reader, i)
    OBVIOUS
  <2>7. /\ i \in 1 .. opcount /\ code[i].op # "-" /\ n \in Nat /\ i + n \in Emissions
        /\ i < i + n /\ From(i) = {i} \cup From(i + n)
    BY <2>4, <2>5, <2>6, FollowsOn
  <2>8. f[i] = {i} \cup f[i + n]
    BY <1>3, <2>4, <2>6, <2>7
  <2>9. f[i + n] = From(i + n)
    <3>1. PICK m : m = k - n
      OBVIOUS
    <3>2. i + n \in 1 .. opcount + 1
      BY <2>7 DEF Emissions
    <3>3. m \in 0 .. opcount /\ opcount + 1 - m = i + n /\ ~(k <= m)
      BY <2>3, <2>4, <2>7, <3>1, <3>2
    <3>4. m \notin Bad
      BY <2>2, <3>3
    <3> QED
      BY <2>7, <3>3, <3>4 DEF Bad
  <2> QED
    BY <2>4, <2>7, <2>8, <2>9
<1>5. f[1] = From(1)
  <2>1. PICK k : k = opcount
    OBVIOUS
  <2>2. k \in 0 .. opcount /\ opcount + 1 - k = 1
    BY <2>1
  <2> QED
    BY <1>4, <2>2
<1>6. From(1) = Emissions
  <2>1. \A j \in Emissions : j >= 1
    BY DEF Emissions
  <2> QED
    BY <2>1 DEF From
<1> QED
  BY <1>1, <1>2, <1>5, <1>6

LEMMA ReadHolds ==
  IInv => ReadAsEmitted
<1> SUFFICES ASSUME IInv, ~ArgDropped, ~WideDeclared
             PROVE  Visited(Machine) = Emissions /\ Visited(Disassembler) = Emissions
  BY DEF ReadAsEmitted
<1>1. /\ Good(code) /\ code \in Seq(Bytes) /\ Len(code) \in Nat /\ opcount = Len(code)
  BY LenProperties DEF IInv, Source, Good, opcount
<1>2. 1 \in Emissions
  BY <1>1, EmissionsBegin DEF Good
<1>3. ASSUME NEW i \in 1 .. opcount, code[i].op # "-"
      PROVE  code[i].op \in Emittable \ WideLists /\ Whole(code, i)
  <2>1. ~Odd(code, i)
    <3>1. code[i].op \notin WideLists
      BY <1>3 DEF WideDeclared, WideLists
    <3>2. ~(code[i].op = "OP_PUT_8_WITH_POP" /\ i < Len(code) /\ code[i + 1].op # "-")
      BY <1>1, <1>3 DEF ArgDropped
    <3> QED
      BY <3>1, <3>2 DEF Odd
  <2>2. code[i].op \in Emittable
    BY <1>1, <1>3, ElementTypes
  <2>3. Whole(code, i)
    BY <1>1, <1>3, <2>1 DEF Good
  <2> QED
    BY <2>1, <2>2, <2>3 DEF Odd
<1>4. ASSUME NEW reader, ReadsAll(reader)
      PROVE  Visited(reader) = Emissions
  <2>1. Follows(reader)
    <3> SUFFICES ASSUME NEW i \in 1 .. opcount, code[i].op # "-"
                 PROVE  /\ LengthAt(reader, i) \in Nat /\ LengthAt(reader, i) >= 1
                        /\ i + LengthAt(reader, i) \in Emissions
                        /\ \A j \in i + 1 .. i + LengthAt(reader, i) - 1 : j \notin Emissions
      BY DEF Follows
    <3>1. code[i].op \in Emittable \ WideLists /\ Whole(code, i)
      BY <1>3
    <3>2. /\ LengthIn(code, i) \in Nat /\ LengthIn(code, i) >= 1
          /\ i + LengthIn(code, i) <= Len(code) + 1
          /\ code[i].op \in Lists => i + 2 <= Len(code)
      BY <1>1, <3>1, WholeInside
    <3>3. code[i].op \in Lists => code[i + 2].arg \in Nat
      <4> HAVE code[i].op \in Lists
      <4>1. i + 2 \in 1 .. Len(code)
        BY <1>1, <3>2
      <4> QED
        BY <1>1, <4>1, ElementTypes
    <3>4. LengthAt(reader, i) = LengthIn(code, i)
      BY <1>4, <3>1, <3>3, LengthRead
    <3>5. PICK n : n = LengthIn(code, i)
      OBVIOUS
    <3>6. BeginsAt(code, i + n) /\ \A j \in i + 1 .. i + n - 1 : code[j].op = "-"
      BY <3>1, <3>5 DEF Whole
    <3>7. i + n \in Emissions
      BY <1>1, <3>6, EmissionsBegin
    <3>8. \A j \in i + 1 .. i + n - 1 : j \notin Emissions
      <4> TAKE j \in i + 1 .. i + n - 1
      <4>1. j <= Len(code) /\ code[j].op = "-"
        BY <1>1, <3>2, <3>5, <3>6
      <4> QED
        BY <1>1, <4>1 DEF Emissions
    <3> QED
      BY <3>2, <3>4, <3>5, <3>7, <3>8
  <2> QED
    BY <1>1, <1>2, <2>1, VisitedAll
<1> QED
  BY <1>4, MachineReads, DisassemblerReads

-----------------------------------------------------------------------------
(* The theorems about Chunk. *)

\* Whatever source is compiled: the code, whose buffer doubles, and the constants are written
\* inside of their buffers, but for the operand of a jump back, for which the next put makes
\* room; and the buffer of the constants never holds 65536 (chput, jump_to, __add_const).
THEOREM Types == Spec => []TypeOK
  BY Invariant, TypesHold, PTL

\* Whatever source is compiled: the machine and the disassembler come by all the instructions
\* and by nothing else, unless the code of a block lost an argument or an index was wide (run,
\* disassemble_chunk).
THEOREM Reading == Spec => []ReadAsEmitted
  BY Invariant, ReadHolds, PTL

\* However constructs are nested, fors with any of their clauses empty among them: every
\* jump that is patched goes to an instruction, and the end of a for without a condition
\* patches none for it (confirm_jump, jump_to, __comp_for_statement).
THEOREM Landing == Spec => []JumpsLand
  BY Invariant, LandedHolds, PTL

\* Wherever lines begin, between statements or within an expression, a condition or a
\* parameter list: the line of an instruction is the one that is found for it (advance,
\* chputl, __find_lninfo_for_op).
THEOREM LineRecords == Spec => []LinesKept
  BY Invariant, LinesHold, PTL

-----------------------------------------------------------------------------
(* Scanner. *)

\* During a call char is the character at crnt, except after a comment: there it
\* still is the slash that the comment began with, and crnt is at the end of
\* the comment's line.  No call passes the NUL before its token.
Looking ==
  kind = "calling" =>
    /\ crnt <= Length
    /\ char = At(crnt) \/ (char = "/" /\ At(crnt) \in {"newline", "NUL"})

SInv ==
  /\ text \in Seq(Chars) /\ beyond \in {"/", "?"}
  /\ ScanTypeOK /\ Looking /\ SkipsBlanksOnly

-----------------------------------------------------------------------------
\* What Min of a set of naturals is.
LEMMA Minimum ==
  ASSUME NEW S \in SUBSET Nat, S # {}
  PROVE  Min(S) \in S /\ \A y \in S : Min(S) <= y
<1>1. PICK x \in S : \A y \in S : ~(<<y, x>> \in OpToRel(<, Nat))
  BY NatLessThanWellFounded, WFMin
<1>2. \A y \in S : x <= y
  <2> TAKE y \in S
  <2>1. ~(y < x)
    BY <1>1 DEF OpToRel
  <2> QED
    BY <2>1
<1> QED
  BY <1>2 DEF Min

\* The characters of the text, and the NUL behind them.
LEMMA Characters ==
  ASSUME SInv
  PROVE  /\ Length \in Nat
         /\ \A i \in 0 .. Length - 1 : At(i) \in Chars /\ At(i) = text[i + 1]
         /\ At(Length) = "NUL"
         /\ "NUL" \notin Chars
<1>1. text \in Seq(Chars) /\ Length \in Nat
  BY DEF SInv, Length
<1>2. ASSUME NEW i \in 0 .. Length - 1 PROVE At(i) \in Chars /\ At(i) = text[i + 1]
  <2>1. i < Length /\ i + 1 \in 1 .. Len(text)
    BY <1>1, <1>2 DEF Length
  <2> QED
    BY <1>1, <2>1 DEF At
<1>3. At(Length) = "NUL"
  BY <1>1 DEF At
<1> QED
  BY <1>1, <1>2, <1>3, ScannerAssumption

\* A token begins at a character of the text.
LEMMA Beginning ==
  ASSUME SInv, NEW class, Begins(class)
  PROVE  /\ kind = "calling" /\ crnt \in 0 .. Length
         /\ At(crnt) = class
         /\ class # "NUL" => crnt < Length
<1>1. kind = "calling" /\ crnt \in Nat /\ crnt <= Length /\ At(crnt) = class
  BY DEF SInv, ScanTypeOK, Looking, Begins
<1> QED
  BY <1>1, Characters

\* The ends of lines below i.
Newlines(i) == {j \in 0 .. i - 1 : At(j) = "newline"}

LEMMA CountLines ==
  ASSUME NEW i \in Nat, NEW j \in Nat, i <= j
  PROVE  /\ Cardinality(Newlines(i)) \in Nat
         /\ Cardinality(Newlines(i)) <= Cardinality(Newlines(j))
         /\ At(i) = "newline" /\ i < j =>
              Cardinality(Newlines(i)) + 1 <= Cardinality(Newlines(j))
<1>1. IsFiniteSet(0 .. i - 1) /\ IsFiniteSet(0 .. j - 1)
  BY FS_Interval
<1>2. IsFiniteSet(Newlines(i)) /\ IsFiniteSet(Newlines(j))
  BY <1>1, FS_Subset DEF Newlines
<1>3. Newlines(i) \subseteq Newlines(j)
  BY DEF Newlines
<1>4. Cardinality(Newlines(i)) \in Nat /\ Cardinality(Newlines(j)) \in Nat
  BY <1>2, FS_CardinalityType
<1>5. ASSUME At(i) = "newline", i < j
      PROVE  Cardinality(Newlines(i)) + 1 <= Cardinality(Newlines(j))
  <2>1. i \notin Newlines(i) /\ Newlines(i) \cup {i} \subseteq Newlines(j)
    BY <1>5, <1>3 DEF Newlines
  <2>2. Cardinality(Newlines(i) \cup {i}) = Cardinality(Newlines(i)) + 1
    BY <1>2, <2>1, FS_AddElement
  <2>3. Cardinality(Newlines(i) \cup {i}) <= Cardinality(Newlines(j))
    BY <1>2, <2>1, FS_Subset
  <2> QED
    BY <2>2, <2>3
<1> QED
  BY <1>2, <1>3, <1>4, <1>5, FS_Subset

\* The counters are numbers.
LEMMA Counters == SInv => {crnt, st, from, line} \subseteq Nat
<1> SUFFICES ASSUME SInv PROVE {crnt, st, from, line} \subseteq Nat
  OBVIOUS
<1>1. crnt \in Nat /\ st \in 0 .. crnt /\ from \in 0 .. crnt
  BY DEF SInv, ScanTypeOK
<1>2. Cardinality(Newlines(crnt)) \in Nat
  BY <1>1, CountLines
<1>3. line \in 1 .. 1 + Cardinality(Newlines(crnt))
  BY DEF SInv, ScanTypeOK, Newlines
<1> QED
  BY <1>1, <1>2, <1>3

\* The end of a line, or of the text.
LEMMA LineEnds ==
  ASSUME SInv, NEW i \in 0 .. Length
  PROVE  /\ LineEnd(i) \in i .. Length
         /\ At(LineEnd(i)) \in {"newline", "NUL"}
         /\ \A k \in i .. LineEnd(i) - 1 : At(k) \notin {"newline", "NUL"}
<1> DEFINE S == {e \in i .. Length : At(e) \in {"newline", "NUL"}}
<1>1. S \in SUBSET Nat /\ Length \in S
  BY Characters
<1> HIDE DEF S
<1>2. Min(S) \in S /\ \A y \in S : Min(S) <= y
  BY <1>1, Minimum
<1>3. LineEnd(i) = Min(S)
  BY DEF LineEnd, S
<1>4. ASSUME NEW k \in i .. LineEnd(i) - 1 PROVE k \notin S
  <2>1. LineEnd(i) \in Nat
    BY <1>1, <1>2, <1>3
  <2> QED
    BY <1>2, <1>3, <1>4, <2>1
<1> QED
  BY <1>2, <1>3, <1>4, Characters DEF S

-----------------------------------------------------------------------------
\* What the text says does not change with where the scanner stands.
LEMMA SameText ==
  ASSUME UNCHANGED <<text, beyond>>
  PROVE  /\ Length' = Length
         /\ \A i : At(i)' = At(i)
         /\ \A i : Newlines(i)' = Newlines(i)
         /\ from' = from => \A i : Commented(i)' = Commented(i)
<1>1. Length' = Length /\ \A i : At(i)' = At(i)
  BY DEF Length, At
<1> QED
  BY <1>1 DEF Newlines, Commented

\* A token that ends inside the text, or at a '#' that ends it.
LEMMA TokenInv ==
  ASSUME SInv, NEW k, NEW i \in Nat, Token(k, i), kind = "calling", crnt <= i,
         i <= Length \/ (i = Length + 1 /\ text[Length] = "#"),
         k \in {"EOF", "ERROR", "NUMBER", "IDENTIFIER", "SINGLE", "PAIR", "STRING"}
  PROVE  SInv'
<1>1. /\ UNCHANGED <<text, beyond, line, char, from>>
      /\ st' = crnt /\ crnt' = i /\ kind' = k
  BY DEF Token
<1>2. Length' = Length /\ \A j : Newlines(j)' = Newlines(j)
  BY <1>1, SameText
<1>3. kind' # "calling"
  BY <1>1
<1>4. ScanTypeOK'
  <2>1. crnt \in Nat /\ from \in 0 .. crnt /\ line \in 1 .. 1 + Cardinality(Newlines(crnt))
    BY DEF SInv, ScanTypeOK, Newlines
  <2>2. Cardinality(Newlines(crnt)) <= Cardinality(Newlines(i)) /\ Cardinality(Newlines(i)) \in Nat
        /\ Cardinality(Newlines(crnt)) \in Nat
    BY <2>1, CountLines
  <2>3. line' \in 1 .. 1 + Cardinality(Newlines(crnt)')
    <3>1. Newlines(crnt)' = Newlines(i)
      BY <1>1, <1>2 DEF Newlines
    <3> QED
      BY <1>1, <2>1, <2>2, <3>1
  <2>4. char' \in Chars \cup {"/", "NUL"}
    BY <1>1 DEF SInv, ScanTypeOK
  <2> QED
    BY <1>1, <1>2, <2>1, <2>3, <2>4 DEF ScanTypeOK, Newlines
<1> QED
  BY <1>1, <1>3, <1>4 DEF SInv, Looking, SkipsBlanksOnly

\* One character passed over.
LEMMA SkipInv ==
  ASSUME SInv, SkipTo(crnt + 1, IF At(crnt) = "newline" THEN line + 1 ELSE line),
         kind = "calling", At(crnt) \in {"blank", "newline"}
  PROVE  SInv'
<1>1. /\ UNCHANGED <<text, beyond, st, from, kind>>
      /\ crnt' = crnt + 1 /\ char' = At(crnt + 1)
      /\ line' = IF At(crnt) = "newline" THEN line + 1 ELSE line
  BY DEF SkipTo
<1>2. /\ Length' = Length
      /\ \A j : At(j)' = At(j) /\ Newlines(j)' = Newlines(j) /\ Commented(j)' = Commented(j)
  BY <1>1, SameText
<1>3. crnt \in Nat /\ crnt < Length /\ Length \in Nat
  <2>1. crnt \in Nat /\ crnt <= Length /\ Length \in Nat
    BY Characters DEF SInv, ScanTypeOK, Looking
  <2>2. crnt # Length
    BY Characters
  <2> QED
    BY <2>1, <2>2
<1>4. ScanTypeOK'
  <2>1. st \in 0 .. crnt /\ from \in 0 .. crnt /\ line \in 1 .. 1 + Cardinality(Newlines(crnt))
    BY DEF SInv, ScanTypeOK, Newlines
  <2>2. /\ Cardinality(Newlines(crnt)) \in Nat /\ Cardinality(Newlines(crnt + 1)) \in Nat
        /\ Cardinality(Newlines(crnt)) <= Cardinality(Newlines(crnt + 1))
        /\ At(crnt) = "newline" =>
             Cardinality(Newlines(crnt)) + 1 <= Cardinality(Newlines(crnt + 1))
    BY <1>3, CountLines
  <2>3. line' \in 1 .. 1 + Cardinality(Newlines(crnt)')
    <3>1. Newlines(crnt)' = Newlines(crnt + 1)
      BY <1>1, <1>2 DEF Newlines
    <3> QED
      BY <1>1, <2>1, <2>2, <3>1
  <2>4. char' \in Chars \cup {"/", "NUL"}
    <3>1. crnt + 1 \in 0 .. Length - 1 \/ crnt + 1 = Length
      BY <1>3
    <3> QED
      BY <1>1, <3>1, Characters
  <2>5. kind' = "calling"
    BY <1>1
  <2> QED
    BY <1>1, <1>2, <1>3, <2>1, <2>3, <2>4, <2>5 DEF ScanTypeOK, Newlines
<1>5. Looking'
  <2>1. crnt' <= Length'
    BY <1>1, <1>2, <1>3, Counters
  <2>2. char' = At(crnt)'
    BY <1>1 DEF At, Length
  <2> QED
    BY <2>1, <2>2 DEF Looking
<1>6. SkipsBlanksOnly'
  <2>1. ASSUME NEW i \in from .. crnt
        PROVE  At(i) \in {"blank", "newline"} \/ Commented(i)
    <3>1. i = crnt \/ i \in from .. crnt - 1
      BY <1>3, <2>1, Counters
    <3> QED
      BY <3>1 DEF SInv, SkipsBlanksOnly
  <2>2. (crnt + 1) - 1 = crnt
    BY <1>3
  <2> QED
    BY <1>1, <1>2, <2>1, <2>2 DEF SkipsBlanksOnly
<1> QED
  BY <1>1, <1>4, <1>5, <1>6 DEF SInv

\* A comment passed over; one that runs on stays where it is.
LEMMA CommentInv ==
  ASSUME SInv, SkipComment
  PROVE  SInv'
<1>1. /\ kind = "calling" /\ char = "/" /\ At(crnt + 1) = "/"
      /\ UNCHANGED <<text, beyond, st, line, char, from, kind>>
      /\ crnt' = LineEnd(crnt)
  BY DEF SkipComment, InComment
<1>2. /\ Length' = Length
      /\ \A j : At(j)' = At(j) /\ Newlines(j)' = Newlines(j) /\ Commented(j)' = Commented(j)
  BY <1>1, SameText
<1>3. crnt \in 0 .. Length /\ Length \in Nat
  BY <1>1, Characters DEF SInv, ScanTypeOK, Looking
<1> DEFINE e == LineEnd(crnt)
<1>4. /\ crnt' = e
      /\ e \in crnt .. Length
      /\ At(e) \in {"newline", "NUL"}
      /\ \A k \in crnt .. e - 1 : At(k) \notin {"newline", "NUL"}
  BY <1>1, <1>3, LineEnds
<1> HIDE DEF e
<1>5. ScanTypeOK'
  <2>1. st \in 0 .. crnt /\ from \in 0 .. crnt /\ line \in 1 .. 1 + Cardinality(Newlines(crnt))
    BY DEF SInv, ScanTypeOK, Newlines
  <2>2. /\ Cardinality(Newlines(crnt)) \in Nat /\ Cardinality(Newlines(e)) \in Nat
        /\ Cardinality(Newlines(crnt)) <= Cardinality(Newlines(e))
    BY <1>3, <1>4, CountLines
  <2>3. line' \in 1 .. 1 + Cardinality(Newlines(crnt)')
    <3>1. Newlines(crnt)' = Newlines(e)
      BY <1>1, <1>2, <1>4 DEF Newlines
    <3> QED
      BY <1>1, <2>1, <2>2, <3>1
  <2>4. char' \in Chars \cup {"/", "NUL"}
    BY <1>1
  <2> QED
    BY <1>1, <1>2, <1>3, <1>4, <2>1, <2>3, <2>4 DEF ScanTypeOK, Newlines
<1>6. Looking'
  <2>1. At(crnt)' = At(e)
    BY <1>1, <1>4 DEF At, Length
  <2> QED
    BY <1>1, <1>2, <1>3, <1>4, <2>1 DEF Looking
<1>7. SkipsBlanksOnly'
  <2>1. ASSUME NEW i \in from .. e - 1
        PROVE  At(i) \in {"blank", "newline"} \/ Commented(i)
    <3>1. from \in 0 .. crnt /\ from \in Nat
      BY Counters DEF SInv, ScanTypeOK
    <3>2. CASE i < crnt
      <4>1. i \in from .. crnt - 1
        BY <1>3, <1>4, <2>1, <3>1, <3>2
      <4> QED
        BY <1>1, <4>1 DEF SInv, SkipsBlanksOnly
    <3>3. CASE crnt <= i
      <4>1. i \in crnt .. e - 1 /\ crnt \in from .. i
        BY <1>3, <1>4, <2>1, <3>1, <3>3, Counters
      <4>2. At(crnt) = "/"
        <5>1. crnt \in crnt .. e - 1
          BY <1>3, <1>4, <4>1, Counters
        <5> QED
          BY <1>1, <1>4, <5>1 DEF SInv, Looking
      <4>3. \A k \in crnt .. i : At(k) # "newline"
        <5> TAKE k \in crnt .. i
        <5>1. k \in crnt .. e - 1
          BY <1>3, <1>4, <4>1, Counters
        <5> QED
          BY <1>4, <5>1
      <4> QED
        BY <1>1, <4>1, <4>2, <4>3 DEF Commented
    <3> QED
      BY <1>3, <1>4, <2>1, <3>1, <3>2, <3>3, Counters
  <2> QED
    BY <1>1, <1>2, <1>4, <2>1 DEF SkipsBlanksOnly
<1> QED
  BY <1>1, <1>5, <1>6, <1>7 DEF SInv

\* A call begins at the character the last one ended before.
LEMMA CallInv ==
  ASSUME SInv, Call
  PROVE  SInv'
<1>1. /\ kind' = "calling" /\ from' = crnt /\ char' = At(crnt) /\ crnt <= Length
      /\ UNCHANGED <<text, beyond, crnt, st, line>>
  BY DEF Call
<1>2. Length' = Length /\ \A j : Newlines(j)' = Newlines(j) /\ At(j)' = At(j)
  BY <1>1, SameText
<1>3. crnt \in Nat /\ Length \in Nat
  BY Characters DEF SInv, ScanTypeOK
<1>4. ScanTypeOK'
  <2>1. st \in 0 .. crnt /\ line \in 1 .. 1 + Cardinality(Newlines(crnt))
    BY DEF SInv, ScanTypeOK, Newlines
  <2>2. line' \in 1 .. 1 + Cardinality(Newlines(crnt)')
    <3>1. Newlines(crnt)' = Newlines(crnt)
      BY <1>1, <1>2 DEF Newlines
    <3> QED
      BY <1>1, <2>1, <3>1
  <2>3. char' \in Chars \cup {"/", "NUL"}
    <3>1. crnt \in 0 .. Length - 1 \/ crnt = Length
      BY <1>1, <1>3
    <3> QED
      BY <1>1, <3>1, Characters
  <2> QED
    BY <1>1, <1>2, <1>3, <2>1, <2>2, <2>3 DEF ScanTypeOK, Newlines
<1>5. Looking'
  BY <1>1, <1>2 DEF Looking, At, Length
<1>6. SkipsBlanksOnly'
  BY <1>1, <1>3 DEF SkipsBlanksOnly
<1> QED
  BY <1>1, <1>4, <1>5, <1>6 DEF SInv

-----------------------------------------------------------------------------
\* Every token takes some of the text, and none of what lies behind the NUL.
LEMMA TokensInv ==
  ASSUME SInv, Eof \/ Number \/ Identifier \/ Single \/ Pair \/ Hash \/ String \/ Unknown
  PROVE  SInv'
<1>0. Length \in Nat
  BY Characters
<1>1. CASE Eof
  <2>1. kind = "calling" /\ crnt \in 0 .. Length /\ Token("EOF", crnt)
    BY <1>1, Beginning DEF Eof
  <2> QED
    BY <1>0, <2>1, TokenInv
<1>2. CASE Number
  <2> DEFINE S == {i \in crnt + 1 .. Length :
                     At(i) # "digit" /\ ~(At(i) = "." /\ At(i + 1) = "digit")}
  <2>1. kind = "calling" /\ crnt \in 0 .. Length /\ crnt < Length
    BY <1>2, Beginning DEF Number
  <2>2. S \in SUBSET Nat /\ Length \in S
    BY <1>0, <2>1, Characters
  <2>3. IF At(Min(S)) = "." THEN Token("ERROR", Min(S) + 1) ELSE Token("NUMBER", Min(S))
    BY <1>2 DEF Number
  <2> HIDE DEF S
  <2>4. Min(S) \in S
    BY <2>2, Minimum
  <2>5. Min(S) \in crnt + 1 .. Length
    BY <2>4 DEF S
  <2>6. At(Min(S)) = "." => Min(S) + 1 <= Length
    BY <1>0, <2>1, <2>5, Characters
  <2> QED
    BY <1>0, <2>1, <2>3, <2>5, <2>6, TokenInv
<1>3. CASE Identifier
  <2> DEFINE S == {i \in crnt + 1 .. Length : At(i) \notin {"letter", "digit"}}
  <2>1. kind = "calling" /\ crnt \in 0 .. Length /\ crnt < Length
    BY <1>3, Beginning DEF Identifier
  <2>2. S \in SUBSET Nat /\ Length \in S
    BY <1>0, <2>1, Characters
  <2>3. Token("IDENTIFIER", Min(S))
    BY <1>3 DEF Identifier
  <2> HIDE DEF S
  <2>4. Min(S) \in S
    BY <2>2, Minimum
  <2>5. Min(S) \in crnt + 1 .. Length
    BY <2>4 DEF S
  <2> QED
    BY <1>0, <2>1, <2>3, <2>5, TokenInv
<1>4. CASE Single
  <2>1. kind = "calling" /\ crnt \in 0 .. Length /\ crnt < Length /\ Token("SINGLE", crnt + 1)
    BY <1>4, Beginning DEF Single
  <2> QED
    BY <1>0, <2>1, TokenInv
<1>5. CASE Pair
  <2>1. /\ kind = "calling" /\ crnt \in 0 .. Length /\ crnt < Length
        /\ Token("PAIR", IF At(crnt + 1) = "=" THEN crnt + 2 ELSE crnt + 1)
    BY <1>5, Beginning DEF Pair
  <2>2. At(crnt + 1) = "=" => crnt + 2 <= Length
    <3>1. crnt + 1 = Length \/ crnt + 2 <= Length
      BY <1>0, <2>1
    <3> QED
      BY <3>1, Characters
  <2>3. CASE At(crnt + 1) = "="
    BY <1>0, <2>1, <2>2, <2>3, TokenInv
  <2>4. CASE At(crnt + 1) # "="
    BY <1>0, <2>1, <2>4, TokenInv
  <2> QED
    BY <2>3, <2>4
<1>6. CASE Hash
  <2>1. /\ kind = "calling" /\ crnt \in 0 .. Length /\ crnt < Length /\ At(crnt) = "#"
        /\ Token(IF At(crnt + 1) \in {"=", "#"} THEN "PAIR" ELSE "ERROR", crnt + 2)
    BY <1>6, Beginning DEF Hash
  <2>2. At(crnt) = text[crnt + 1]
    BY <1>0, <2>1, Characters
  <2>3. crnt + 2 <= Length \/ (crnt + 2 = Length + 1 /\ text[Length] = "#")
    <3>1. CASE crnt + 1 = Length
      BY <1>0, <2>1, <2>2, <3>1
    <3>2. CASE crnt + 1 # Length
      BY <1>0, <2>1, <3>2
    <3> QED
      BY <3>1, <3>2
  <2> QED
    BY <1>0, <2>1, <2>3, TokenInv
<1>7. CASE String
  <2> DEFINE S == {i \in crnt + 1 .. Length : At(i) \in {"quote", "newline", "NUL"}}
             e == Min(S)
  <2>1. kind = "calling" /\ crnt \in 0 .. Length /\ crnt < Length
    BY <1>7, Beginning DEF String
  <2>2. S \in SUBSET Nat /\ Length \in S
    BY <1>0, <2>1, Characters
  <2>3. (CASE At(e) = "quote" -> Token("STRING", e + 1)
           [] At(e) = "newline" -> Token("ERROR", e + 1)
           [] At(e) = "NUL" -> Token("ERROR", e))
    BY <1>7 DEF String
  <2> HIDE DEF S
  <2>4. e \in S
    BY <2>2, Minimum
  <2>5. e \in crnt + 1 .. Length /\ At(e) \in {"quote", "newline", "NUL"}
    BY <2>4 DEF S
  <2> HIDE DEF e
  <2>6. At(e) # "NUL" => e + 1 <= Length
    BY <1>0, <2>1, <2>5, Characters
  <2>7. \/ At(e) # "NUL" /\ (Token("STRING", e + 1) \/ Token("ERROR", e + 1))
        \/ Token("ERROR", e)
    BY <2>3, <2>5
  <2> QED
    BY <1>0, <2>1, <2>5, <2>6, <2>7, TokenInv
<1>8. CASE Unknown
  <2>1. kind = "calling" /\ crnt \in 0 .. Length /\ crnt < Length /\ Token("ERROR", crnt + 1)
    BY <1>8, Beginning DEF Unknown
  <2> QED
    BY <1>0, <2>1, TokenInv
<1> QED
  BY <1>1, <1>2, <1>3, <1>4, <1>5, <1>6, <1>7, <1>8

LEMMA ScannerStep == SInv /\ [ScanNext]_ScanVars => SInv'
<1> SUFFICES ASSUME SInv, [ScanNext]_ScanVars PROVE SInv'
  OBVIOUS
<1>1. CASE Call
  BY <1>1, CallInv
<1>2. CASE SkipBlank \/ SkipNewline
  <2>1. /\ kind = "calling" /\ char \in {"blank", "newline"} /\ At(crnt) = char
        /\ SkipTo(crnt + 1, IF At(crnt) = "newline" THEN line + 1 ELSE line)
    BY <1>2 DEF SkipBlank, SkipNewline, SInv, Looking
  <2> QED
    BY <2>1, SkipInv
<1>3. CASE SkipComment
  BY <1>3, CommentInv
<1>4. CASE Eof \/ Number \/ Identifier \/ Single \/ Pair \/ Hash \/ String \/ Unknown
  BY <1>4, TokensInv
<1>5. CASE UNCHANGED ScanVars
  <2>1. UNCHANGED <<text, beyond, crnt, st, line, char, from, kind>>
    BY <1>5 DEF ScanVars
  <2> QED
    BY <2>1 DEF SInv, ScanTypeOK, Looking, SkipsBlanksOnly, Commented, At, Length
<1> QED
  BY <1>1, <1>2, <1>3, <1>4, <1>5 DEF ScanNext, scgett

LEMMA ScannerInit == ScanInit => SInv
<1> SUFFICES ASSUME ScanInit PROVE SInv
  OBVIOUS
<1>1. text \in Seq(Chars) /\ Length \in Nat
  <2>1. PICK n \in 0 .. MaxLen : text \in [1 .. n -> Chars]
    BY DEF ScanInit
  <2>2. n \in Nat
    BY <2>1, ScannerAssumption
  <2> QED
    BY <2>1, <2>2 DEF Length
<1>2. crnt = 0 /\ st = 0 /\ line = 1 /\ from = 0 /\ char = "NUL" /\ kind = "none"
  BY DEF ScanInit
<1>3. Newlines(0) = {} /\ Cardinality({}) = 0
  BY FS_EmptySet DEF Newlines
<1>4. ScanTypeOK
  BY <1>1, <1>2, <1>3 DEF ScanTypeOK, Newlines
<1> QED
  BY <1>1, <1>2, <1>4 DEF SInv, Looking, SkipsBlanksOnly, ScanInit

THEOREM ScannerInvariant == ScanSpec => []SInv
<1> QED
  BY ScannerInit, ScannerStep, PTL DEF ScanSpec

\* The NUL is never passed except by a text that ends in '#', and no line is
\* counted twice, whatever the text (scanner.c: every loop of scgett).
THEOREM ScannerTypes == ScanSpec => []ScanTypeOK
<1>1. SInv => ScanTypeOK
  BY DEF SInv
<1> QED
  BY <1>1, ScannerInvariant, PTL

\* What a call passes over before its token is blank or in a comment, whatever
\* the text: nothing of it is lost between tokens (the skipping loop of scgett).
THEOREM ScannerSkipsBlanksOnly == ScanSpec => []SkipsBlanksOnly
<1>1. SInv => SkipsBlanksOnly
  BY DEF SInv
<1> QED
  BY <1>1, ScannerInvariant, PTL
=============================================================================
