--------------------------- MODULE ClosuresProofs ---------------------------
(***************************************************************************)
(* What a captured variable is, for every body of a function called        *)
(* outside of functions, however long, however often it is run: an access  *)
(* compiled for a link meets a link, and a variable is one variable.       *)
(*                                                                         *)
(* The invariant has two halves.  CodeInv is what the compiler has put     *)
(* down: constructs lie inside each other, a use comes after a declaration *)
(* that no jump over it can miss.  RunInv is about the machine: which link *)
(* belongs to which variable.                                              *)
(***************************************************************************)
EXTENDS Closures, TLAPS

Accesses == {"LOAD_8", "LOAD_LINK", "PUT_8", "PUT_LINK"}
LinkOps == {"LOAD_LINK", "PUT_LINK"}

Instrs ==
  [op : Accesses \cup {"PUT_8_WITH_POP"}, local : Nat]
    \cup [op : {"DECLARE_FUNCTION"}, caps : Seq(Nat)]
    \cup [op : {"JUMP_IF_FALSE", "JUMP_BACK"}, to : Nat]

Declares(p, i) == code[p].op = "PUT_8_WITH_POP" /\ code[p].local = i
Takes(in, i) == in.op = "DECLARE_FUNCTION" /\ \E k \in DOMAIN in.caps : in.caps[k] = i
Touches(in, i) == (in.op \in Accesses /\ in.local = i) \/ Takes(in, i)
Captures(p, i) == Takes(code[p], i)
Uses(p, i) == Touches(code[p], i)
Skip(b) == code[b].op = "JUMP_IF_FALSE"

CapturedBefore(i, p) == \E q \in 1 .. p - 1 : Captures(q, i)

\* Whatever comes to p has come by d: no construct begun before d ends between the two.
Covers(d, p) ==
  d < p /\ \A b \in DOMAIN code : b < d /\ Skip(b) /\ d < code[b].to => p < code[b].to

\* The constructs of the text inside each other, each jump back to the head of its own.
WellNested ==
  /\ \A b \in DOMAIN code : Skip(b) /\ code[b].to # 0 =>
       /\ b < code[b].to /\ code[b].to <= Len(code) + 1
       /\ \A q \in DOMAIN code : b < q /\ q < code[b].to /\ Skip(q) =>
            code[q].to # 0 /\ code[q].to <= code[b].to
  /\ \A p \in DOMAIN code : code[p].op = "JUMP_BACK" =>
       /\ code[p].to \in 1 .. p - 1
       /\ Skip(code[p].to) /\ code[code[p].to].to = p + 1

\* nest has the constructs without an end.
Opened ==
  /\ \A k \in DOMAIN nest :
       /\ nest[k].at \in DOMAIN code /\ Skip(nest[k].at) /\ code[nest[k].at].to = 0
       /\ nest[k].outer <= Len(locals)
       /\ \A d \in DOMAIN code : \A i \in DOMAIN locals :
            Declares(d, i) /\ i <= nest[k].outer => d < nest[k].at
  /\ \A k, l \in DOMAIN nest : k < l => nest[k].at < nest[l].at
  /\ \A b \in DOMAIN code : Skip(b) /\ code[b].to = 0 => \E k \in DOMAIN nest : nest[k].at = b
  /\ compiled => nest = <<>>

\* A use comes after a declaration, which no jump leads around.
Scoped ==
  /\ \A p \in DOMAIN code : code[p].op = "PUT_8_WITH_POP" => code[p].local \in DOMAIN locals
  /\ \A p \in DOMAIN code : code[p].op \in Accesses => code[p].local \in DOMAIN locals
  /\ \A p \in DOMAIN code : code[p].op = "DECLARE_FUNCTION" =>
       \A k \in DOMAIN code[p].caps : code[p].caps[k] \in DOMAIN locals
  /\ \A p \in DOMAIN code : \A i \in DOMAIN locals : Uses(p, i) =>
       \E d \in DOMAIN code : Declares(d, i) /\ Covers(d, p)
  /\ \A i \in DOMAIN locals : locals[i].live =>
       \E d \in DOMAIN code : Declares(d, i) /\
         \A b \in DOMAIN code : b < d /\ Skip(b) => code[b].to <= d

\* An access is to a link where a capture comes before it.
LinksKnown ==
  /\ \A i \in DOMAIN locals : locals[i].link <=> CapturedBefore(i, Len(code) + 1)
  /\ \A p \in DOMAIN code : code[p].op \in Accesses =>
       (code[p].op \in LinkOps <=> CapturedBefore(code[p].local, p))

CodeTyped ==
  /\ code \in Seq(Instrs)
  /\ locals \in Seq([link : BOOLEAN, live : BOOLEAN]) /\ Len(locals) <= MaxLocals
  /\ nest \in Seq([kind : {"if", "loop"}, at : Nat, outer : Nat])
  /\ compiled \in BOOLEAN

CodeInv == CodeTyped /\ WellNested /\ Opened /\ Scoped /\ LinksKnown

-----------------------------------------------------------------------------
Names == Nat \X Registers
Activations ==
  [offset : {Home}, pc : 1 .. Len(code) + 1,
   var : [DOMAIN locals -> 0 .. Len(vals)], moved : [DOMAIN locals -> BOOLEAN]]

RunTyped ==
  /\ act # <<>> => compiled /\ act \in Activations
  /\ r = [n \in Registers |-> r[n]]
  /\ heap = [h \in DOMAIN heap |-> heap[h]]
  /\ DOMAIN heap \subseteq (1 .. Len(callables)) \X Registers
  /\ callables \in Seq([links : Seq(Names), of : Seq(Nat)])
  /\ \A c \in DOMAIN callables : Len(callables[c].links) = Len(callables[c].of)
  /\ vals \in Seq(Nat) /\ stores \in Nat

\* A variable the activation has, by now.
Has(i) == act # <<>> /\ act.var[i] # 0

\* Where a declaration cannot have been missed there is a variable.
Reached ==
  act # <<>> => \A d \in DOMAIN code : \A i \in DOMAIN locals :
    Declares(d, i) /\ Covers(d, act.pc) => act.var[i] # 0

\* A link and the variable it stands for: those functions hold, and those in registers.
Held ==
  UNION {{<<callables[c].links[k], callables[c].of[k]>> : k \in DOMAIN callables[c].links} :
           c \in DOMAIN callables}
Owned == {<<r[Place(i)].v, act.var[i]>> : i \in {j \in DOMAIN locals : Has(j) /\ act.moved[j]}}
Bonds == Held \cup Owned

\* A variable that has moved is in its register as a link, others are plain.
Tagged == \A i \in DOMAIN locals : Has(i) => r[Place(i)].link = act.moved[i]

Distinct ==
  \A i, j \in DOMAIN locals : Has(i) /\ Has(j) /\ act.var[i] = act.var[j] => i = j

\* A link has the value of its variable, and no other has.
Alike ==
  \A b \in Bonds : b[1] \in DOMAIN heap /\ b[2] \in DOMAIN vals /\ heap[b[1]] = vals[b[2]]
Paired == \A a, b \in Bonds : a[1] = b[1] <=> a[2] = b[2]

\* A variable that has not moved is in its register and nowhere else.
Alone ==
  \A i \in DOMAIN locals : Has(i) /\ ~act.moved[i] =>
    r[Place(i)].v = vals[act.var[i]] /\ \A b \in Bonds : b[2] # act.var[i]

Linked == Tagged /\ Distinct /\ Alike /\ Paired /\ Alone

RunInv == RunTyped /\ Reached /\ Linked

IInv == CodeInv /\ RunInv

-----------------------------------------------------------------------------
(* The text as it grows. *)

LEMMA SeqItems ==
  ASSUME NEW S, NEW s \in Seq(S)
  PROVE  /\ Len(s) \in Nat /\ DOMAIN s = 1 .. Len(s)
         /\ \A i \in DOMAIN s : s[i] \in S
OBVIOUS

LEMMA SeqOfItems ==
  ASSUME NEW S, NEW m \in Nat, NEW f \in [1 .. m -> S]
  PROVE  f \in Seq(S) /\ Len(f) = m
OBVIOUS

LEMMA InstrTypes ==
  ASSUME NEW in \in Instrs
  PROVE  /\ in.op \in Accesses \cup {"PUT_8_WITH_POP"} => in.local \in Nat
         /\ in.op = "DECLARE_FUNCTION" => in.caps \in Seq(Nat)
         /\ in.op \in {"JUMP_IF_FALSE", "JUMP_BACK"} => in.to \in Nat
         /\ in.op \in Accesses \cup {"PUT_8_WITH_POP", "DECLARE_FUNCTION", "JUMP_IF_FALSE", "JUMP_BACK"}
BY DEF Instrs, Accesses

\* An instruction is put behind the others.
LEMMA Growth ==
  ASSUME code \in Seq(Instrs), NEW instr \in Instrs, code' = Append(code, instr)
  PROVE  /\ code' \in Seq(Instrs) /\ Len(code) \in Nat /\ Len(code') = Len(code) + 1
         /\ DOMAIN code = 1 .. Len(code) /\ DOMAIN code' = 1 .. Len(code) + 1
         /\ code'[Len(code) + 1] = instr
         /\ \A p \in DOMAIN code : p # Len(code) + 1 /\ code'[p] = code[p]
OBVIOUS

\* The instructions there are keep what they do.
LEMMA Kept ==
  ASSUME \A p \in DOMAIN code : code'[p] = code[p]
  PROVE  \A p \in DOMAIN code :
           /\ \A i : (Declares(p, i))' <=> Declares(p, i)
           /\ \A i : (Captures(p, i))' <=> Captures(p, i)
           /\ \A i : (Uses(p, i))' <=> Uses(p, i)
           /\ (Skip(p))' <=> Skip(p)
BY DEF Declares, Captures, Uses, Skip

\* Nor is the way between two of them another.
LEMMA KeptCovers ==
  ASSUME code \in Seq(Instrs), NEW instr \in Instrs, code' = Append(code, instr),
         NEW d \in DOMAIN code, NEW p \in DOMAIN code, Covers(d, p)
  PROVE  (Covers(d, p))'
<1>1. \A b \in DOMAIN code' : b < d => b \in DOMAIN code /\ code'[b] = code[b]
  BY Growth
<1>2. QED  BY <1>1 DEF Covers, Skip

LEMMA KeptNested ==
  ASSUME code \in Seq(Instrs), NEW instr \in Instrs, code' = Append(code, instr), WellNested,
         instr.op # "JUMP_BACK", instr.op = "JUMP_IF_FALSE" => instr.to = 0
  PROVE  WellNested'
<1> DEFINE n == Len(code) + 1
<1>g. /\ n \in Nat /\ Len(code') = n /\ DOMAIN code = 1 .. n - 1 /\ DOMAIN code' = 1 .. n
      /\ code'[n] = instr /\ \A p \in DOMAIN code : p # n /\ code'[p] = code[p]
  BY Growth
<1>1. ASSUME NEW b \in DOMAIN code', (Skip(b))', code'[b].to # 0
      PROVE  /\ b < code'[b].to /\ code'[b].to <= Len(code') + 1
             /\ \A q \in DOMAIN code' : b < q /\ q < code'[b].to /\ (Skip(q))' =>
                  code'[q].to # 0 /\ code'[q].to <= code'[b].to
  <2>1. b \in DOMAIN code /\ code'[b] = code[b] /\ Skip(b)
    BY <1>1, <1>g DEF Skip
  <2>2. code[b].to \in Nat
    <3>1. code[b] \in Instrs
      BY <2>1
    <3>2. QED  BY <3>1, <2>1, InstrTypes DEF Skip
  <2>3. b < code[b].to /\ code[b].to <= n
    BY <1>1, <2>1, <2>2, <1>g DEF WellNested
  <2>4. ASSUME NEW q \in DOMAIN code', b < q, q < code'[b].to, (Skip(q))'
        PROVE  code'[q].to # 0 /\ code'[q].to <= code'[b].to
    <3>1. q \in DOMAIN code /\ code'[q] = code[q]
      BY <2>1, <2>2, <2>3, <2>4, <1>g
    <3>2. Skip(q)
      BY <3>1, <2>4 DEF Skip
    <3>3. QED  BY <3>1, <3>2, <1>1, <2>1, <2>4 DEF WellNested
  <2>5. QED  BY <2>1, <2>2, <2>3, <2>4, <1>g
<1>2. ASSUME NEW p \in DOMAIN code', code'[p].op = "JUMP_BACK"
      PROVE  /\ code'[p].to \in 1 .. p - 1
             /\ (Skip(code[p].to))' /\ code'[p] = code[p] /\ code'[code[p].to].to = p + 1
  <2>1. p \in DOMAIN code /\ code'[p] = code[p]
    BY <1>2, <1>g
  <2>2. code[p].to \in 1 .. p - 1 /\ Skip(code[p].to) /\ code[code[p].to].to = p + 1
    BY <1>2, <2>1 DEF WellNested
  <2>3. code[p].to \in DOMAIN code
    BY <2>1, <2>2, <1>g
  <2>4. QED  BY <2>1, <2>2, <2>3, <1>g DEF Skip
<1>3. QED  BY <1>1, <1>2 DEF WellNested, Skip

LEMMA KeptCaptured ==
  ASSUME \A p \in 1 .. Len(code) : code'[p].op = code[p].op,
         \A p \in 1 .. Len(code) : code[p].op = "DECLARE_FUNCTION" => code'[p] = code[p],
         Len(code) \in Nat,
         NEW p \in 1 .. Len(code) + 1, NEW i
  PROVE  (CapturedBefore(i, p))' <=> CapturedBefore(i, p)
BY DEF CapturedBefore, Captures, Takes

\* What a new instruction has to have for uses to stay behind declarations.
LEMMA EmittedScoped ==
  ASSUME CodeInv, NEW instr \in Instrs, code' = Append(code, instr),
         DOMAIN locals \subseteq DOMAIN locals',
         instr.op = "PUT_8_WITH_POP" => instr.local \in DOMAIN locals',
         \A i : Touches(instr, i) => i \in DOMAIN locals /\ locals[i].live,
         \A i \in DOMAIN locals' : locals'[i].live =>
           \/ i \in DOMAIN locals /\ locals[i].live
           \/ instr.op = "PUT_8_WITH_POP" /\ instr.local = i
  PROVE  Scoped'
<1>0. PICK n : n = Len(code) + 1
  OBVIOUS
<1>g. /\ n \in Nat /\ n = Len(code) + 1 /\ Len(code') = n /\ DOMAIN code = 1 .. n - 1 /\ DOMAIN code' = 1 .. n
      /\ code'[n] = instr /\ \A p \in DOMAIN code : p # n /\ code'[p] = code[p]
  BY <1>0, Growth DEF CodeInv, CodeTyped
<1>k. /\ \A p \in DOMAIN code : \A i : (Declares(p, i))' <=> Declares(p, i)
      /\ \A p \in DOMAIN code : \A i : (Uses(p, i))' <=> Uses(p, i)
      /\ \A p \in DOMAIN code : (Skip(p))' <=> Skip(p)
  BY <1>g, Kept
<1>s. Scoped /\ code \in Seq(Instrs)
  BY DEF CodeInv, CodeTyped
<1>d. \A p \in DOMAIN code' : p = n \/ p \in DOMAIN code
  BY <1>g
<1>1. \A p \in DOMAIN code' : code'[p].op = "PUT_8_WITH_POP" => code'[p].local \in DOMAIN locals'
  BY <1>g, <1>d, <1>s DEF Scoped
<1>2. \A p \in DOMAIN code' : code'[p].op \in Accesses => code'[p].local \in DOMAIN locals'
  BY <1>g, <1>d, <1>s DEF Scoped, Touches
<1>3. \A p \in DOMAIN code' : code'[p].op = "DECLARE_FUNCTION" =>
        \A k \in DOMAIN code'[p].caps : code'[p].caps[k] \in DOMAIN locals'
  BY <1>g, <1>d, <1>s DEF Scoped, Touches, Takes
<1>4. ASSUME NEW i \in DOMAIN locals, locals[i].live
      PROVE  \E d \in DOMAIN code : Declares(d, i) /\
               \A b \in DOMAIN code : b < d /\ Skip(b) => code[b].to <= d
  BY <1>4, <1>s DEF Scoped
<1>5. ASSUME NEW p \in DOMAIN code', NEW i \in DOMAIN locals', (Uses(p, i))'
      PROVE  \E d \in DOMAIN code' : (Declares(d, i) /\ Covers(d, p))'
  <2>1. CASE p \in DOMAIN code
    <3>1. Uses(p, i)
      BY <2>1, <1>5, <1>k
    <3>2. i \in DOMAIN locals
      BY <3>1, <2>1, <1>s DEF Scoped, Uses, Touches, Takes
    <3>3. PICK d \in DOMAIN code : Declares(d, i) /\ Covers(d, p)
      BY <3>1, <3>2, <2>1, <1>s DEF Scoped
    <3>4. (Covers(d, p))'
      BY <3>3, <2>1, <1>s, KeptCovers
    <3>5. QED  BY <3>3, <3>4, <1>k, <1>g
  <2>2. CASE p = n
    <3>1. Touches(instr, i)
      BY <2>2, <1>5, <1>g DEF Uses
    <3>2. i \in DOMAIN locals /\ locals[i].live
      BY <3>1
    <3>3. PICK d \in DOMAIN code : Declares(d, i) /\
                \A b \in DOMAIN code : b < d /\ Skip(b) => code[b].to <= d
      BY <3>2, <1>4
    <3>4. ASSUME NEW b \in DOMAIN code', b < d, (Skip(b))', d < code'[b].to
          PROVE  FALSE
      <4>1. b \in DOMAIN code /\ Skip(b) /\ code'[b] = code[b]
        BY <3>4, <1>g, <1>k
      <4>2. code[b].to \in Nat
        <5>1. code[b] \in Instrs
          BY <4>1, <1>s
        <5>2. QED  BY <5>1, <4>1, InstrTypes DEF Skip
      <4>3. QED  BY <4>1, <4>2, <3>3, <3>4, <1>g
    <3>5. (Covers(d, p))'
      BY <3>4, <2>2, <1>g DEF Covers
    <3>6. QED  BY <3>3, <3>5, <1>k, <1>g
  <2>3. QED  BY <2>1, <2>2, <1>d
<1>6. ASSUME NEW i \in DOMAIN locals', locals'[i].live
      PROVE  \E d \in DOMAIN code' : (Declares(d, i))' /\
               \A b \in DOMAIN code' : b < d /\ (Skip(b))' => code'[b].to <= d
  <2>1. CASE i \in DOMAIN locals /\ locals[i].live
    <3>1. PICK d \in DOMAIN code : Declares(d, i) /\
                 \A b \in DOMAIN code : b < d /\ Skip(b) => code[b].to <= d
      BY <2>1, <1>4
    <3>2. \A b \in DOMAIN code' : b < d => b \in DOMAIN code
      BY <1>g
    <3>3. QED  BY <3>1, <3>2, <1>k, <1>g
  <2>2. CASE instr.op = "PUT_8_WITH_POP" /\ instr.local = i
    <3>1. (Declares(n, i))'
      BY <2>2, <1>g DEF Declares
    <3>2. ASSUME NEW b \in DOMAIN code', b < n, (Skip(b))'
          PROVE  code'[b].to <= n
      <4>1. b \in DOMAIN code /\ Skip(b) /\ code'[b] = code[b]
        BY <3>2, <1>g, <1>k
      <4>2. code[b].to = 0 \/ code[b].to <= n
        BY <4>1, <1>0 DEF CodeInv, WellNested
      <4>3. QED  BY <4>1, <4>2, <1>g
    <3>3. QED  BY <3>1, <3>2, <1>g
  <2>3. QED  BY <2>1, <2>2, <1>6
<1>7. QED  BY <1>1, <1>2, <1>3, <1>5, <1>6 DEF Scoped

\* And for accesses to be to links behind captures.
LEMMA EmittedLinks ==
  ASSUME CodeInv, NEW instr \in Instrs, code' = Append(code, instr),
         \A i : Touches(instr, i) => i \in DOMAIN locals,
         \A i \in DOMAIN locals' : locals'[i].link <=>
           (i \in DOMAIN locals /\ locals[i].link) \/ Takes(instr, i),
         instr.op \in Accesses => (instr.op \in LinkOps <=> locals[instr.local].link)
  PROVE  LinksKnown'
<1>0. PICK n : n = Len(code) + 1
  OBVIOUS
<1>g. /\ n \in Nat /\ n = Len(code) + 1 /\ Len(code') = n /\ DOMAIN code = 1 .. n - 1 /\ DOMAIN code' = 1 .. n
      /\ code'[n] = instr /\ \A p \in DOMAIN code : p # n /\ code'[p] = code[p]
  BY <1>0, Growth DEF CodeInv, CodeTyped
<1>k. \A p \in 1 .. n : \A i : (CapturedBefore(i, p))' <=> CapturedBefore(i, p)
  BY <1>g, KeptCaptured
<1>s. Scoped /\ LinksKnown
  BY DEF CodeInv
<1>d. \A p \in DOMAIN code' : p = n \/ p \in DOMAIN code
  BY <1>g
<1>1. ASSUME NEW i
      PROVE  (CapturedBefore(i, n + 1))' <=> CapturedBefore(i, n) \/ Takes(instr, i)
  <2>1. (CapturedBefore(i, n + 1))' <=> \E q \in 1 .. n : (Captures(q, i))'
    BY <1>g DEF CapturedBefore
  <2>2. (CapturedBefore(i, n))' <=> \E q \in 1 .. n - 1 : (Captures(q, i))'
    BY <1>g DEF CapturedBefore
  <2>3. (Captures(n, i))' <=> Takes(instr, i)
    BY <1>g DEF Captures
  <2>4. \A q \in 1 .. n : q = n \/ q \in 1 .. n - 1
    BY <1>g
  <2>5. n \in 1 .. n /\ 1 .. n - 1 \subseteq 1 .. n
    BY <1>g
  <2>6. (CapturedBefore(i, n))' <=> CapturedBefore(i, n)
    BY <1>k, <2>5
  <2>7. QED  BY <2>1, <2>2, <2>3, <2>4, <2>5, <2>6
<1>2. ASSUME NEW i, CapturedBefore(i, n)
      PROVE  i \in DOMAIN locals
  <2>1. PICK q \in DOMAIN code : Captures(q, i)
    BY <1>2, <1>g DEF CapturedBefore
  <2>2. QED  BY <2>1, <1>s DEF Scoped, Captures, Takes
<1>3. \A i \in DOMAIN locals' : locals'[i].link <=> (CapturedBefore(i, n + 1))'
  BY <1>0, <1>1, <1>2, <1>s DEF LinksKnown
<1>4. ASSUME NEW p \in DOMAIN code', code'[p].op \in Accesses
      PROVE  code'[p].op \in LinkOps <=> (CapturedBefore(code[p].local, p))'
  <2>1. CASE p \in DOMAIN code
    <3>1. code[p].op \in LinkOps <=> CapturedBefore(code[p].local, p)
      BY <2>1, <1>4, <1>s, <1>g DEF LinksKnown
    <3>2. (CapturedBefore(code[p].local, p))' <=> CapturedBefore(code[p].local, p)
      BY <2>1, <1>g, <1>k DEF CapturedBefore
    <3>3. QED  BY <3>1, <3>2, <2>1, <1>g
  <2>2. CASE p = n
    <3>1. instr.local \in DOMAIN locals
      BY <2>2, <1>4, <1>g DEF Touches
    <3>2. locals[instr.local].link <=> CapturedBefore(instr.local, n)
      BY <3>1, <1>0, <1>s DEF LinksKnown
    <3>3. (CapturedBefore(instr.local, n)) <=> (CapturedBefore(code[p].local, p))'
      BY <2>2, <1>g, <1>k DEF CapturedBefore
    <3>4. QED  BY <3>2, <3>3, <2>2, <1>4, <1>g
  <2>3. QED  BY <2>1, <2>2, <1>d
<1>5. QED  BY <1>3, <1>4, <1>g DEF LinksKnown

LEMMA LocalsTypes ==
  ASSUME CodeTyped
  PROVE  /\ Len(locals) \in Nat /\ DOMAIN locals = 1 .. Len(locals)
         /\ \A i \in DOMAIN locals : locals[i] \in [link : BOOLEAN, live : BOOLEAN]
<1>1. locals \in Seq([link : BOOLEAN, live : BOOLEAN])
  BY DEF CodeTyped
<1>2. QED  BY <1>1, SeqItems

LEMMA NestTypes ==
  ASSUME CodeTyped
  PROVE  /\ Len(nest) \in Nat /\ DOMAIN nest = 1 .. Len(nest)
         /\ \A k \in DOMAIN nest : nest[k].at \in Nat /\ nest[k].outer \in Nat
<1>1. nest \in Seq([kind : {"if", "loop"}, at : Nat, outer : Nat])
  BY DEF CodeTyped
<1>2. \A k \in DOMAIN nest : nest[k] \in [kind : {"if", "loop"}, at : Nat, outer : Nat]
  BY <1>1, SeqItems
<1>3. QED  BY <1>1, <1>2, SeqItems

\* What is put down outside of a construct's beginning leaves the constructs as they are.
LEMMA EmittedOpened ==
  ASSUME CodeInv, NEW instr \in Instrs, code' = Append(code, instr), ~compiled',
         nest' = nest, instr.op # "JUMP_IF_FALSE", locals' \in Seq([link : BOOLEAN, live : BOOLEAN]),
         Len(locals) <= Len(locals'),
         instr.op = "PUT_8_WITH_POP" => instr.local > Len(locals)
  PROVE  Opened'
<1>1. /\ Len(code) \in Nat /\ DOMAIN code = 1 .. Len(code) /\ DOMAIN code' = 1 .. Len(code) + 1
      /\ code'[Len(code) + 1] = instr /\ \A p \in DOMAIN code : code'[p] = code[p]
  BY Growth DEF CodeInv, CodeTyped
<1>2. Opened
  BY DEF CodeInv
<1>3. /\ Len(locals) \in Nat /\ DOMAIN locals = 1 .. Len(locals)
      /\ Len(locals') \in Nat /\ DOMAIN locals' = 1 .. Len(locals')
  BY DEF CodeInv, CodeTyped
<1>4. ASSUME NEW k \in DOMAIN nest
      PROVE  /\ nest[k].at \in DOMAIN code' /\ (Skip(nest[k].at))' /\ code'[nest[k].at].to = 0
             /\ nest[k].outer <= Len(locals')
             /\ \A d \in DOMAIN code' : \A i \in DOMAIN locals' :
                  (Declares(d, i))' /\ i <= nest[k].outer => d < nest[k].at
  <2>1. /\ nest[k].at \in DOMAIN code /\ Skip(nest[k].at) /\ code[nest[k].at].to = 0
        /\ nest[k].outer <= Len(locals)
        /\ \A d \in DOMAIN code : \A i \in DOMAIN locals :
             Declares(d, i) /\ i <= nest[k].outer => d < nest[k].at
    BY <1>2 DEF Opened
  <2>2. nest[k].outer \in Nat
    BY NestTypes DEF CodeInv
  <2>3. ASSUME NEW d \in DOMAIN code', NEW i \in DOMAIN locals', (Declares(d, i))', i <= nest[k].outer
        PROVE  d < nest[k].at
    <3>1. i \in DOMAIN locals
      BY <2>1, <2>2, <2>3, <1>3
    <3>2. d # Len(code) + 1
      BY <3>1, <2>3, <1>1, <1>3 DEF Declares
    <3>3. d \in DOMAIN code /\ Declares(d, i)
      BY <3>2, <2>3, <1>1 DEF Declares
    <3>4. QED  BY <3>1, <3>3, <2>1, <2>3
  <2>4. (nest[k].at)' = nest[k].at
    OBVIOUS
  <2>5. (Skip(nest[k].at))'
    BY <2>1, <2>4, <1>1 DEF Skip
  <2>6. QED  BY <2>1, <2>2, <2>3, <2>5, <1>1, <1>3
<1>5. ASSUME NEW b \in DOMAIN code', (Skip(b))', code'[b].to = 0
      PROVE  \E k \in DOMAIN nest : nest[k].at = b
  <2>1. b # Len(code) + 1
    BY <1>5, <1>1 DEF Skip
  <2>2. b \in DOMAIN code /\ Skip(b) /\ code[b].to = 0
    BY <2>1, <1>5, <1>1 DEF Skip
  <2>3. QED  BY <2>2, <1>2 DEF Opened
<1>6. \A k, l \in DOMAIN nest : k < l => nest[k].at < nest[l].at
  BY <1>2 DEF Opened
<1>7. QED  BY <1>4, <1>5, <1>6 DEF Opened

LEMMA DeclareKeeps == CodeInv /\ Declare => CodeInv'
<1> SUFFICES ASSUME CodeInv, Declare PROVE CodeInv'
  OBVIOUS
<1> DEFINE instr == [op |-> "PUT_8_WITH_POP", local |-> Len(locals) + 1]
           new == [link |-> FALSE, live |-> TRUE]
<1>1. /\ code' = Append(code, instr) /\ locals' = Append(locals, new)
      /\ nest' = nest /\ ~compiled /\ compiled' = compiled /\ Len(locals) < MaxLocals
  BY DEF Declare, Emits
<1>2. /\ Len(locals) \in Nat /\ DOMAIN locals = 1 .. Len(locals)
      /\ \A i \in DOMAIN locals : locals[i] \in [link : BOOLEAN, live : BOOLEAN]
  BY LocalsTypes DEF CodeInv
<1>3. instr \in Instrs
  BY <1>2 DEF Instrs
<1>4. locals \in Seq([link : BOOLEAN, live : BOOLEAN]) /\ code \in Seq(Instrs)
  BY DEF CodeInv, CodeTyped
<1>5. /\ locals' \in Seq([link : BOOLEAN, live : BOOLEAN]) /\ Len(locals') = Len(locals) + 1
      /\ DOMAIN locals' = 1 .. Len(locals) + 1 /\ locals'[Len(locals) + 1] = new
      /\ \A i \in DOMAIN locals : locals'[i] = locals[i]
  BY <1>1, <1>4
<1>6. ~Takes(instr, 0) /\ instr.op = "PUT_8_WITH_POP" /\ instr.local = Len(locals) + 1
  BY DEF Takes
<1>7. \A i : ~Touches(instr, i) /\ ~Takes(instr, i)
  BY DEF Touches, Takes, Accesses
<1> HIDE DEF instr
<1>8. Len(locals') <= MaxLocals
  BY <1>1, <1>2, <1>5, ClosureAssumption
<1>9. CodeTyped'
  BY <1>1, <1>3, <1>4, <1>5, <1>8, Growth DEF CodeInv, CodeTyped
<1>10. WellNested'
  BY <1>1, <1>3, <1>4, <1>6, KeptNested DEF CodeInv
<1>11. Opened'
  <2>1. instr.local > Len(locals) /\ Len(locals) <= Len(locals') /\ ~compiled'
    BY <1>1, <1>2, <1>5, <1>6
  <2>2. QED  BY <2>1, <1>1, <1>3, <1>5, <1>6, EmittedOpened
<1>12. \A i \in DOMAIN locals' : i \in DOMAIN locals \/ i = Len(locals) + 1
  BY <1>2, <1>5
<1>13. Len(locals) + 1 \notin DOMAIN locals
  BY <1>2
<1>14. Scoped'
  <2>1. DOMAIN locals \subseteq DOMAIN locals' /\ instr.local \in DOMAIN locals'
    BY <1>2, <1>5, <1>6
  <2>2. \A i \in DOMAIN locals' : locals'[i].live =>
           \/ i \in DOMAIN locals /\ locals[i].live
           \/ instr.op = "PUT_8_WITH_POP" /\ instr.local = i
    BY <1>5, <1>6, <1>12
  <2>3. QED  BY <2>1, <2>2, <1>1, <1>3, <1>7, EmittedScoped
<1>15. LinksKnown'
  <2>1. instr.op \notin Accesses
    BY <1>6 DEF Accesses
  <2>2. \A i \in DOMAIN locals' : locals'[i].link <=>
           (i \in DOMAIN locals /\ locals[i].link) \/ Takes(instr, i)
    BY <1>5, <1>7, <1>12, <1>13
  <2>3. QED  BY <2>1, <2>2, <1>1, <1>3, <1>7, EmittedLinks
<1>16. QED  BY <1>9, <1>10, <1>11, <1>14, <1>15 DEF CodeInv

\* A load or an assignment.
LEMMA AccessKeeps ==
  ASSUME CodeInv, NEW op \in Accesses, NEW i \in DOMAIN locals, locals[i].live,
         op \in LinkOps <=> locals[i].link,
         Emits([op |-> op, local |-> i]), UNCHANGED <<locals, nest>>
  PROVE  CodeInv'
<1> DEFINE instr == [op |-> op, local |-> i]
<1>1. /\ code' = Append(code, instr) /\ locals' = locals
      /\ nest' = nest /\ ~compiled /\ compiled' = compiled
  BY DEF Emits
<1>2. /\ Len(locals) \in Nat /\ DOMAIN locals = 1 .. Len(locals)
      /\ locals \in Seq([link : BOOLEAN, live : BOOLEAN]) /\ code \in Seq(Instrs)
  BY LocalsTypes DEF CodeInv, CodeTyped
<1>3. instr \in Instrs
  BY <1>2 DEF Instrs
<1>4. instr.op = op /\ instr.local = i
  OBVIOUS
<1> HIDE DEF instr
<1>5. /\ op # "JUMP_BACK" /\ op # "JUMP_IF_FALSE" /\ op # "PUT_8_WITH_POP"
      /\ op # "DECLARE_FUNCTION"
  BY DEF Accesses
<1>6. \A j : ~Takes(instr, j) /\ (Touches(instr, j) => j = i)
  BY <1>4, <1>5 DEF Takes, Touches
<1>7. CodeTyped'
  BY <1>1, <1>2, <1>3, Growth DEF CodeInv, CodeTyped
<1>8. WellNested'
  BY <1>1, <1>2, <1>3, <1>4, <1>5, KeptNested DEF CodeInv
<1>9. Opened'
  BY <1>1, <1>2, <1>3, <1>4, <1>5, EmittedOpened
<1>10. Scoped'
  BY <1>1, <1>3, <1>4, <1>5, <1>6, EmittedScoped
<1>11. LinksKnown'
  BY <1>1, <1>3, <1>4, <1>6, EmittedLinks
<1>12. QED  BY <1>7, <1>8, <1>9, <1>10, <1>11 DEF CodeInv

LEMMA LoadKeeps == CodeInv /\ Load => CodeInv'
<1> SUFFICES ASSUME CodeInv, Load PROVE CodeInv'
  OBVIOUS
<1>1. PICK i \in Usable : /\ Emits([op |-> IF locals[i].link THEN "LOAD_LINK" ELSE "LOAD_8", local |-> i])
                          /\ UNCHANGED <<locals, nest>>
  BY DEF Load
<1>2. PICK op : op = IF locals[i].link THEN "LOAD_LINK" ELSE "LOAD_8"
  OBVIOUS
<1>3. op \in Accesses /\ (op \in LinkOps <=> locals[i].link)
  BY <1>2 DEF Accesses, LinkOps
<1>4. i \in DOMAIN locals /\ locals[i].live
  BY DEF Usable
<1>5. Emits([op |-> op, local |-> i])
  BY <1>1, <1>2
<1>6. QED  BY <1>1, <1>3, <1>4, <1>5, AccessKeeps

LEMMA AssignKeeps == CodeInv /\ Assign => CodeInv'
<1> SUFFICES ASSUME CodeInv, Assign PROVE CodeInv'
  OBVIOUS
<1>1. PICK i \in Usable : /\ Emits([op |-> IF locals[i].link THEN "PUT_LINK" ELSE "PUT_8", local |-> i])
                          /\ UNCHANGED <<locals, nest>>
  BY DEF Assign
<1>2. PICK op : op = IF locals[i].link THEN "PUT_LINK" ELSE "PUT_8"
  OBVIOUS
<1>3. op \in Accesses /\ (op \in LinkOps <=> locals[i].link)
  BY <1>2 DEF Accesses, LinkOps
<1>4. i \in DOMAIN locals /\ locals[i].live
  BY DEF Usable
<1>5. Emits([op |-> op, local |-> i])
  BY <1>1, <1>2
<1>6. QED  BY <1>1, <1>3, <1>4, <1>5, AccessKeeps

LEMMA SameLocals ==
  ASSUME Len(locals) \in Nat, locals' \in [1 .. Len(locals) -> [link : BOOLEAN, live : BOOLEAN]]
  PROVE  locals' \in Seq([link : BOOLEAN, live : BOOLEAN]) /\ Len(locals') = Len(locals)
<1>1. PICK m : m = Len(locals)
  OBVIOUS
<1>2. PICK S : S = [link : BOOLEAN, live : BOOLEAN]
  OBVIOUS
<1>3. m \in Nat /\ locals' \in [1 .. m -> S]
  BY <1>1, <1>2
<1>4. QED  BY <1>1, <1>2, <1>3, SeqOfItems

LEMMA CaptureKeeps == CodeInv /\ Capture => CodeInv'
<1> SUFFICES ASSUME CodeInv, Capture PROVE CodeInv'
  OBVIOUS
<1>1. PICK caps \in {<<i>> : i \in Usable} \cup {<<i, j>> : i, j \in Usable} :
        /\ Emits([op |-> "DECLARE_FUNCTION", caps |-> caps])
        /\ locals' = Captured(caps) /\ nest' = nest
  BY DEF Capture
<1>2. /\ Len(locals) \in Nat /\ DOMAIN locals = 1 .. Len(locals)
      /\ \A i \in DOMAIN locals : locals[i] \in [link : BOOLEAN, live : BOOLEAN]
  BY LocalsTypes DEF CodeInv
<1>3. Usable \subseteq Nat /\ Usable \subseteq DOMAIN locals /\ \A i \in Usable : locals[i].live
  BY <1>2 DEF Usable
<1>4. caps \in Seq(Nat) /\ \A k \in DOMAIN caps : caps[k] \in Usable
  <2>1. CASE caps \in {<<i>> : i \in Usable}
    <3>1. PICK i \in Usable : caps = <<i>>
      BY <2>1
    <3>2. QED  BY <3>1, <1>3
  <2>2. CASE caps \in {<<i, j>> : i, j \in Usable}
    <3>1. PICK i \in Usable, j \in Usable : caps = <<i, j>>
      BY <2>2
    <3>2. caps \in Seq(Nat) /\ DOMAIN caps = {1, 2} /\ caps[1] = i /\ caps[2] = j
      BY <3>1, <1>3
    <3>3. QED  BY <3>2
  <2>3. QED  BY <2>1, <2>2, <1>1
<1> DEFINE instr == [op |-> "DECLARE_FUNCTION", caps |-> caps]
<1>5. instr \in Instrs
  BY <1>4 DEF Instrs
<1>6. instr.op = "DECLARE_FUNCTION" /\ instr.caps = caps
  OBVIOUS
<1>7. code' = Append(code, instr) /\ ~compiled /\ compiled' = compiled
  BY <1>1 DEF Emits
<1> HIDE DEF instr
<1>8. code \in Seq(Instrs) /\ Len(locals) <= MaxLocals
  BY DEF CodeInv, CodeTyped
<1>9. \A i : Takes(instr, i) <=> \E k \in DOMAIN caps : caps[k] = i
  BY <1>6 DEF Takes
<1>10. \A i : Touches(instr, i) => i \in DOMAIN locals /\ locals[i].live
  BY <1>3, <1>4, <1>6, <1>9 DEF Touches, Accesses
<1>11. /\ locals' = [i \in DOMAIN locals |-> locals'[i]]
       /\ \A i \in DOMAIN locals :
            /\ locals'[i] \in [link : BOOLEAN, live : BOOLEAN]
            /\ locals'[i].live = locals[i].live
            /\ locals'[i].link <=> locals[i].link \/ Takes(instr, i)
  <2>1. locals' = [i \in DOMAIN locals |->
                     [locals[i] EXCEPT !.link = @ \/ \E k \in DOMAIN caps : caps[k] = i]]
    BY <1>1 DEF Captured
  <2>2. ASSUME NEW i \in DOMAIN locals
        PROVE  /\ locals'[i] \in [link : BOOLEAN, live : BOOLEAN]
               /\ locals'[i].live = locals[i].live
               /\ locals'[i].link <=> locals[i].link \/ Takes(instr, i)
    <3>1. PICK t : t = Takes(instr, i)
      OBVIOUS
    <3>2. t \in BOOLEAN
      BY <3>1 DEF Takes
    <3>3. locals'[i] = [locals[i] EXCEPT !.link = locals[i].link \/ t]
      BY <2>1, <3>1, <1>9
    <3>4. locals[i] \in [link : BOOLEAN, live : BOOLEAN]
      BY <1>2
    <3>5. QED  BY <3>1, <3>2, <3>3, <3>4
  <2>3. QED  BY <2>1, <2>2
<1>12. DOMAIN locals' = DOMAIN locals
  BY <1>11
<1>13. locals' \in Seq([link : BOOLEAN, live : BOOLEAN]) /\ Len(locals') = Len(locals)
  <2>1. locals' \in [1 .. Len(locals) -> [link : BOOLEAN, live : BOOLEAN]]
    BY <1>2, <1>11
  <2>2. QED  BY <2>1, <1>2, SameLocals
<1>14. CodeTyped'
  BY <1>1, <1>5, <1>7, <1>8, <1>13, Growth DEF CodeInv, CodeTyped
<1>15. WellNested'
  BY <1>5, <1>6, <1>7, <1>8, KeptNested DEF CodeInv
<1>16. Opened'
  BY <1>1, <1>2, <1>5, <1>6, <1>7, <1>13, EmittedOpened
<1>17. Scoped'
  BY <1>5, <1>6, <1>7, <1>10, <1>11, <1>12, EmittedScoped
<1>18. LinksKnown'
  <2>1. instr.op \notin Accesses
    BY <1>6 DEF Accesses
  <2>2. QED  BY <2>1, <1>5, <1>7, <1>10, <1>11, <1>12, EmittedLinks
<1>19. QED  BY <1>14, <1>15, <1>16, <1>17, <1>18 DEF CodeInv

LEMMA BeginKeeps == CodeInv /\ Begin => CodeInv'
<1> SUFFICES ASSUME CodeInv, Begin PROVE CodeInv'
  OBVIOUS
<1> DEFINE instr == [op |-> "JUMP_IF_FALSE", to |-> 0]
<1>0. PICK n : n = Len(code) + 1
  OBVIOUS
<1>1. PICK kind \in {"if", "loop"} :
        /\ Emits(instr) /\ locals' = locals
        /\ nest' = Append(nest, [kind |-> kind, at |-> n, outer |-> Len(locals)])
  BY <1>0 DEF Begin
<1> DEFINE new == [kind |-> kind, at |-> n, outer |-> Len(locals)]
<1>2. code' = Append(code, instr) /\ ~compiled /\ compiled' = compiled
  BY <1>1 DEF Emits
<1>3. instr \in Instrs /\ instr.op = "JUMP_IF_FALSE" /\ instr.to = 0
  BY DEF Instrs
<1> HIDE DEF instr
<1>4. /\ Len(locals) \in Nat /\ DOMAIN locals = 1 .. Len(locals)
      /\ Len(nest) \in Nat /\ DOMAIN nest = 1 .. Len(nest)
      /\ \A k \in DOMAIN nest : nest[k].at \in Nat /\ nest[k].outer \in Nat
  BY LocalsTypes, NestTypes DEF CodeInv
<1>5. /\ nest \in Seq([kind : {"if", "loop"}, at : Nat, outer : Nat])
      /\ code \in Seq(Instrs) /\ CodeTyped
  BY DEF CodeInv, CodeTyped
<1>6. /\ n \in Nat /\ 1 <= n /\ Len(code') = n /\ DOMAIN code = 1 .. n - 1 /\ DOMAIN code' = 1 .. n
      /\ code'[n] = instr /\ \A p \in DOMAIN code : p # n /\ code'[p] = code[p]
  BY <1>0, <1>2, <1>3, <1>5, Growth
<1>7. /\ nest' \in Seq([kind : {"if", "loop"}, at : Nat, outer : Nat])
      /\ DOMAIN nest' = 1 .. Len(nest) + 1 /\ nest'[Len(nest) + 1] = new
      /\ \A k \in DOMAIN nest : nest'[k] = nest[k]
  <2>1. new \in [kind : {"if", "loop"}, at : Nat, outer : Nat]
    BY <1>4, <1>6
  <2> HIDE DEF new
  <2>2. nest' = Append(nest, new)
    BY <1>1 DEF new
  <2>3. QED  BY <2>1, <2>2, <1>5
<1>8. new.at = n /\ new.outer = Len(locals)
  OBVIOUS
<1> HIDE DEF new
<1>9. CodeTyped'
  BY <1>1, <1>2, <1>3, <1>5, <1>7, Growth DEF CodeTyped
<1>10. WellNested'
  BY <1>2, <1>3, <1>5, KeptNested DEF CodeInv
<1>11. \A i : ~Touches(instr, i) /\ ~Takes(instr, i)
  BY <1>3 DEF Touches, Takes, Accesses
<1>12. Scoped'
  BY <1>1, <1>2, <1>3, <1>11, EmittedScoped
<1>13. LinksKnown'
  <2>1. instr.op \notin Accesses
    BY <1>3 DEF Accesses
  <2>2. QED  BY <2>1, <1>1, <1>2, <1>3, <1>11, EmittedLinks
<1>14. Opened /\ Scoped
  BY DEF CodeInv
<1>15. ASSUME NEW k \in DOMAIN nest'
       PROVE  /\ nest'[k].at \in DOMAIN code' /\ code'[nest'[k].at].op = "JUMP_IF_FALSE"
              /\ code'[nest'[k].at].to = 0
              /\ nest'[k].outer <= Len(locals')
              /\ \A d \in DOMAIN code' : \A i \in DOMAIN locals' :
                   (Declares(d, i))' /\ i <= nest'[k].outer => d < nest'[k].at
  <2>1. ASSUME NEW d \in DOMAIN code', NEW i, (Declares(d, i))'
        PROVE  d \in DOMAIN code /\ Declares(d, i) /\ d < n
    BY <2>1, <1>3, <1>6 DEF Declares
  <2>2. CASE k = Len(nest) + 1
    <3>1. nest'[k].at = n /\ nest'[k].outer = Len(locals)
      BY <2>2, <1>7, <1>8
    <3>2. n \in DOMAIN code' /\ code'[n].op = "JUMP_IF_FALSE" /\ code'[n].to = 0
      BY <1>3, <1>6
    <3>3. Len(locals) <= Len(locals')
      BY <1>1, <1>4
    <3>4. QED  BY <2>1, <3>1, <3>2, <3>3
  <2>3. CASE k \in DOMAIN nest
    <3>1. /\ nest[k].at \in DOMAIN code /\ Skip(nest[k].at) /\ code[nest[k].at].to = 0
          /\ nest[k].outer <= Len(locals)
          /\ \A d \in DOMAIN code : \A i \in DOMAIN locals :
               Declares(d, i) /\ i <= nest[k].outer => d < nest[k].at
      BY <2>3, <1>14 DEF Opened
    <3>2. nest'[k] = nest[k]
      BY <2>3, <1>7
    <3>3. QED  BY <3>1, <3>2, <2>1, <1>1, <1>6 DEF Skip
  <2>4. QED  BY <2>2, <2>3, <1>4, <1>7
<1>16. ASSUME NEW k \in DOMAIN nest', NEW l \in DOMAIN nest', k < l
       PROVE  nest'[k].at < nest'[l].at
  <2>1. k \in DOMAIN nest
    BY <1>16, <1>4, <1>7
  <2>2. nest[k].at \in DOMAIN code
    BY <2>1, <1>14 DEF Opened
  <2>3. CASE l \in DOMAIN nest
    BY <2>1, <2>3, <1>16, <1>7, <1>14 DEF Opened
  <2>4. CASE l = Len(nest) + 1
    BY <2>1, <2>2, <2>4, <1>6, <1>7, <1>8
  <2>5. QED  BY <2>3, <2>4, <1>4, <1>7
<1>17. ASSUME NEW b \in DOMAIN code', (Skip(b))', code'[b].to = 0
       PROVE  \E k \in DOMAIN nest' : nest'[k].at = b
  <2>1. CASE b = n
    <3>1. Len(nest) + 1 \in DOMAIN nest'
      BY <1>4, <1>7
    <3>2. QED  BY <2>1, <3>1, <1>7, <1>8
  <2>2. CASE b \in DOMAIN code
    <3>1. Skip(b) /\ code[b].to = 0
      BY <2>2, <1>17, <1>6 DEF Skip
    <3>2. PICK k \in DOMAIN nest : nest[k].at = b
      BY <2>2, <3>1, <1>14 DEF Opened
    <3>3. k \in DOMAIN nest'
      BY <1>4, <1>7
    <3>4. QED  BY <3>2, <3>3, <1>7
  <2>3. QED  BY <2>1, <2>2, <1>6
<1>18. Opened'
  <2>1. ~compiled'
    BY <1>2
  <2>2. \A k \in DOMAIN nest' : (Skip(nest[k].at))' <=> code'[nest'[k].at].op = "JUMP_IF_FALSE"
    BY DEF Skip
  <2>3. QED  BY <2>1, <2>2, <1>15, <1>16, <1>17 DEF Opened
<1>19. QED  BY <1>9, <1>10, <1>12, <1>13, <1>18 DEF CodeInv

LEMMA FrontItems ==
  ASSUME NEW S, NEW s \in Seq(S), s # <<>>
  PROVE  /\ Front(s) \in Seq(S) /\ DOMAIN Front(s) = 1 .. Len(s) - 1
         /\ \A k \in 1 .. Len(s) - 1 : Front(s)[k] = s[k]
<1>1. Len(s) \in Nat /\ Len(s) - 1 \in Nat
  OBVIOUS
<1>2. QED  BY <1>1 DEF Front

\* The construct begun last ends: its jump is confirmed to lead behind the text, which has a
\* jump back at its end if it is a loop.  Its variables are not used any more.
LEMMA ClosedKeeps ==
  ASSUME CodeInv, ~compiled, compiled' = compiled, nest # <<>>, nest' = Front(nest),
         EndScope(Last(nest).outer),
         code' \in Seq(Instrs), Len(code') \in {Len(code), Len(code) + 1},
         \A p \in DOMAIN code : p # Last(nest).at => code'[p] = code[p],
         code'[Last(nest).at].op = "JUMP_IF_FALSE",
         code'[Last(nest).at].to = Len(code') + 1,
         Len(code') = Len(code) + 1 =>
           code'[Len(code')].op = "JUMP_BACK" /\ code'[Len(code')].to = Last(nest).at
  PROVE  CodeInv'
<1>1. PICK n, m, a : n = Len(code) /\ m = Len(code') /\ a = Last(nest).at
  OBVIOUS
<1>2. PICK s : s = Len(nest)
  OBVIOUS
<1>3. PICK outer : outer = Last(nest).outer
  OBVIOUS
<1>4. /\ Len(locals) \in Nat /\ DOMAIN locals = 1 .. Len(locals)
      /\ \A i \in DOMAIN locals : locals[i] \in [link : BOOLEAN, live : BOOLEAN]
      /\ s \in Nat /\ DOMAIN nest = 1 .. s
      /\ \A k \in DOMAIN nest : nest[k].at \in Nat /\ nest[k].outer \in Nat
  BY <1>2, LocalsTypes, NestTypes DEF CodeInv
<1>5. CodeTyped /\ WellNested /\ Opened /\ Scoped /\ LinksKnown
  BY DEF CodeInv
<1>6. /\ nest \in Seq([kind : {"if", "loop"}, at : Nat, outer : Nat])
      /\ code \in Seq(Instrs)
  BY <1>5 DEF CodeTyped
<1>7. s >= 1 /\ s \in DOMAIN nest /\ nest[s].at = a /\ nest[s].outer = outer
  BY <1>1, <1>2, <1>3, <1>4, <1>6 DEF Last
<1>8. /\ nest' \in Seq([kind : {"if", "loop"}, at : Nat, outer : Nat])
      /\ DOMAIN nest' = 1 .. s - 1 /\ \A k \in 1 .. s - 1 : nest'[k] = nest[k]
  <2>1. PICK S : S = [kind : {"if", "loop"}, at : Nat, outer : Nat]
    OBVIOUS
  <2>2. nest \in Seq(S) /\ nest # <<>>
    BY <2>1, <1>6
  <2>3. /\ Front(nest) \in Seq(S) /\ DOMAIN Front(nest) = 1 .. Len(nest) - 1
        /\ \A k \in 1 .. Len(nest) - 1 : Front(nest)[k] = nest[k]
    BY <2>2, FrontItems
  <2>4. QED  BY <2>1, <2>3, <1>2
<1>9. a \in DOMAIN code /\ Skip(a) /\ code[a].to = 0 /\ outer <= Len(locals)
  BY <1>5, <1>7 DEF Opened
<1>10. /\ n \in Nat /\ m \in Nat /\ n <= m /\ m <= n + 1
       /\ DOMAIN code = 1 .. n /\ DOMAIN code' = 1 .. m
  BY <1>1, <1>6
<1>11. /\ code'[a].op = "JUMP_IF_FALSE" /\ code'[a].to = m + 1
       /\ \A p \in 1 .. n : p # a => code'[p] = code[p]
       /\ a \in 1 .. n /\ code[a].op = "JUMP_IF_FALSE" /\ code[a].to = 0
  BY <1>1, <1>9, <1>10 DEF Skip
<1>12. /\ m = n + 1 => code'[m].op = "JUMP_BACK" /\ code'[m].to = a
       /\ \A p \in 1 .. m : p \in 1 .. n \/ (p = m /\ m = n + 1)
  BY <1>1, <1>10
<1>13. \A p \in 1 .. n : code'[p].op = code[p].op
  BY <1>11
<1>14. ASSUME NEW p \in 1 .. m, code'[p].op \notin {"JUMP_IF_FALSE", "JUMP_BACK"}
       PROVE  p \in 1 .. n /\ code'[p] = code[p]
  BY <1>14, <1>11, <1>12
<1>15. ASSUME NEW p \in 1 .. m, code'[p].op = "JUMP_IF_FALSE"
       PROVE  p \in 1 .. n /\ Skip(p) /\ (p = a \/ code'[p] = code[p])
  BY <1>15, <1>11, <1>12 DEF Skip
<1>16. \A p \in 1 .. n : code[p].op = "JUMP_IF_FALSE" => code[p].to \in Nat
  <2>1. \A p \in 1 .. n : code[p] \in Instrs
    BY <1>6, <1>10
  <2>2. QED  BY <2>1, InstrTypes
<1>17. \A p \in 1 .. n : code[p].op \notin {"JUMP_IF_FALSE", "JUMP_BACK"} => code'[p] = code[p]
  BY <1>11
<1>18. /\ DOMAIN locals' = DOMAIN locals
       /\ locals' \in Seq([link : BOOLEAN, live : BOOLEAN]) /\ Len(locals') = Len(locals)
       /\ \A i \in DOMAIN locals : /\ locals'[i].link = locals[i].link
                                   /\ locals'[i].live <=> locals[i].live /\ i <= outer
  <2>1. locals' = [i \in DOMAIN locals |-> [locals[i] EXCEPT !.live = @ /\ i <= outer]]
    BY <1>3 DEF EndScope
  <2>2. ASSUME NEW i \in DOMAIN locals
        PROVE  /\ locals'[i] \in [link : BOOLEAN, live : BOOLEAN]
               /\ locals'[i].link = locals[i].link
               /\ locals'[i].live <=> locals[i].live /\ i <= outer
    <3>1. PICK t : t = (i <= outer)
      OBVIOUS
    <3>2. t \in BOOLEAN
      BY <3>1, <1>4, <1>7
    <3>3. locals'[i] = [locals[i] EXCEPT !.live = locals[i].live /\ t]
      BY <2>1, <3>1
    <3>4. locals[i] \in [link : BOOLEAN, live : BOOLEAN]
      BY <1>4
    <3>5. QED  BY <3>1, <3>2, <3>3, <3>4
  <2>3. locals' \in [1 .. Len(locals) -> [link : BOOLEAN, live : BOOLEAN]]
    BY <2>1, <2>2, <1>4
  <2>4. locals' \in Seq([link : BOOLEAN, live : BOOLEAN]) /\ Len(locals') = Len(locals)
    BY <2>3, <1>4, SameLocals
  <2>5. DOMAIN locals' = DOMAIN locals
    BY <2>1
  <2>6. QED  BY <2>2, <2>4, <2>5
<1>19. CodeTyped'
  <2>1. Len(locals) <= MaxLocals /\ compiled \in BOOLEAN
    BY <1>5 DEF CodeTyped
  <2>2. QED  BY <2>1, <1>8, <1>18 DEF CodeTyped
<1>20. \A b \in 1 .. n : code[b].op = "JUMP_IF_FALSE" /\ code[b].to = 0 => b <= a
  <2>1. ASSUME NEW b \in 1 .. n, code[b].op = "JUMP_IF_FALSE", code[b].to = 0
        PROVE  b <= a
    <3>1. PICK k \in DOMAIN nest : nest[k].at = b
      BY <2>1, <1>5, <1>10 DEF Opened, Skip
    <3>2. k = s \/ k < s
      BY <1>4
    <3>3. k < s => nest[k].at < nest[s].at
      BY <1>5, <1>7 DEF Opened
    <3>4. QED  BY <3>1, <3>2, <3>3, <1>4, <1>7
  <2>2. QED  BY <2>1
<1>21. ASSUME NEW b \in 1 .. n, code[b].op = "JUMP_IF_FALSE", code[b].to # 0
       PROVE  /\ b < code[b].to /\ code[b].to <= n + 1
              /\ \A q \in 1 .. n : b < q /\ q < code[b].to /\ code[q].op = "JUMP_IF_FALSE" =>
                   code[q].to # 0 /\ code[q].to <= code[b].to
  BY <1>21, <1>1, <1>5, <1>10 DEF WellNested, Skip
<1>22. ASSUME NEW b \in 1 .. m, code'[b].op = "JUMP_IF_FALSE", code'[b].to # 0
       PROVE  /\ b < code'[b].to /\ code'[b].to <= m + 1
              /\ \A q \in 1 .. m : b < q /\ q < code'[b].to /\ code'[q].op = "JUMP_IF_FALSE" =>
                   code'[q].to # 0 /\ code'[q].to <= code'[b].to
  <2>1. CASE b = a
    <3>1. ASSUME NEW q \in 1 .. m, b < q, code'[q].op = "JUMP_IF_FALSE"
          PROVE  code'[q].to # 0 /\ code'[q].to <= m + 1
      <4>1. q \in 1 .. n /\ q # a /\ code'[q] = code[q] /\ code[q].op = "JUMP_IF_FALSE"
        BY <3>1, <2>1, <1>15, <1>11 DEF Skip
      <4>2. code[q].to # 0
        BY <4>1, <3>1, <2>1, <1>10, <1>11, <1>20
      <4>3. code[q].to <= n + 1
        BY <4>1, <4>2, <1>21
      <4>4. QED  BY <4>1, <4>2, <4>3, <1>10, <1>16
    <3>2. QED  BY <3>1, <2>1, <1>10, <1>11
  <2>2. CASE b # a
    <3>1. b \in 1 .. n /\ code'[b] = code[b] /\ code[b].op = "JUMP_IF_FALSE"
      BY <2>2, <1>22, <1>15
    <3>2. b < code[b].to /\ code[b].to <= n + 1 /\ code[b].to \in Nat
      BY <3>1, <1>22, <1>21, <1>16
    <3>3. ASSUME NEW q \in 1 .. m, b < q, q < code'[b].to, code'[q].op = "JUMP_IF_FALSE"
          PROVE  code'[q].to # 0 /\ code'[q].to <= code'[b].to
      <4>1. q \in 1 .. n /\ code[q].op = "JUMP_IF_FALSE" /\ (q = a \/ code'[q] = code[q])
        BY <3>3, <1>15 DEF Skip
      <4>2. code[q].to # 0 /\ code[q].to <= code[b].to
        BY <4>1, <3>1, <3>3, <1>21, <1>22
      <4>3. q # a
        BY <4>2, <1>11
      <4>4. QED  BY <4>1, <4>2, <4>3, <3>1
    <3>4. QED  BY <3>1, <3>2, <3>3, <1>10
  <2>3. QED  BY <2>1, <2>2
<1>23. ASSUME NEW p \in 1 .. m, code'[p].op = "JUMP_BACK"
       PROVE  /\ code'[p].to \in 1 .. p - 1
              /\ code'[code'[p].to].op = "JUMP_IF_FALSE" /\ code'[code'[p].to].to = p + 1
  <2>1. CASE p \in 1 .. n
    <3>1. code'[p] = code[p]
      BY <2>1, <1>11, <1>23
    <3>2. PICK q : q = code[p].to
      OBVIOUS
    <3>3. q \in 1 .. p - 1 /\ code[q].op = "JUMP_IF_FALSE" /\ code[q].to = p + 1
      BY <2>1, <3>1, <3>2, <1>23, <1>5, <1>10 DEF WellNested, Skip
    <3>4. q \in 1 .. n /\ q # a
      BY <2>1, <3>3, <1>10, <1>11
    <3>5. code'[q] = code[q]
      BY <3>4, <1>11
    <3>6. QED  BY <3>1, <3>2, <3>3, <3>5
  <2>2. CASE p = m /\ m = n + 1
    BY <2>2, <1>10, <1>11, <1>12
  <2>3. QED  BY <2>1, <2>2, <1>12
<1>24. WellNested'
  <2>1. /\ DOMAIN code' = 1 .. m /\ Len(code') = m
        /\ \A p : (Skip(p))' <=> code'[p].op = "JUMP_IF_FALSE"
    BY <1>1, <1>10 DEF Skip
  <2>2. \A p : (Skip(code[p].to))' <=> code'[code'[p].to].op = "JUMP_IF_FALSE"
    BY DEF Skip
  <2>3. QED  BY <2>1, <2>2, <1>22, <1>23 DEF WellNested
<1>25. ASSUME NEW d \in 1 .. m, NEW i
       PROVE  (Declares(d, i))' <=> d \in 1 .. n /\ Declares(d, i)
  BY <1>13, <1>14, <1>17 DEF Declares
<1>26. Opened'
  <2>1. ASSUME NEW k \in 1 .. s - 1
        PROVE  /\ nest[k].at \in 1 .. m /\ code'[nest[k].at].op = "JUMP_IF_FALSE"
               /\ code'[nest[k].at].to = 0
               /\ nest[k].outer <= Len(locals')
               /\ \A d \in 1 .. m : \A i \in DOMAIN locals :
                    (Declares(d, i))' /\ i <= nest[k].outer => d < nest[k].at
    <3>1. k \in DOMAIN nest /\ k < s
      BY <1>4
    <3>2. /\ nest[k].at \in DOMAIN code /\ Skip(nest[k].at) /\ code[nest[k].at].to = 0
          /\ nest[k].outer <= Len(locals)
          /\ \A d \in DOMAIN code : \A i \in DOMAIN locals :
               Declares(d, i) /\ i <= nest[k].outer => d < nest[k].at
      BY <3>1, <1>5 DEF Opened
    <3>3. nest[k].at < a
      BY <3>1, <1>5, <1>7 DEF Opened
    <3>4. nest[k].at # a /\ nest[k].at \in 1 .. n
      BY <3>1, <3>2, <3>3, <1>4, <1>10, <1>11
    <3>5. code'[nest[k].at] = code[nest[k].at]
      BY <3>4, <1>11
    <3>6. nest[k].at \in 1 .. m
      BY <3>4, <1>10
    <3>7. QED  BY <3>2, <3>4, <3>5, <3>6, <1>10, <1>18, <1>25 DEF Skip
  <2>2. ASSUME NEW b \in 1 .. m, code'[b].op = "JUMP_IF_FALSE", code'[b].to = 0
        PROVE  \E k \in 1 .. s - 1 : nest[k].at = b
    <3>1. b # a
      BY <2>2, <1>10, <1>11
    <3>2. b \in 1 .. n /\ Skip(b) /\ code[b].to = 0
      BY <3>1, <2>2, <1>15
    <3>3. PICK k \in DOMAIN nest : nest[k].at = b
      BY <3>2, <1>5, <1>10 DEF Opened
    <3>4. k # s
      BY <3>1, <3>3, <1>7
    <3>5. QED  BY <3>3, <3>4, <1>4
  <2>3. \A k, l \in 1 .. s - 1 : k < l => nest[k].at < nest[l].at
    BY <1>4, <1>5 DEF Opened
  <2>4. \A k \in 1 .. s - 1 : (Skip(nest[k].at))' <=> code'[nest[k].at].op = "JUMP_IF_FALSE"
    BY <1>8 DEF Skip
  <2>5. \A b : (Skip(b))' <=> code'[b].op = "JUMP_IF_FALSE"
    BY DEF Skip
  <2>6. \A k \in DOMAIN nest' :
          /\ nest'[k].at \in DOMAIN code' /\ (Skip(nest[k].at))' /\ code'[nest'[k].at].to = 0
          /\ nest'[k].outer <= Len(locals')
          /\ \A d \in DOMAIN code' : \A i \in DOMAIN locals' :
               (Declares(d, i))' /\ i <= nest'[k].outer => d < nest'[k].at
    BY <2>1, <2>4, <1>8, <1>10, <1>18
  <2>7. \A k, l \in DOMAIN nest' : k < l => nest'[k].at < nest'[l].at
    BY <2>3, <1>8
  <2>8. ASSUME NEW b \in DOMAIN code', (Skip(b))', code'[b].to = 0
        PROVE  \E k \in DOMAIN nest' : nest'[k].at = b
    <3>1. b \in 1 .. m /\ code'[b].op = "JUMP_IF_FALSE"
      BY <2>5, <2>8, <1>10
    <3>2. PICK k \in 1 .. s - 1 : nest[k].at = b
      BY <3>1, <2>2, <2>8
    <3>3. QED  BY <3>2, <1>8
  <2>9. ~compiled'
    OBVIOUS
  <2>10. QED  BY <2>6, <2>7, <2>8, <2>9 DEF Opened
<1>27. ASSUME NEW d \in 1 .. n, NEW p \in 1 .. n, Covers(d, p)
       PROVE  (Covers(d, p))'
  <2>1. d < p
    BY <1>27 DEF Covers
  <2>2. ASSUME NEW b \in 1 .. m, b < d, (Skip(b))', d < code'[b].to
        PROVE  p < code'[b].to
    <3>1. b \in 1 .. n /\ Skip(b) /\ (b = a \/ code'[b] = code[b])
      BY <2>2, <1>15 DEF Skip
    <3>2. CASE b = a
      BY <3>2, <1>10, <1>11
    <3>3. CASE code'[b] = code[b]
      BY <3>1, <3>3, <2>2, <1>10, <1>27 DEF Covers
    <3>4. QED  BY <3>1, <3>2, <3>3
  <2>3. QED  BY <2>1, <2>2, <1>10 DEF Covers
<1>28. ASSUME NEW p \in 1 .. m, NEW i
       PROVE  (Uses(p, i))' <=> p \in 1 .. n /\ Uses(p, i)
  BY <1>13, <1>14, <1>17 DEF Uses, Touches, Takes, Accesses
<1>29. Scoped'
  <2>1. ASSUME NEW p \in 1 .. m
        PROVE  /\ code'[p].op = "PUT_8_WITH_POP" => code'[p].local \in DOMAIN locals'
               /\ code'[p].op \in Accesses => code'[p].local \in DOMAIN locals'
               /\ code'[p].op = "DECLARE_FUNCTION" =>
                    \A k \in DOMAIN code'[p].caps : code'[p].caps[k] \in DOMAIN locals'
    <3>1. CASE code'[p].op \in {"JUMP_IF_FALSE", "JUMP_BACK"}
      BY <3>1 DEF Accesses
    <3>2. CASE code'[p].op \notin {"JUMP_IF_FALSE", "JUMP_BACK"}
      BY <3>2, <1>5, <1>10, <1>14, <1>18 DEF Scoped
    <3>3. QED  BY <3>1, <3>2
  <2>2. ASSUME NEW p \in 1 .. m, NEW i \in DOMAIN locals, (Uses(p, i))'
        PROVE  \E d \in 1 .. m : (Declares(d, i) /\ Covers(d, p))'
    <3>1. p \in 1 .. n /\ Uses(p, i)
      BY <2>2, <1>28
    <3>2. PICK d \in DOMAIN code : Declares(d, i) /\ Covers(d, p)
      BY <3>1, <1>5, <1>10 DEF Scoped
    <3>3. d \in 1 .. n /\ d \in 1 .. m
      BY <1>10
    <3>4. QED  BY <3>1, <3>2, <3>3, <1>25, <1>27
  <2>3. ASSUME NEW i \in DOMAIN locals, locals'[i].live
        PROVE  \E d \in 1 .. m : (Declares(d, i))' /\
                 \A b \in 1 .. m : b < d /\ code'[b].op = "JUMP_IF_FALSE" => code'[b].to <= d
    <3>1. locals[i].live /\ i <= outer
      BY <2>3, <1>18
    <3>2. PICK d \in DOMAIN code : Declares(d, i) /\
                 \A b \in DOMAIN code : b < d /\ Skip(b) => code[b].to <= d
      BY <3>1, <1>5 DEF Scoped
    <3>3. d < a
      BY <3>1, <3>2, <1>5, <1>7 DEF Opened
    <3>4. d \in 1 .. n /\ d \in 1 .. m
      BY <1>10
    <3>5. ASSUME NEW b \in 1 .. m, b < d, code'[b].op = "JUMP_IF_FALSE"
          PROVE  code'[b].to <= d
      <4>1. b # a
        BY <3>3, <3>4, <3>5, <1>11
      <4>2. b \in 1 .. n /\ Skip(b) /\ code'[b] = code[b]
        BY <4>1, <3>5, <1>15
      <4>3. QED  BY <4>2, <3>2, <3>5, <1>10
    <3>6. QED  BY <3>2, <3>4, <3>5, <1>25
  <2>4. \A b : (Skip(b))' <=> code'[b].op = "JUMP_IF_FALSE"
    BY DEF Skip
  <2>5. QED  BY <2>1, <2>2, <2>3, <2>4, <1>10, <1>18 DEF Scoped
<1>30. ASSUME NEW p \in 1 .. m + 1, NEW i
       PROVE  (CapturedBefore(i, p))' <=> \E q \in 1 .. n : q < p /\ Captures(q, i)
  <2>1. (CapturedBefore(i, p))' <=> \E q \in 1 .. p - 1 : (Captures(q, i))'
    BY DEF CapturedBefore
  <2>2. \A q \in 1 .. m : (Captures(q, i))' <=> q \in 1 .. n /\ Captures(q, i)
    BY <1>13, <1>14, <1>17 DEF Captures, Takes
  <2>3. \A q : q \in 1 .. p - 1 <=> q \in 1 .. m /\ q < p
    BY <1>10
  <2>4. 1 .. n \subseteq 1 .. m
    BY <1>10
  <2>5. QED  BY <2>1, <2>2, <2>3, <2>4
<1>31. ASSUME NEW p \in 1 .. n + 1, NEW i
       PROVE  CapturedBefore(i, p) <=> \E q \in 1 .. n : q < p /\ Captures(q, i)
  BY <1>10 DEF CapturedBefore
<1>32. LinksKnown'
  <2>1. ASSUME NEW i
        PROVE  (CapturedBefore(i, m + 1))' <=> CapturedBefore(i, n + 1)
    <3>1. \A q \in 1 .. n : q < m + 1 /\ q < n + 1
      BY <1>10
    <3>2. m + 1 \in 1 .. m + 1 /\ n + 1 \in 1 .. n + 1
      BY <1>10
    <3>3. QED  BY <3>1, <3>2, <1>30, <1>31
  <2>2. \A i \in DOMAIN locals : locals'[i].link <=> (CapturedBefore(i, m + 1))'
    BY <2>1, <1>1, <1>5, <1>18 DEF LinksKnown
  <2>3. ASSUME NEW p \in 1 .. m, code'[p].op \in Accesses
        PROVE  code'[p].op \in LinkOps <=> (CapturedBefore(code[p].local, p))'
    <3>1. p \in 1 .. n /\ code'[p] = code[p]
      BY <2>3, <1>14 DEF Accesses
    <3>2. PICK i : i = code[p].local
      OBVIOUS
    <3>3. code[p].op \in LinkOps <=> CapturedBefore(i, p)
      BY <3>1, <3>2, <2>3, <1>5, <1>10 DEF LinksKnown
    <3>4. p \in 1 .. n + 1 /\ p \in 1 .. m + 1
      BY <3>1, <1>10
    <3>5. CapturedBefore(i, p) <=> (CapturedBefore(i, p))'
      BY <3>4, <1>30, <1>31
    <3>6. (CapturedBefore(i, p))' <=> (CapturedBefore(code[p].local, p))'
      BY <3>1, <3>2 DEF CapturedBefore
    <3>7. QED  BY <3>1, <3>3, <3>5, <3>6
  <2>4. QED  BY <2>2, <2>3, <1>1, <1>10, <1>18 DEF LinksKnown
<1>33. QED  BY <1>19, <1>24, <1>26, <1>29, <1>32 DEF CodeInv

LEMMA LastOpened ==
  ASSUME CodeInv, nest # <<>>
  PROVE  Last(nest).at \in DOMAIN code /\ code[Last(nest).at].op = "JUMP_IF_FALSE"
<1>1. nest \in Seq([kind : {"if", "loop"}, at : Nat, outer : Nat])
  BY DEF CodeInv, CodeTyped
<1>2. Len(nest) \in DOMAIN nest
  BY <1>1
<1>3. QED  BY <1>2 DEF CodeInv, Opened, Skip, Last

LEMMA Patched ==
  ASSUME NEW c \in Seq(Instrs), NEW a \in DOMAIN c, c[a].op = "JUMP_IF_FALSE", NEW t \in Nat,
         NEW d, d = [c EXCEPT ![a].to = t]
  PROVE  /\ d \in Seq(Instrs) /\ Len(d) = Len(c)
         /\ d[a].op = "JUMP_IF_FALSE" /\ d[a].to = t
         /\ \A p \in DOMAIN c : p # a => d[p] = c[p]
<1>1. c[a] \in Instrs
  OBVIOUS
<1>2. c[a] \in [op : {"JUMP_IF_FALSE", "JUMP_BACK"}, to : Nat]
  BY <1>1 DEF Instrs, Accesses
<1>3. PICK e : e = [c[a] EXCEPT !.to = t]
  OBVIOUS
<1>4. e \in Instrs /\ e.op = "JUMP_IF_FALSE" /\ e.to = t
  BY <1>2, <1>3 DEF Instrs
<1>5. d = [c EXCEPT ![a] = e]
  BY <1>3
<1>6. QED  BY <1>4, <1>5

LEMMA EndIfKeeps == CodeInv /\ ~compiled /\ EndIf => CodeInv'
<1> SUFFICES ASSUME CodeInv, ~compiled, EndIf PROVE CodeInv'
  OBVIOUS
<1>0. PICK a, t : a = Last(nest).at /\ t = Len(code) + 1
  OBVIOUS
<1>1. /\ nest # <<>> /\ nest' = Front(nest) /\ compiled' = compiled
      /\ code' = [code EXCEPT ![a].to = t] /\ EndScope(Last(nest).outer)
  BY <1>0 DEF EndIf, Confirmed
<1>2. a \in DOMAIN code /\ code[a].op = "JUMP_IF_FALSE"
  BY <1>0, <1>1, LastOpened
<1>3. code \in Seq(Instrs)
  BY DEF CodeInv, CodeTyped
<1>4. t \in Nat
  BY <1>0, <1>3
<1>5. /\ code' \in Seq(Instrs) /\ Len(code') = Len(code)
      /\ code'[a].op = "JUMP_IF_FALSE" /\ code'[a].to = t
      /\ \A p \in DOMAIN code : p # a => code'[p] = code[p]
  BY <1>1, <1>2, <1>3, <1>4, Patched
<1>6. Len(code') # Len(code) + 1
  BY <1>3, <1>5
<1>7. QED  BY <1>0, <1>1, <1>5, <1>6, ClosedKeeps

LEMMA EndLoopKeeps == CodeInv /\ ~compiled /\ EndLoop => CodeInv'
<1> SUFFICES ASSUME CodeInv, ~compiled, EndLoop PROVE CodeInv'
  OBVIOUS
<1>0. PICK a, t, c : /\ a = Last(nest).at /\ t = Len(code) + 2
                     /\ c = [code EXCEPT ![a].to = t]
  OBVIOUS
<1> DEFINE back == [op |-> "JUMP_BACK", to |-> a]
<1>1. /\ nest # <<>> /\ nest' = Front(nest) /\ compiled' = compiled
      /\ code' = Append(c, back) /\ EndScope(Last(nest).outer)
  BY <1>0 DEF EndLoop
<1>2. a \in DOMAIN code /\ code[a].op = "JUMP_IF_FALSE"
  BY <1>0, <1>1, LastOpened
<1>3. code \in Seq(Instrs)
  BY DEF CodeInv, CodeTyped
<1>4. t \in Nat /\ a \in Nat
  BY <1>0, <1>2, <1>3
<1>5. /\ c \in Seq(Instrs) /\ Len(c) = Len(code)
      /\ c[a].op = "JUMP_IF_FALSE" /\ c[a].to = t
      /\ \A p \in DOMAIN code : p # a => c[p] = code[p]
  BY <1>0, <1>2, <1>3, <1>4, Patched
<1>6. back \in Instrs /\ back.op = "JUMP_BACK" /\ back.to = a
  BY <1>4 DEF Instrs
<1> HIDE DEF back
<1>7. /\ code' \in Seq(Instrs) /\ Len(code') = Len(code) + 1 /\ code'[Len(code) + 1] = back
      /\ \A p \in DOMAIN code : code'[p] = c[p]
  BY <1>1, <1>3, <1>5, <1>6
<1>8. t = Len(code') + 1
  BY <1>0, <1>3, <1>7
<1>9. QED  BY <1>0, <1>1, <1>2, <1>5, <1>6, <1>7, <1>8, ClosedKeeps

LEMMA EndBodyKeeps == CodeInv /\ EndBody => CodeInv'
<1> SUFFICES ASSUME CodeInv, EndBody PROVE CodeInv'
  OBVIOUS
<1>1. nest = <<>> /\ compiled' = TRUE /\ UNCHANGED <<code, locals, nest>>
  BY DEF EndBody
<1>2. CodeTyped'
  BY <1>1 DEF CodeInv, CodeTyped
<1>3. WellNested' /\ Scoped' /\ LinksKnown'
  BY <1>1 DEF CodeInv, WellNested, Scoped, LinksKnown, Skip, Declares, Uses, Covers, CapturedBefore, Captures
<1>4. Opened'
  BY <1>1 DEF CodeInv, Opened, Skip, Declares
<1>5. QED  BY <1>2, <1>3, <1>4 DEF CodeInv

\* The machine changes nothing of the text.
LEMMA CodeRests == CodeInv /\ UNCHANGED compiling => CodeInv'
<1> SUFFICES ASSUME CodeInv, UNCHANGED compiling PROVE CodeInv'
  OBVIOUS
<1>1. UNCHANGED <<code, locals, nest, compiled>>
  BY DEF compiling
<1>2. CodeTyped'
  BY <1>1 DEF CodeInv, CodeTyped
<1>3. WellNested' /\ Scoped' /\ LinksKnown'
  BY <1>1 DEF CodeInv, WellNested, Scoped, LinksKnown, Skip, Declares, Uses, Covers, CapturedBefore, Captures
<1>4. Opened'
  BY <1>1 DEF CodeInv, Opened, Skip, Declares
<1>5. QED  BY <1>2, <1>3, <1>4 DEF CodeInv

LEMMA CodeStarts == Init => CodeInv
<1> SUFFICES ASSUME Init PROVE CodeInv
  OBVIOUS
<1>1. code = <<>> /\ locals = <<>> /\ nest = <<>> /\ compiled = FALSE
  BY DEF Init
<1>2. CodeTyped
  <2>1. \A S : <<>> \in Seq(S)
    OBVIOUS
  <2>2. Len(locals) <= MaxLocals
    <3>1. Len(locals) = 0
      BY <1>1
    <3>2. QED  BY <3>1, ClosureAssumption
  <2>3. QED  BY <1>1, <2>1, <2>2 DEF CodeTyped
<1>3. DOMAIN code = {} /\ DOMAIN locals = {} /\ DOMAIN nest = {}
  BY <1>1
<1>4. QED  BY <1>1, <1>2, <1>3 DEF CodeInv, WellNested, Opened, Scoped, LinksKnown

CompilerSteps == Declare \/ Load \/ Assign \/ Capture \/ Begin \/ EndIf \/ EndLoop \/ EndBody
MachineSteps ==
  \/ Call \/ RunDeclare \/ Derail \/ RunLoad \/ RunAssign \/ RunCapture \/ RunJump \/ RunReturn
  \/ PutClosure

LEMMA NextSteps == Next => CompilerSteps \/ MachineSteps
BY Zenon DEF Next, CompilerSteps, MachineSteps

LEMMA CompilerSpares == CompilerSteps => UNCHANGED machine /\ (compiled => nest # <<>>)
<1>1. Declare => UNCHANGED machine /\ ~compiled
  BY DEF Declare, Emits
<1>2. Load => UNCHANGED machine /\ ~compiled
  BY DEF Load, Emits
<1>3. Assign => UNCHANGED machine /\ ~compiled
  BY DEF Assign, Emits
<1>4. Capture => UNCHANGED machine /\ ~compiled
  BY DEF Capture, Emits
<1>5. Begin => UNCHANGED machine /\ ~compiled
  BY DEF Begin, Emits
<1>6. EndIf \/ EndLoop \/ EndBody => UNCHANGED machine /\ (compiled => nest # <<>>)
  BY DEF EndIf, EndLoop, EndBody
<1>7. QED  BY <1>1, <1>2, <1>3, <1>4, <1>5, <1>6 DEF CompilerSteps

LEMMA MachineSpares == MachineSteps => UNCHANGED compiling
BY DEF MachineSteps, Call, RunDeclare, Derail, RunLoad, RunAssign, RunCapture, RunJump, RunReturn,
       PutClosure

LEMMA CodeKept == CodeInv /\ [Next]_vars => CodeInv'
<1> SUFFICES ASSUME CodeInv, [Next]_vars PROVE CodeInv'
  OBVIOUS
<1>1. nest # <<>> => ~compiled
  BY DEF CodeInv, Opened
<1>2. CASE CompilerSteps
  <2>1. CASE Declare  BY <2>1, DeclareKeeps
  <2>2. CASE Load  BY <2>2, LoadKeeps
  <2>3. CASE Assign  BY <2>3, AssignKeeps
  <2>4. CASE Capture  BY <2>4, CaptureKeeps
  <2>5. CASE Begin  BY <2>5, BeginKeeps
  <2>6. CASE EndIf
    <3>1. nest # <<>>
      BY <2>6 DEF EndIf
    <3>2. QED  BY <3>1, <2>6, <1>1, EndIfKeeps
  <2>7. CASE EndLoop
    <3>1. nest # <<>>
      BY <2>7 DEF EndLoop
    <3>2. QED  BY <3>1, <2>7, <1>1, EndLoopKeeps
  <2>8. CASE EndBody  BY <2>8, EndBodyKeeps
  <2>9. QED
    BY <1>2, <2>1, <2>2, <2>3, <2>4, <2>5, <2>6, <2>7, <2>8 DEF CompilerSteps
<1>3. CASE MachineSteps
  BY <1>3, MachineSpares, CodeRests
<1>4. CASE UNCHANGED vars
  <2>1. UNCHANGED compiling
    BY <1>4 DEF vars
  <2>2. QED  BY <2>1, CodeRests
<1>5. QED  BY <1>2, <1>3, <1>4, NextSteps

-----------------------------------------------------------------------------
(* The machine. *)

\* A function called outside of functions has its locals where their captures are looked for.
LEMMA Places ==
  ASSUME CodeInv, Offsets = {Home}
  PROVE  /\ \A i \in DOMAIN locals : Place(i) \in Registers
         /\ \A i, j \in DOMAIN locals : Place(i) = Place(j) => i = j
<1>1. Registers = 0 .. 12 + MaxLocals
  <2>1. PICK o : o = CHOOSE x \in Offsets : \A p \in Offsets : p <= x
    OBVIOUS
  <2>2. o = 4
    BY <2>1 DEF Home, Priv
  <2>3. QED  BY <2>1, <2>2, ClosureAssumption DEF Registers, Priv
<1>2. Len(locals) \in Nat /\ DOMAIN locals = 1 .. Len(locals) /\ Len(locals) <= MaxLocals
  BY LocalsTypes DEF CodeInv, CodeTyped
<1>3. \A i \in DOMAIN locals : Place(i) = i + 7 /\ i \in 1 .. MaxLocals
  BY <1>2, ClosureAssumption DEF Place, Priv
<1>4. \A i \in DOMAIN locals : Place(i) \in Registers
  BY <1>1, <1>3, ClosureAssumption
<1>5. QED  BY <1>3, <1>4

LEMMA ActTypes ==
  ASSUME RunTyped, act # <<>>
  PROVE  /\ compiled /\ act.offset = Home /\ act.pc \in 1 .. Len(code) + 1
         /\ act.var \in [DOMAIN locals -> 0 .. Len(vals)]
         /\ act.moved \in [DOMAIN locals -> BOOLEAN]
         /\ act = [offset |-> act.offset, pc |-> act.pc, var |-> act.var, moved |-> act.moved]
BY DEF RunTyped, Activations

LEMMA RegisterIsPlace ==
  ASSUME RunTyped, act # <<>>, NEW i \in DOMAIN locals
  PROVE  Register(i) = Place(i)
<1>1. act.offset = Home
  BY ActTypes
<1>2. QED  BY <1>1 DEF Register, Place, Home, Priv

\* What is being run.
LEMMA InstrFacts ==
  ASSUME CodeInv, RunTyped, NEW ops, Running(ops)
  PROVE  /\ act # <<>> /\ act.pc \in DOMAIN code /\ Instr = code[act.pc] /\ Instr \in Instrs
         /\ Instr.op \in ops
         /\ Instr.op \in Accesses => Instr.local \in DOMAIN locals
         /\ Instr.op = "PUT_8_WITH_POP" => Instr.local \in DOMAIN locals
         /\ Instr.op = "DECLARE_FUNCTION" =>
              Instr.caps \in Seq(Nat) /\ \A k \in DOMAIN Instr.caps : Instr.caps[k] \in DOMAIN locals
<1>1. act # <<>> /\ act.pc <= Len(code) /\ code[act.pc].op \in ops
  BY DEF Running
<1>2. code \in Seq(Instrs) /\ Scoped
  BY DEF CodeInv, CodeTyped
<1>3. act.pc \in DOMAIN code
  <2>1. act.pc \in 1 .. Len(code) + 1
    BY <1>1, ActTypes
  <2>2. QED  BY <2>1, <1>1, <1>2
<1>4. Instr = code[act.pc] /\ Instr \in Instrs
  BY <1>2, <1>3 DEF Instr
<1>5. QED  BY <1>1, <1>2, <1>3, <1>4, InstrTypes DEF Scoped

\* Who uses a variable has one.
LEMMA UsesWhatItHas ==
  ASSUME CodeInv, RunInv, act # <<>>, act.pc \in DOMAIN code,
         NEW i \in DOMAIN locals, Uses(act.pc, i)
  PROVE  Has(i)
<1>1. PICK d \in DOMAIN code : Declares(d, i) /\ Covers(d, act.pc)
  BY DEF CodeInv, Scoped
<1>2. QED  BY <1>1 DEF RunInv, Reached, Has

\* A declaration covers what comes next, unless it has just been made.
LEMMA ReachedNext ==
  ASSUME CodeInv, RunInv, act # <<>>, act.pc \in DOMAIN code, UNCHANGED compiling,
         act'.pc = act.pc + 1,
         \A i \in DOMAIN locals : act.var[i] # 0 => act'.var[i] # 0,
         \A i \in DOMAIN locals : Declares(act.pc, i) => act'.var[i] # 0
  PROVE  Reached'
<1>1. UNCHANGED <<code, locals>>
  BY DEF compiling
<1>2. Len(code) \in Nat /\ DOMAIN code = 1 .. Len(code) /\ \A b \in DOMAIN code : code[b] \in Instrs
  <2>1. code \in Seq(Instrs)
    BY DEF CodeInv, CodeTyped
  <2>2. QED  BY <2>1, SeqItems
<1>3. PICK pc : pc = act.pc
  OBVIOUS
<1>4. pc \in 1 .. Len(code)
  BY <1>2, <1>3
<1>5. ASSUME NEW d \in DOMAIN code, NEW i \in DOMAIN locals, Declares(d, i), Covers(d, pc + 1)
      PROVE  act'.var[i] # 0
  <2>1. CASE d = pc
    BY <2>1, <1>3, <1>5
  <2>2. CASE d # pc
    <3>1. d < pc
      BY <2>2, <1>2, <1>4, <1>5 DEF Covers
    <3>2. ASSUME NEW b \in DOMAIN code, b < d, Skip(b), d < code[b].to
          PROVE  pc < code[b].to
      <4>1. code[b].to \in Nat
        BY <3>2, <1>2, InstrTypes DEF Skip
      <4>2. pc + 1 < code[b].to
        BY <3>2, <1>5 DEF Covers
      <4>3. QED  BY <4>1, <4>2, <1>4
    <3>3. Covers(d, act.pc)
      BY <3>1, <3>2, <1>3 DEF Covers
    <3>4. act.var[i] # 0
      BY <3>3, <1>5 DEF RunInv, Reached
    <3>5. QED  BY <3>4
  <2>3. QED  BY <2>1, <2>2
<1>6. ASSUME NEW d \in DOMAIN code, NEW i \in DOMAIN locals, (Declares(d, i) /\ Covers(d, act.pc))'
      PROVE  act'.var[i] # 0
  <2>1. Declares(d, i) /\ Covers(d, pc + 1)
    BY <1>1, <1>3, <1>6 DEF Declares, Covers, Skip
  <2>2. QED  BY <2>1, <1>5
<1>7. QED  BY <1>1, <1>6 DEF Reached

\* When the text is complete every construct has its end.
LEMMA AllEnded ==
  ASSUME CodeInv, compiled
  PROVE  \A b \in DOMAIN code : Skip(b) =>
           /\ code[b].to \in Nat /\ b < code[b].to /\ code[b].to <= Len(code) + 1
           /\ \A q \in DOMAIN code : b < q /\ q < code[b].to /\ Skip(q) =>
                code[q].to <= code[b].to
<1>1. code \in Seq(Instrs) /\ WellNested /\ Opened /\ nest = <<>>
  BY DEF CodeInv, CodeTyped, Opened
<1>2. ASSUME NEW b \in DOMAIN code, Skip(b)
      PROVE  code[b].to \in Nat /\ code[b].to # 0
  <2>1. code[b] \in Instrs
    BY <1>1
  <2>2. code[b].to \in Nat
    BY <2>1, <1>2, InstrTypes DEF Skip
  <2>3. DOMAIN nest = {}
    BY <1>1
  <2>4. QED  BY <2>2, <2>3, <1>1, <1>2 DEF Opened
<1>3. QED  BY <1>1, <1>2 DEF WellNested

\* A jump leads to where no more has been declared for sure.
LEMMA ReachedJump ==
  ASSUME CodeInv, RunInv, act # <<>>, act.pc \in DOMAIN code, UNCHANGED compiling,
         code[act.pc].op \in {"JUMP_IF_FALSE", "JUMP_BACK"},
         act'.pc = code[act.pc].to, act'.var = act.var
  PROVE  Reached' /\ act'.pc \in 1 .. Len(code) + 1
<1>1. UNCHANGED <<code, locals>>
  BY DEF compiling
<1>2. code \in Seq(Instrs) /\ WellNested
  BY DEF CodeInv, CodeTyped
<1>3. Len(code) \in Nat /\ DOMAIN code = 1 .. Len(code)
  BY <1>2
<1>4. \A b \in DOMAIN code : Skip(b) =>
        /\ code[b].to \in Nat /\ b < code[b].to /\ code[b].to <= Len(code) + 1
        /\ \A q \in DOMAIN code : b < q /\ q < code[b].to /\ Skip(q) => code[q].to <= code[b].to
  <2>1. compiled
    BY ActTypes DEF RunInv
  <2>2. QED  BY <2>1, AllEnded
<1>5. PICK pc, to : pc = act.pc /\ to = code[pc].to
  OBVIOUS
<1>6. pc \in 1 .. Len(code)
  BY <1>3, <1>5
<1>7. ASSUME NEW d \in DOMAIN code, code[d].op = "PUT_8_WITH_POP", Covers(d, to)
      PROVE  Covers(d, pc)
  <2>1. CASE code[pc].op = "JUMP_IF_FALSE"
    <3>1. to \in Nat /\ pc < to
      BY <2>1, <1>3, <1>4, <1>5, <1>6 DEF Skip
    <3>2. d < to
      BY <1>7 DEF Covers
    <3>3. ~(pc < d)
      BY <3>1, <3>2, <2>1, <1>3, <1>5, <1>6, <1>7 DEF Covers, Skip
    <3>4. d # pc
      BY <2>1, <1>5, <1>7 DEF Declares
    <3>5. d < pc
      BY <3>3, <3>4, <1>3, <1>6
    <3>6. ASSUME NEW b \in DOMAIN code, b < d, Skip(b), d < code[b].to
          PROVE  pc < code[b].to
      <4>1. to < code[b].to
        BY <3>6, <1>7 DEF Covers
      <4>2. code[b].to \in Nat
        BY <3>6, <1>4
      <4>3. QED  BY <4>1, <4>2, <3>1, <1>6
    <3>7. QED  BY <3>5, <3>6 DEF Covers
  <2>2. CASE code[pc].op = "JUMP_BACK"
    <3>1. to \in 1 .. pc - 1 /\ Skip(to) /\ code[to].to = pc + 1
      BY <2>2, <1>2, <1>3, <1>5, <1>6 DEF WellNested
    <3>2. d < to
      BY <1>7 DEF Covers
    <3>3. d < pc
      BY <3>1, <3>2, <1>3, <1>6
    <3>4. ASSUME NEW b \in DOMAIN code, b < d, Skip(b), d < code[b].to
          PROVE  pc < code[b].to
      <4>1. to < code[b].to
        BY <3>4, <1>7 DEF Covers
      <4>2. to \in DOMAIN code /\ b < to
        BY <3>1, <3>2, <3>4, <1>3, <1>6
      <4>3. pc + 1 <= code[b].to
        BY <4>1, <4>2, <3>1, <3>4, <1>4
      <4>4. code[b].to \in Nat
        BY <3>4, <1>4
      <4>5. QED  BY <4>3, <4>4, <1>6
    <3>5. QED  BY <3>3, <3>4, <1>3, <1>6 DEF Covers
  <2>3. QED  BY <2>1, <2>2, <1>5
<1>8. to \in 1 .. Len(code) + 1
  <2>1. CASE code[pc].op = "JUMP_IF_FALSE"
    BY <2>1, <1>3, <1>4, <1>5, <1>6 DEF Skip
  <2>2. CASE code[pc].op = "JUMP_BACK"
    <3>1. to \in 1 .. pc - 1
      BY <2>2, <1>2, <1>3, <1>5, <1>6 DEF WellNested
    <3>2. QED  BY <3>1, <1>3, <1>6
  <2>3. QED  BY <2>1, <2>2, <1>5
<1>9. ASSUME NEW d \in DOMAIN code, NEW i \in DOMAIN locals, (Declares(d, i) /\ Covers(d, act.pc))'
      PROVE  act'.var[i] # 0
  <2>1. Declares(d, i) /\ Covers(d, to)
    BY <1>1, <1>5, <1>9 DEF Declares, Covers, Skip
  <2>2. Covers(d, act.pc)
    BY <2>1, <1>5, <1>7 DEF Declares
  <2>3. act # <<>> => \A e \in DOMAIN code : \A j \in DOMAIN locals :
          Declares(e, j) /\ Covers(e, act.pc) => act.var[j] # 0
    BY DEF RunInv, Reached
  <2>4. QED  BY <2>1, <2>2, <2>3
<1>10. Reached'
  BY <1>1, <1>9 DEF Reached
<1>11. QED  BY <1>5, <1>8, <1>10

\* The variables of the activation are those it had.
SameVariables ==
  \A i \in DOMAIN locals :
    /\ (Has(i))' <=> Has(i)
    /\ Has(i) => act'.var[i] = act.var[i] /\ act'.moved[i] = act.moved[i]

LEMMA VarTypes ==
  ASSUME RunTyped, NEW i \in DOMAIN locals, Has(i)
  PROVE  act.var[i] \in DOMAIN vals /\ act.var[i] \in Nat /\ act.var[i] <= Len(vals)
<1>1. act.var \in [DOMAIN locals -> 0 .. Len(vals)]
  BY ActTypes DEF Has
<1>2. vals \in Seq(Nat)
  BY DEF RunTyped
<1>3. act.var[i] \in 0 .. Len(vals) /\ act.var[i] # 0
  BY <1>1 DEF Has
<1>4. QED  BY <1>2, <1>3

LEMMA OwnedItems ==
  /\ \A i \in DOMAIN locals : Has(i) /\ act.moved[i] => <<r[Place(i)].v, act.var[i]>> \in Bonds
  /\ \A b \in Owned : \E i \in DOMAIN locals :
       Has(i) /\ act.moved[i] /\ b = <<r[Place(i)].v, act.var[i]>>
BY DEF Bonds, Owned

LEMMA HeldItems ==
  /\ \A c \in DOMAIN callables : \A k \in DOMAIN callables[c].links :
       <<callables[c].links[k], callables[c].of[k]>> \in Held
  /\ \A b \in Held : \E c \in DOMAIN callables : \E k \in DOMAIN callables[c].links :
       b = <<callables[c].links[k], callables[c].of[k]>>
BY DEF Held

\* There are no bonds but those there were, if what registers hold is the same.
LEMMA SameOwned ==
  ASSUME SameVariables, UNCHANGED <<locals, callables>>,
         \A i \in DOMAIN locals : Has(i) /\ act.moved[i] => r'[Place(i)].v = r[Place(i)].v
  PROVE  Bonds' \subseteq Bonds
<1>1. Held' = Held
  BY DEF Held
<1>2. ASSUME NEW b \in Owned'
      PROVE  b \in Bonds
  <2>1. PICK i \in DOMAIN locals : (Has(i))' /\ act'.moved[i] /\ b = <<r'[Place(i)].v, act'.var[i]>>
    BY DEF Owned
  <2>2. Has(i) /\ act.moved[i] /\ b = <<r[Place(i)].v, act.var[i]>>
    BY <2>1 DEF SameVariables
  <2>3. QED  BY <2>2, OwnedItems
<1>3. QED  BY <1>1, <1>2 DEF Bonds

\* Nothing is stored.
LEMMA LinkedRests ==
  ASSUME Linked, SameVariables, UNCHANGED <<locals, r, heap, callables, vals>>
  PROVE  Linked'
<1>1. Bonds' \subseteq Bonds
  BY SameOwned
<1>2. Tagged' /\ Distinct'
  BY DEF Linked, Tagged, Distinct, SameVariables
<1>3. Alike' /\ Paired'
  BY <1>1 DEF Linked, Alike, Paired
<1>4. Alone'
  BY <1>1 DEF Linked, Alone, SameVariables
<1>5. QED  BY <1>2, <1>3, <1>4 DEF Linked

\* An activation without variables, and none.
LEMMA LinkedWithout ==
  ASSUME Linked, \A i \in DOMAIN locals' : ~(Has(i))', UNCHANGED <<heap, callables, vals>>
  PROVE  Linked'
<1>1. Held' = Held /\ Owned' = {}
  BY DEF Held, Owned
<1>2. Bonds' \subseteq Bonds
  BY <1>1 DEF Bonds
<1>3. Tagged' /\ Distinct' /\ Alone'
  BY DEF Tagged, Distinct, Alone
<1>4. Alike' /\ Paired'
  BY <1>2 DEF Linked, Alike, Paired
<1>5. QED  BY <1>3, <1>4 DEF Linked

\* A store through a link, whoever does it: the link and its variable change together.
LEMMA LinkedStores ==
  ASSUME RunTyped, Linked, SameVariables, UNCHANGED <<locals, r, callables>>,
         NEW h, NEW v, <<h, v>> \in Bonds, NEW x \in Nat,
         heap' = [heap EXCEPT ![h] = x], vals' = [vals EXCEPT ![v] = x]
  PROVE  /\ Linked'
         /\ DOMAIN heap' = DOMAIN heap /\ heap' = [g \in DOMAIN heap' |-> heap'[g]]
         /\ vals' \in Seq(Nat) /\ Len(vals') = Len(vals)
<1>1. Bonds' \subseteq Bonds
  BY SameOwned
<1>2. vals \in Seq(Nat) /\ heap = [g \in DOMAIN heap |-> heap[g]]
  BY DEF RunTyped
<1>3. h \in DOMAIN heap /\ v \in DOMAIN vals
  BY DEF Linked, Alike
<1>4. /\ DOMAIN heap' = DOMAIN heap /\ heap' = [g \in DOMAIN heap' |-> heap'[g]]
      /\ heap'[h] = x /\ \A g \in DOMAIN heap : g # h => heap'[g] = heap[g]
  BY <1>2, <1>3
<1>5. /\ vals' \in Seq(Nat) /\ Len(vals') = Len(vals) /\ DOMAIN vals' = DOMAIN vals
      /\ vals'[v] = x /\ \A w \in DOMAIN vals : w # v => vals'[w] = vals[w]
  BY <1>2, <1>3
<1>6. Tagged' /\ Distinct'
  BY DEF Linked, Tagged, Distinct, SameVariables
<1>7. Paired'
  BY <1>1 DEF Linked, Paired
<1>8. ASSUME NEW b \in Bonds
      PROVE  b[1] \in DOMAIN heap' /\ b[2] \in DOMAIN vals' /\ heap'[b[1]] = vals'[b[2]]
  <2>1. b[1] \in DOMAIN heap /\ b[2] \in DOMAIN vals /\ heap[b[1]] = vals[b[2]]
    BY DEF Linked, Alike
  <2>2. b[1] = h <=> b[2] = v
    BY DEF Linked, Paired
  <2>3. QED  BY <2>1, <2>2, <1>4, <1>5
<1>9. Alike'
  BY <1>1, <1>8 DEF Alike
<1>10. ASSUME NEW i \in DOMAIN locals, Has(i), ~act.moved[i]
       PROVE  r[Place(i)].v = vals'[act.var[i]] /\ \A b \in Bonds : b[2] # act.var[i]
  <2>1. r[Place(i)].v = vals[act.var[i]] /\ \A b \in Bonds : b[2] # act.var[i]
    BY <1>10 DEF Linked, Alone
  <2>2. act.var[i] # v
    BY <2>1
  <2>3. act.var[i] \in DOMAIN vals
    BY <1>2, <1>10, VarTypes
  <2>4. QED  BY <2>1, <2>2, <2>3, <1>5
<1>11. Alone'
  BY <1>1, <1>10 DEF Alone, SameVariables
<1>12. QED  BY <1>4, <1>5, <1>6, <1>7, <1>9, <1>11 DEF Linked

\* A record of an activation is one.
LEMMA NewActivation ==
  ASSUME NEW p, NEW v, NEW m, NEW a, a = [offset |-> Home, pc |-> p, var |-> v, moved |-> m]
  PROVE  /\ a # <<>> /\ a.offset = Home /\ a.pc = p /\ a.var = v /\ a.moved = m
         /\ \A P, V, M : p \in P /\ v \in V /\ m \in M =>
              a \in [offset : {Home}, pc : P, var : V, moved : M]
<1>1. DOMAIN a = {"offset", "pc", "var", "moved"}
  OBVIOUS
<1>2. DOMAIN <<>> = {}
  OBVIOUS
<1>3. a # <<>>
  BY <1>1, <1>2
<1>4. QED  BY <1>3

\* To the next instruction, with new contents of the activation.
LEMMA Stepped ==
  ASSUME CodeInv, RunTyped, act # <<>>, act.pc \in DOMAIN code, UNCHANGED compiling,
         NEW v, NEW m, Step([offset |-> act.offset, pc |-> act.pc, var |-> v, moved |-> m]),
         v \in [DOMAIN locals -> 0 .. Len(vals')], m \in [DOMAIN locals -> BOOLEAN]
  PROVE  /\ act' # <<>> /\ act'.pc = act.pc + 1 /\ act'.var = v /\ act'.moved = m
         /\ compiled' /\ act' \in Activations'
<1>1. compiled /\ act.offset = Home
  BY ActTypes
<1>2. UNCHANGED <<code, locals, compiled>>
  BY DEF compiling
<1>3. code \in Seq(Instrs)
  BY DEF CodeInv, CodeTyped
<1>4. PICK p : p = act.pc + 1
  OBVIOUS
<1>5. p \in 1 .. Len(code) + 1
  BY <1>3, <1>4
<1>6. act' = [offset |-> Home, pc |-> p, var |-> v, moved |-> m]
  BY <1>1, <1>4 DEF Step
<1>7. act' # <<>> /\ act'.pc = p /\ act'.var = v /\ act'.moved = m
  BY <1>6, NewActivation
<1>8. Activations' = [offset : {Home}, pc : 1 .. Len(code) + 1,
                      var : [DOMAIN locals -> 0 .. Len(vals')], moved : [DOMAIN locals -> BOOLEAN]]
  BY <1>2 DEF Activations
<1>9. act' \in Activations'
  BY <1>5, <1>6, <1>8, NewActivation
<1>10. QED  BY <1>1, <1>2, <1>4, <1>7, <1>9

\* And with the same.
LEMMA SteppedOver ==
  ASSUME CodeInv, RunInv, act # <<>>, act.pc \in DOMAIN code, UNCHANGED compiling, Step(act),
         Len(vals') = Len(vals), code[act.pc].op # "PUT_8_WITH_POP"
  PROVE  /\ act' # <<>> /\ compiled' /\ act' \in Activations'
         /\ SameVariables /\ Reached'
<1>1. RunTyped
  BY DEF RunInv
<1>2. /\ act = [offset |-> act.offset, pc |-> act.pc, var |-> act.var, moved |-> act.moved]
      /\ act.var \in [DOMAIN locals -> 0 .. Len(vals')]
      /\ act.moved \in [DOMAIN locals -> BOOLEAN]
  BY <1>1, ActTypes
<1>3. PICK o, p, v, m : o = act.offset /\ p = act.pc /\ v = act.var /\ m = act.moved
  OBVIOUS
<1>4. act = [offset |-> o, pc |-> p, var |-> v, moved |-> m]
  BY <1>2, <1>3
<1>5. Step([offset |-> act.offset, pc |-> act.pc, var |-> v, moved |-> m])
  BY <1>3, <1>4 DEF Step
<1>6. /\ act' # <<>> /\ act'.pc = act.pc + 1 /\ act'.var = v /\ act'.moved = m
      /\ compiled' /\ act' \in Activations'
  BY <1>1, <1>2, <1>3, <1>5, Stepped
<1>7. SameVariables
  BY <1>3, <1>6 DEF SameVariables, Has
<1>8. Reached'
  <2>1. \A i \in DOMAIN locals : ~Declares(act.pc, i)
    BY DEF Declares
  <2>2. QED  BY <2>1, <1>3, <1>6, ReachedNext
<1>9. QED  BY <1>6, <1>7, <1>8

\* What is left of the types when the activation goes on.
LEMMA StillTyped ==
  ASSUME RunTyped, act' # <<>> => compiled' /\ act' \in Activations',
         UNCHANGED <<r, heap, callables, vals, stores>>
  PROVE  RunTyped'
BY DEF RunTyped

LEMMA RunLoadKeeps == CodeInv /\ RunInv /\ RunLoad => RunInv'
<1> SUFFICES ASSUME CodeInv, RunInv, RunLoad PROVE RunInv'
  OBVIOUS
<1>1. /\ Running({"LOAD_8", "LOAD_LINK"}) /\ Step(act)
      /\ UNCHANGED <<compiling, r, heap, callables, vals, stores>>
  BY DEF RunLoad
<1>2. RunTyped /\ Linked
  BY DEF RunInv
<1>3. act # <<>> /\ act.pc \in DOMAIN code /\ code[act.pc].op \in {"LOAD_8", "LOAD_LINK"}
  BY <1>1, <1>2, InstrFacts
<1>4. act' # <<>> /\ compiled' /\ act' \in Activations' /\ SameVariables /\ Reached'
  <2>1. code[act.pc].op # "PUT_8_WITH_POP" /\ Len(vals') = Len(vals)
    BY <1>1, <1>3
  <2>2. QED  BY <2>1, <1>1, <1>3, SteppedOver
<1>5. locals' = locals
  BY <1>1 DEF compiling
<1>6. RunTyped' /\ Linked'
  BY <1>1, <1>2, <1>4, <1>5, StillTyped, LinkedRests
<1>7. QED  BY <1>4, <1>6 DEF RunInv

LEMMA RunJumpKeeps == CodeInv /\ RunInv /\ RunJump => RunInv'
<1> SUFFICES ASSUME CodeInv, RunInv, RunJump PROVE RunInv'
  OBVIOUS
<1>1. /\ Running({"JUMP_IF_FALSE", "JUMP_BACK"})
      /\ act' = [act EXCEPT !.pc = Instr.to] \/ Step(act)
      /\ UNCHANGED <<compiling, r, heap, callables, vals, stores>>
  BY DEF RunJump
<1>2. RunTyped /\ Linked
  BY DEF RunInv
<1>3. /\ act # <<>> /\ act.pc \in DOMAIN code /\ Instr = code[act.pc]
      /\ code[act.pc].op \in {"JUMP_IF_FALSE", "JUMP_BACK"}
  BY <1>1, <1>2, InstrFacts
<1>4. UNCHANGED <<locals, code, compiled>>
  BY <1>1 DEF compiling
<1>5. act' # <<>> /\ compiled' /\ act' \in Activations' /\ SameVariables /\ Reached'
  <2>1. CASE Step(act)
    <3>1. code[act.pc].op # "PUT_8_WITH_POP" /\ Len(vals') = Len(vals)
      BY <1>1, <1>3
    <3>2. QED  BY <3>1, <2>1, <1>1, <1>3, SteppedOver
  <2>2. CASE act' = [act EXCEPT !.pc = Instr.to]
    <3>1. PICK o, p, v, m : o = act.offset /\ p = Instr.to /\ v = act.var /\ m = act.moved
      OBVIOUS
    <3>2. /\ act = [offset |-> act.offset, pc |-> act.pc, var |-> act.var, moved |-> act.moved]
          /\ act.offset = Home /\ compiled
          /\ act.var \in [DOMAIN locals -> 0 .. Len(vals)]
          /\ act.moved \in [DOMAIN locals -> BOOLEAN]
      BY <1>2, <1>3, ActTypes
    <3>3. act' = [offset |-> Home, pc |-> p, var |-> v, moved |-> m]
      BY <2>2, <3>1, <3>2
    <3>4. act' # <<>> /\ act'.pc = p /\ act'.var = v /\ act'.moved = m
      BY <3>3, NewActivation
    <3>5. Reached' /\ act'.pc \in 1 .. Len(code) + 1
      BY <3>1, <3>4, <1>1, <1>3, ReachedJump
    <3>6. Activations' = [offset : {Home}, pc : 1 .. Len(code) + 1,
                          var : [DOMAIN locals -> 0 .. Len(vals)], moved : [DOMAIN locals -> BOOLEAN]]
      BY <1>1, <1>4 DEF Activations
    <3>7. act' \in Activations'
      BY <3>1, <3>2, <3>3, <3>4, <3>5, <3>6, NewActivation
    <3>8. SameVariables
      BY <3>1, <3>4, <1>3 DEF SameVariables, Has
    <3>9. QED  BY <3>2, <3>4, <3>5, <3>7, <3>8, <1>4
  <2>3. QED  BY <2>1, <2>2, <1>1
<1>6. RunTyped' /\ Linked'
  BY <1>1, <1>2, <1>4, <1>5, StillTyped, LinkedRests
<1>7. QED  BY <1>5, <1>6 DEF RunInv

LEMMA CallKeeps == CodeInv /\ RunInv /\ Offsets = {Home} /\ Call => RunInv'
<1> SUFFICES ASSUME CodeInv, RunInv, Offsets = {Home}, Call PROVE RunInv'
  OBVIOUS
<1>1. PICK v, m : v = [i \in DOMAIN locals |-> 0] /\ m = [i \in DOMAIN locals |-> FALSE]
  OBVIOUS
<1>2. /\ compiled /\ act' = [offset |-> Home, pc |-> 1, var |-> v, moved |-> m]
      /\ UNCHANGED <<compiling, r, heap, callables, vals, stores>>
  BY <1>1 DEF Call
<1>3. UNCHANGED <<code, locals, nest, compiled>>
  BY <1>2 DEF compiling
<1>4. act' # <<>> /\ act'.pc = 1 /\ act'.var = v /\ act'.moved = m
  BY <1>2, NewActivation
<1>5. RunTyped /\ Linked
  BY DEF RunInv
<1>6. act' \in Activations'
  <2>1. Len(code) \in Nat /\ Len(vals) \in Nat
    BY <1>5 DEF CodeInv, CodeTyped, RunTyped
  <2>2. /\ 1 \in 1 .. Len(code) + 1
        /\ v \in [DOMAIN locals -> 0 .. Len(vals)] /\ m \in [DOMAIN locals -> BOOLEAN]
    BY <2>1, <1>1
  <2>3. Activations' = [offset : {Home}, pc : 1 .. Len(code) + 1,
                        var : [DOMAIN locals -> 0 .. Len(vals)], moved : [DOMAIN locals -> BOOLEAN]]
    BY <1>2, <1>3 DEF Activations
  <2>4. QED  BY <2>2, <2>3, <1>2, NewActivation
<1>7. RunTyped'
  BY <1>2, <1>3, <1>5, <1>6, StillTyped
<1>8. Reached'
  <2>1. DOMAIN code = 1 .. Len(code) /\ Len(code) \in Nat
    BY DEF CodeInv, CodeTyped
  <2>2. ASSUME NEW d \in DOMAIN code, (Covers(d, act.pc))'
        PROVE  FALSE
    <3>1. d < 1
      BY <2>2, <1>4 DEF Covers
    <3>2. QED  BY <3>1, <2>1
  <2>3. QED  BY <2>2, <1>3 DEF Reached
<1>9. Linked'
  <2>1. \A i \in DOMAIN locals' : ~(Has(i))'
    BY <1>1, <1>3, <1>4 DEF Has
  <2>2. QED  BY <2>1, <1>2, <1>5, LinkedWithout
<1>10. QED  BY <1>7, <1>8, <1>9 DEF RunInv

LEMMA RunReturnKeeps == RunInv /\ RunReturn => RunInv'
<1> SUFFICES ASSUME RunInv, RunReturn PROVE RunInv'
  OBVIOUS
<1>1. act' = <<>> /\ UNCHANGED <<compiling, r, heap, callables, vals, stores>>
  BY DEF RunReturn
<1>2. RunTyped /\ Linked
  BY DEF RunInv
<1>3. RunTyped'
  BY <1>1, <1>2, StillTyped
<1>4. Reached' /\ \A i \in DOMAIN locals' : ~(Has(i))'
  BY <1>1 DEF Reached, Has
<1>5. Linked'
  BY <1>1, <1>2, <1>4, LinkedWithout
<1>6. QED  BY <1>3, <1>4, <1>5 DEF RunInv

\* Nothing of the machine that matters changes, and the text does not either.
LEMMA MachineRests ==
  RunInv /\ UNCHANGED <<compiling, r, heap, callables, act, vals, stores>> => RunInv'
<1> SUFFICES ASSUME RunInv, UNCHANGED <<compiling, r, heap, callables, act, vals, stores>> PROVE RunInv'
  OBVIOUS
<1>1. UNCHANGED <<code, locals, compiled>>
  BY DEF compiling
<1>2. RunTyped'
  <2>1. Activations' = Activations
    BY <1>1 DEF Activations
  <2>2. QED  BY <2>1, <1>1, StillTyped DEF RunInv, RunTyped
<1>3. Reached'
  BY <1>1 DEF RunInv, Reached, Declares, Covers, Skip
<1>4. SameVariables
  BY DEF SameVariables, Has
<1>5. Linked'
  BY <1>1, <1>4, LinkedRests DEF RunInv
<1>6. QED  BY <1>2, <1>3, <1>5 DEF RunInv

LEMMA CompilerStepsKeep == CodeInv /\ RunInv /\ CompilerSteps => RunInv'
<1> SUFFICES ASSUME CodeInv, RunInv, CompilerSteps PROVE RunInv'
  OBVIOUS
<1>1. UNCHANGED machine /\ ~compiled
  BY CompilerSpares DEF CodeInv, Opened
<1>2. RunTyped /\ Linked
  BY DEF RunInv
<1>3. act = <<>> /\ UNCHANGED <<r, heap, callables, act, vals, stores>>
  BY <1>1, <1>2 DEF RunTyped, machine
<1>4. RunTyped'
  BY <1>2, <1>3, StillTyped
<1>5. Reached' /\ \A i \in DOMAIN locals' : ~(Has(i))'
  BY <1>3 DEF Reached, Has
<1>6. Linked'
  BY <1>2, <1>3, <1>5, LinkedWithout
<1>7. QED  BY <1>4, <1>5, <1>6 DEF RunInv

LEMMA PutClosureKeeps == RunInv /\ PutClosure => RunInv'
<1> SUFFICES ASSUME RunInv, PutClosure PROVE RunInv'
  OBVIOUS
<1>0. PICK c \in DOMAIN callables : \E k \in DOMAIN callables[c].links :
        /\ heap' = [heap EXCEPT ![callables[c].links[k]] = stores']
        /\ vals' = [vals EXCEPT ![callables[c].of[k]] = stores']
  BY DEF PutClosure
<1>1. PICK k \in DOMAIN callables[c].links :
        /\ heap' = [heap EXCEPT ![callables[c].links[k]] = stores']
        /\ vals' = [vals EXCEPT ![callables[c].of[k]] = stores']
  BY <1>0
<1>2. stores' = stores + 1 /\ UNCHANGED <<compiling, r, callables, act>>
  BY DEF PutClosure, Storing
<1>3. RunTyped /\ Linked
  BY DEF RunInv
<1>4. PICK h, v : h = callables[c].links[k] /\ v = callables[c].of[k]
  OBVIOUS
<1>5. <<h, v>> \in Bonds
  BY <1>4, HeldItems DEF Bonds
<1>6. UNCHANGED <<code, locals, compiled>>
  BY <1>2 DEF compiling
<1>7. SameVariables
  BY <1>2 DEF SameVariables, Has
<1>8. stores \in Nat
  BY <1>3 DEF RunTyped
<1>9. PICK x \in Nat : x = stores'
  BY <1>2, <1>8
<1>10. /\ Linked'
       /\ DOMAIN heap' = DOMAIN heap /\ heap' = [g \in DOMAIN heap' |-> heap'[g]]
       /\ vals' \in Seq(Nat) /\ Len(vals') = Len(vals)
  <2>1. heap' = [heap EXCEPT ![h] = x] /\ vals' = [vals EXCEPT ![v] = x]
    BY <1>1, <1>4, <1>9
  <2>2. QED  BY <2>1, <1>2, <1>3, <1>5, <1>6, <1>7, LinkedStores
<1>11. RunTyped'
  <2>1. Activations' = Activations
    BY <1>6, <1>10 DEF Activations
  <2>2. QED  BY <2>1, <1>2, <1>3, <1>6, <1>9, <1>10 DEF RunTyped
<1>12. Reached'
  BY <1>2, <1>6 DEF RunInv, Reached, Declares, Covers, Skip
<1>13. QED  BY <1>10, <1>11, <1>12 DEF RunInv

\* A variable has moved just where the access to it is to a link, if the captures that ran are
\* those of the text.
LEMMA MovedWhereLinked ==
  ASSUME CodeInv, RunInv, NEW ops, ops \subseteq Accesses, Running(ops), InOrder(Instr.local)
  PROVE  /\ Instr.local \in DOMAIN locals /\ Has(Instr.local)
         /\ act.moved[Instr.local] <=> Instr.op \in LinkOps
<1>1. RunTyped /\ LinksKnown
  BY DEF RunInv, CodeInv
<1>2. /\ act # <<>> /\ act.pc \in DOMAIN code /\ Instr = code[act.pc]
      /\ Instr.op \in Accesses /\ Instr.local \in DOMAIN locals
  BY <1>1, InstrFacts
<1>3. Has(Instr.local)
  BY <1>2, UsesWhatItHas DEF Uses, Touches
<1>4. CaptureBefore(Instr.local) <=> CapturedBefore(Instr.local, act.pc)
  BY DEF CaptureBefore, CapturedBefore, Captures, Takes
<1>5. act.moved[Instr.local] = CaptureBefore(Instr.local)
  BY DEF InOrder
<1>6. Instr.op \in LinkOps <=> CapturedBefore(Instr.local, act.pc)
  BY <1>1, <1>2 DEF LinksKnown
<1>7. QED  BY <1>2, <1>3, <1>4, <1>5, <1>6

LEMMA RunAssignKeeps == CodeInv /\ RunInv /\ Offsets = {Home} /\ RunAssign => RunInv'
<1> SUFFICES ASSUME CodeInv, RunInv, Offsets = {Home}, RunAssign PROVE RunInv'
  OBVIOUS
<1>0. PICK i : i = Instr.local
  OBVIOUS
<1>1. /\ Running({"PUT_8", "PUT_LINK"}) /\ InOrder(i) /\ stores' = stores + 1
      /\ Step(act) /\ vals' = [vals EXCEPT ![act.var[i]] = stores']
      /\ UNCHANGED <<compiling, callables>>
  BY <1>0 DEF RunAssign, Storing
<1>2. RunTyped /\ Linked
  BY DEF RunInv
<1>3. /\ act # <<>> /\ act.pc \in DOMAIN code /\ Instr = code[act.pc]
      /\ Instr.op \in {"PUT_8", "PUT_LINK"}
  BY <1>1, <1>2, InstrFacts
<1>4. i \in DOMAIN locals /\ Has(i) /\ (act.moved[i] <=> Instr.op \in LinkOps)
  <2>1. {"PUT_8", "PUT_LINK"} \subseteq Accesses
    BY DEF Accesses
  <2>2. QED  BY <2>1, <1>0, <1>1, MovedWhereLinked
<1>5. Register(i) = Place(i)
  BY <1>2, <1>3, <1>4, RegisterIsPlace
<1>6. IF Instr.op = "PUT_LINK"
      THEN heap' = [heap EXCEPT ![r[Place(i)].v] = stores'] /\ r' = r
      ELSE r' = [r EXCEPT ![Place(i)] = Plain(stores')] /\ heap' = heap
  BY <1>0, <1>5 DEF RunAssign
<1>7. stores \in Nat /\ vals \in Seq(Nat) /\ r = [n \in Registers |-> r[n]]
  BY <1>2 DEF RunTyped
<1>8. PICK x \in Nat : x = stores'
  BY <1>1, <1>7
<1>9. PICK v : v = act.var[i]
  OBVIOUS
<1>10. v \in DOMAIN vals
  BY <1>2, <1>4, <1>9, VarTypes
<1>11. /\ vals' = [vals EXCEPT ![v] = x] /\ vals' \in Seq(Nat) /\ Len(vals') = Len(vals)
       /\ DOMAIN vals' = DOMAIN vals
       /\ vals'[v] = x /\ \A w \in DOMAIN vals : w # v => vals'[w] = vals[w]
  BY <1>1, <1>7, <1>8, <1>9, <1>10
<1>12. UNCHANGED <<code, locals, compiled>>
  BY <1>1 DEF compiling
<1>13. act' # <<>> /\ compiled' /\ act' \in Activations' /\ SameVariables /\ Reached'
  <2>1. code[act.pc].op # "PUT_8_WITH_POP"
    BY <1>3
  <2>2. QED  BY <2>1, <1>1, <1>3, <1>11, SteppedOver
<1>14. CASE Instr.op = "PUT_LINK"
  <2>1. act.moved[i]
    BY <1>4, <1>14 DEF LinkOps
  <2>2. PICK h : h = r[Place(i)].v
    OBVIOUS
  <2>3. <<h, v>> \in Bonds
    BY <2>1, <2>2, <1>4, <1>9, OwnedItems
  <2>4. heap' = [heap EXCEPT ![h] = x] /\ r' = r
    BY <2>2, <1>6, <1>8, <1>14
  <2>5. /\ Linked'
        /\ DOMAIN heap' = DOMAIN heap /\ heap' = [g \in DOMAIN heap' |-> heap'[g]]
    <3>1. RunTyped /\ Linked /\ SameVariables /\ UNCHANGED <<locals, r, callables>>
      BY <2>4, <1>1, <1>2, <1>12, <1>13
    <3>2. vals' = [vals EXCEPT ![v] = x] /\ heap' = [heap EXCEPT ![h] = x]
      BY <2>4, <1>11
    <3>3. QED  BY <3>1, <3>2, <2>3, LinkedStores
  <2>6. RunTyped'
    BY <2>4, <2>5, <1>1, <1>2, <1>8, <1>11, <1>13 DEF RunTyped
  <2>7. QED  BY <2>5, <2>6, <1>13 DEF RunInv
<1>15. CASE Instr.op = "PUT_8"
  <2>1. ~act.moved[i]
    BY <1>4, <1>15 DEF LinkOps
  <2>2. heap' = heap /\ r' = [r EXCEPT ![Place(i)] = Plain(x)]
    BY <1>6, <1>8, <1>15
  <2>3. /\ Place(i) \in Registers
        /\ \A j \in DOMAIN locals : j # i => Place(j) # Place(i) /\ Place(j) \in Registers
    BY <1>4, Places
  <2>4. /\ r' = [n \in Registers |-> r'[n]] /\ r'[Place(i)].v = x /\ r'[Place(i)].link = FALSE
        /\ \A j \in DOMAIN locals : j # i => r'[Place(j)] = r[Place(j)]
    BY <2>2, <2>3, <1>7 DEF Plain
  <2>5. Bonds' \subseteq Bonds
    <3>1. \A j \in DOMAIN locals : Has(j) /\ act.moved[j] => r'[Place(j)].v = r[Place(j)].v
      BY <2>1, <2>4
    <3>2. QED  BY <3>1, <1>1, <1>12, <1>13, SameOwned
  <2>6. \A b \in Bonds : b[2] # v
    BY <2>1, <1>2, <1>4, <1>9 DEF Linked, Alone
  <2>7. Tagged'
    <3>1. act.moved[i] = FALSE
      BY <2>1, <1>2, <1>3, <1>4, ActTypes
    <3>2. ASSUME NEW j \in DOMAIN locals, Has(j)
          PROVE  r'[Place(j)].link = act.moved[j]
      <4>1. CASE j = i
        BY <4>1, <3>1, <2>4
      <4>2. CASE j # i
        BY <4>2, <3>2, <2>4, <1>2 DEF Linked, Tagged
      <4>3. QED  BY <4>1, <4>2
    <3>3. QED  BY <3>2, <1>12, <1>13 DEF Tagged, SameVariables
  <2>8. Distinct'
    BY <1>2, <1>12, <1>13 DEF Linked, Distinct, SameVariables
  <2>9. Alike'
    <3>1. ASSUME NEW b \in Bonds
          PROVE  b[1] \in DOMAIN heap /\ b[2] \in DOMAIN vals' /\ heap[b[1]] = vals'[b[2]]
      <4>1. b[1] \in DOMAIN heap /\ b[2] \in DOMAIN vals /\ heap[b[1]] = vals[b[2]]
        BY <1>2 DEF Linked, Alike
      <4>2. QED  BY <4>1, <2>6, <1>11
    <3>2. QED  BY <3>1, <2>2, <2>5 DEF Alike
  <2>10. Paired'
    BY <2>5, <1>2 DEF Linked, Paired
  <2>11. ASSUME NEW j \in DOMAIN locals, Has(j), ~act.moved[j]
         PROVE  r'[Place(j)].v = vals'[act.var[j]] /\ \A b \in Bonds : b[2] # act.var[j]
    <3>1. r[Place(j)].v = vals[act.var[j]] /\ \A b \in Bonds : b[2] # act.var[j]
      BY <2>11, <1>2 DEF Linked, Alone
    <3>2. CASE j = i
      BY <3>1, <3>2, <2>4, <1>9, <1>11
    <3>3. CASE j # i
      <4>1. act.var[j] # v
        BY <3>3, <2>11, <1>2, <1>4, <1>9 DEF Linked, Distinct
      <4>2. act.var[j] \in DOMAIN vals
        BY <2>11, <1>2, VarTypes
      <4>3. QED  BY <4>1, <4>2, <3>1, <3>3, <2>4, <1>11
    <3>4. QED  BY <3>2, <3>3
  <2>12. Alone'
    BY <2>5, <2>11, <1>12, <1>13 DEF Alone, SameVariables
  <2>13. Linked'
    BY <2>7, <2>8, <2>9, <2>10, <2>12 DEF Linked
  <2>14. RunTyped'
    BY <2>2, <2>4, <1>1, <1>2, <1>8, <1>11, <1>13 DEF RunTyped
  <2>15. QED  BY <2>13, <2>14, <1>13 DEF RunInv
<1>16. QED  BY <1>3, <1>14, <1>15

LEMMA RunDeclareKeeps == CodeInv /\ RunInv /\ Offsets = {Home} /\ RunDeclare => RunInv'
<1> SUFFICES ASSUME CodeInv, RunInv, Offsets = {Home}, RunDeclare PROVE RunInv'
  OBVIOUS
<1>0. PICK i : i = Instr.local
  OBVIOUS
<1>1. /\ Running({"PUT_8_WITH_POP"}) /\ stores' = stores + 1
      /\ vals' = Append(vals, stores') /\ r' = [r EXCEPT ![Register(i)] = Plain(stores')]
      /\ Step([act EXCEPT !.var[i] = Len(vals) + 1, !.moved[i] = FALSE])
      /\ UNCHANGED <<compiling, heap, callables>>
  BY <1>0 DEF RunDeclare, Storing
<1>2. RunTyped /\ Linked
  BY DEF RunInv
<1>3. /\ act # <<>> /\ act.pc \in DOMAIN code /\ Instr = code[act.pc]
      /\ Instr.op = "PUT_8_WITH_POP" /\ i \in DOMAIN locals
  BY <1>0, <1>1, <1>2, InstrFacts
<1>4. Register(i) = Place(i)
  BY <1>2, <1>3, RegisterIsPlace
<1>5. stores \in Nat /\ vals \in Seq(Nat) /\ r = [n \in Registers |-> r[n]]
  BY <1>2 DEF RunTyped
<1>6. PICK x \in Nat : x = stores'
  BY <1>1, <1>5
<1>7. PICK y : y = Len(vals) + 1
  OBVIOUS
<1>8. /\ vals' \in Seq(Nat) /\ Len(vals) \in Nat /\ Len(vals') = y /\ vals'[y] = x
      /\ DOMAIN vals = 1 .. y - 1 /\ DOMAIN vals' = 1 .. y /\ y \in Nat /\ y # 0
      /\ \A w \in DOMAIN vals : w # y /\ w \in DOMAIN vals' /\ vals'[w] = vals[w]
  BY <1>1, <1>5, <1>6, <1>7
<1>9. UNCHANGED <<code, locals, compiled>>
  BY <1>1 DEF compiling
<1>10. PICK v, m : v = [act.var EXCEPT ![i] = y] /\ m = [act.moved EXCEPT ![i] = FALSE]
  OBVIOUS
<1>11. /\ act = [offset |-> act.offset, pc |-> act.pc, var |-> act.var, moved |-> act.moved]
       /\ act.var \in [DOMAIN locals -> 0 .. Len(vals)]
       /\ act.moved \in [DOMAIN locals -> BOOLEAN]
  BY <1>2, <1>3, ActTypes
<1>12. /\ v \in [DOMAIN locals -> 0 .. Len(vals')] /\ m \in [DOMAIN locals -> BOOLEAN]
       /\ v[i] = y /\ m[i] = FALSE
       /\ \A j \in DOMAIN locals : j # i => v[j] = act.var[j] /\ m[j] = act.moved[j]
  <2>1. act.var \in [DOMAIN locals -> 0 .. Len(vals')] /\ y \in 0 .. Len(vals')
    BY <1>8, <1>11
  <2>2. QED  BY <2>1, <1>3, <1>10, <1>11
<1>13. /\ act' # <<>> /\ act'.pc = act.pc + 1 /\ act'.var = v /\ act'.moved = m
       /\ compiled' /\ act' \in Activations'
  <2>1. Step([offset |-> act.offset, pc |-> act.pc, var |-> v, moved |-> m])
    <3>1. [act EXCEPT !.var[i] = y, !.moved[i] = FALSE]
            = [offset |-> act.offset, pc |-> act.pc, var |-> v, moved |-> m]
      <4>1. PICK o, p, w, n : o = act.offset /\ p = act.pc /\ w = act.var /\ n = act.moved
        OBVIOUS
      <4>2. act = [offset |-> o, pc |-> p, var |-> w, moved |-> n]
        BY <4>1, <1>11
      <4>3. v = [w EXCEPT ![i] = y] /\ m = [n EXCEPT ![i] = FALSE]
        BY <4>1, <1>10
      <4>4. PICK a, b : a = act /\ b = FALSE
        OBVIOUS
      <4>5. a = [offset |-> o, pc |-> p, var |-> w, moved |-> n]
        BY <4>2, <4>4
      <4>6. a.var = w /\ a.moved = n
        BY <4>5
      <4>7. PICK c : c = [a EXCEPT !.var = v]
        OBVIOUS
      <4>8. c = [offset |-> o, pc |-> p, var |-> v, moved |-> n]
        BY <4>5, <4>7
      <4>9. [a EXCEPT !.var[i] = y, !.moved[i] = b]
              = [[a EXCEPT !.var = [a.var EXCEPT ![i] = y]] EXCEPT !.moved[i] = b]
        BY Zenon
      <4>10. [a EXCEPT !.var = [a.var EXCEPT ![i] = y]] = c
        BY <4>3, <4>6, <4>7
      <4>11. [c EXCEPT !.moved[i] = b] = [c EXCEPT !.moved = [c.moved EXCEPT ![i] = b]]
        BY Zenon
      <4>12. c.moved = n
        BY <4>8
      <4>13. [c EXCEPT !.moved = m] = [offset |-> o, pc |-> p, var |-> v, moved |-> m]
        BY <4>8
      <4>14. [a EXCEPT !.var[i] = y, !.moved[i] = b]
               = [offset |-> o, pc |-> p, var |-> v, moved |-> m]
        BY <4>3, <4>4, <4>9, <4>10, <4>11, <4>12, <4>13
      <4>15. QED  BY <4>1, <4>4, <4>14
    <3>2. QED  BY <3>1, <1>1, <1>7
  <2>2. QED  BY <2>1, <1>1, <1>2, <1>3, <1>12, Stepped
<1>14. Reached'
  <2>1. \A j \in DOMAIN locals : act.var[j] # 0 => act'.var[j] # 0
    BY <1>8, <1>12, <1>13
  <2>2. \A j \in DOMAIN locals : Declares(act.pc, j) => act'.var[j] # 0
    BY <1>0, <1>3, <1>8, <1>12, <1>13 DEF Declares
  <2>3. QED  BY <2>1, <2>2, <1>1, <1>3, <1>13, ReachedNext
<1>15. \A j \in DOMAIN locals : j # i =>
         /\ (Has(j))' <=> Has(j)
         /\ act'.var[j] = act.var[j] /\ act'.moved[j] = act.moved[j]
  BY <1>3, <1>12, <1>13 DEF Has
<1>16. (Has(i))' /\ act'.var[i] = y /\ act'.moved[i] = FALSE
  BY <1>8, <1>12, <1>13 DEF Has
<1>17. /\ Place(i) \in Registers
       /\ \A j \in DOMAIN locals : j # i => Place(j) # Place(i) /\ Place(j) \in Registers
  BY <1>3, Places
<1>18. /\ r' = [n \in Registers |-> r'[n]] /\ r'[Place(i)].v = x /\ r'[Place(i)].link = FALSE
       /\ \A j \in DOMAIN locals : j # i => r'[Place(j)] = r[Place(j)]
  BY <1>1, <1>4, <1>5, <1>6, <1>17 DEF Plain
<1>19. Bonds' \subseteq Bonds
  <2>1. Held' = Held
    BY <1>1 DEF Held
  <2>2. ASSUME NEW b \in Owned'
        PROVE  b \in Bonds
    <3>1. PICK j \in DOMAIN locals : (Has(j))' /\ act'.moved[j] /\ b = <<r'[Place(j)].v, act'.var[j]>>
      BY <1>9 DEF Owned
    <3>2. j # i
      BY <3>1, <1>16
    <3>3. Has(j) /\ act.moved[j] /\ b = <<r[Place(j)].v, act.var[j]>>
      BY <3>1, <3>2, <1>15, <1>18
    <3>4. QED  BY <3>3, OwnedItems
  <2>3. QED  BY <2>1, <2>2 DEF Bonds
<1>20. \A b \in Bonds : b[1] \in DOMAIN heap /\ b[2] \in DOMAIN vals /\ heap[b[1]] = vals[b[2]]
  BY <1>2 DEF Linked, Alike
<1>21. Tagged'
  <2>1. ASSUME NEW j \in DOMAIN locals, (Has(j))'
        PROVE  r'[Place(j)].link = act'.moved[j]
    <3>1. CASE j = i
      BY <3>1, <1>16, <1>18
    <3>2. CASE j # i
      BY <3>2, <2>1, <1>2, <1>15, <1>18 DEF Linked, Tagged
    <3>3. QED  BY <3>1, <3>2
  <2>2. QED  BY <2>1, <1>9 DEF Tagged
<1>22. \A j \in DOMAIN locals : Has(j) => act.var[j] \in DOMAIN vals
  BY <1>2, VarTypes
<1>23. Distinct'
  <2>1. ASSUME NEW j \in DOMAIN locals, NEW k \in DOMAIN locals, (Has(j))', (Has(k))',
               act'.var[j] = act'.var[k]
        PROVE  j = k
    <3>1. CASE j # i /\ k # i
      BY <3>1, <2>1, <1>2, <1>15 DEF Linked, Distinct
    <3>2. CASE j = i /\ k # i
      BY <3>2, <2>1, <1>8, <1>15, <1>16, <1>22
    <3>3. CASE j # i /\ k = i
      BY <3>3, <2>1, <1>8, <1>15, <1>16, <1>22
    <3>4. QED  BY <3>1, <3>2, <3>3
  <2>2. QED  BY <2>1, <1>9 DEF Distinct
<1>24. Alike'
  BY <1>1, <1>8, <1>19, <1>20 DEF Alike
<1>25. Paired'
  BY <1>2, <1>19 DEF Linked, Paired
<1>26. ASSUME NEW j \in DOMAIN locals, (Has(j))', ~act'.moved[j]
       PROVE  r'[Place(j)].v = vals'[act'.var[j]] /\ \A b \in Bonds : b[2] # act'.var[j]
  <2>1. CASE j = i
    BY <2>1, <1>8, <1>16, <1>18, <1>20
  <2>2. CASE j # i
    <3>1. Has(j) /\ ~act.moved[j] /\ act'.var[j] = act.var[j]
      BY <2>2, <1>15, <1>26
    <3>2. r[Place(j)].v = vals[act.var[j]] /\ \A b \in Bonds : b[2] # act.var[j]
      BY <3>1, <1>2 DEF Linked, Alone
    <3>3. QED  BY <3>1, <3>2, <2>2, <1>8, <1>18, <1>22
  <2>3. QED  BY <2>1, <2>2
<1>27. Alone'
  BY <1>9, <1>19, <1>26 DEF Alone
<1>28. Linked'
  BY <1>21, <1>23, <1>24, <1>25, <1>27 DEF Linked
<1>29. RunTyped'
  BY <1>1, <1>2, <1>6, <1>8, <1>13, <1>18 DEF RunTyped
<1>30. QED  BY <1>14, <1>28, <1>29 DEF RunInv

LEMMA RunCaptureKeeps == CodeInv /\ RunInv /\ Offsets = {Home} /\ RunCapture => RunInv'
<1> SUFFICES ASSUME CodeInv, RunInv, Offsets = {Home}, RunCapture PROVE RunInv'
  OBVIOUS
<1>1. PICK caps : caps = Instr.caps
  OBVIOUS
<1>2. PICK z : z = Len(callables) + 1
  OBVIOUS
<1>3. PICK moving : moving = {n \in DOMAIN r : Moves(n) /\ \E k \in DOMAIN caps : n = Place(caps[k])}
  OBVIOUS
<1>4. PICK made : made = {<<z, n>> : n \in moving}
  OBVIOUS
<1>5. PICK m : m = [i \in DOMAIN act.moved |-> act.moved[i] \/ \E k \in DOMAIN caps : caps[k] = i]
  OBVIOUS
<1>6. PICK of : of = [k \in DOMAIN caps |-> act.var[caps[k]]]
  OBVIOUS
<1>7. /\ Running({"DECLARE_FUNCTION"})
      /\ UNCHANGED <<compiling, vals, stores>>
  BY DEF RunCapture
<1>8. heap' = [h \in DOMAIN heap \cup made |-> IF h \in made THEN r[h[2]].v ELSE heap[h]]
  BY <1>1, <1>2, <1>3, <1>4 DEF RunCapture, Fresh
<1>9. r' = [n \in DOMAIN r |-> IF n \in moving THEN Link(<<z, n>>) ELSE r[n]]
  BY <1>1, <1>2, <1>3 DEF RunCapture, Fresh
<1>10. PICK links : links = [k \in DOMAIN caps |-> r'[Place(caps[k])].v]
  OBVIOUS
<1>11. callables' = Append(callables, [links |-> links, of |-> of])
  BY <1>1, <1>6, <1>10 DEF RunCapture
<1>12. Step([act EXCEPT !.moved = m])
  BY <1>1, <1>5 DEF RunCapture
<1>13. RunTyped /\ Linked
  BY DEF RunInv
<1>14. /\ act # <<>> /\ act.pc \in DOMAIN code /\ Instr = code[act.pc]
       /\ Instr.op = "DECLARE_FUNCTION"
       /\ caps \in Seq(Nat) /\ \A k \in DOMAIN caps : caps[k] \in DOMAIN locals
  BY <1>1, <1>7, <1>13, InstrFacts
<1>15. UNCHANGED <<code, locals, compiled>>
  BY <1>7 DEF compiling
<1>16. \A k \in DOMAIN caps : Has(caps[k])
  <2>1. ASSUME NEW k \in DOMAIN caps
        PROVE  Has(caps[k])
    <3>1. Uses(act.pc, caps[k])
      BY <1>1, <1>14 DEF Uses, Touches, Takes
    <3>2. QED  BY <3>1, <1>14, UsesWhatItHas
  <2>2. QED  BY <2>1
<1>17. /\ act = [offset |-> act.offset, pc |-> act.pc, var |-> act.var, moved |-> act.moved]
       /\ act.var \in [DOMAIN locals -> 0 .. Len(vals)]
       /\ act.moved \in [DOMAIN locals -> BOOLEAN]
  BY <1>13, <1>14, ActTypes
<1>18. PICK N : N = {i \in DOMAIN locals : act.moved[i] = FALSE /\ \E k \in DOMAIN caps : caps[k] = i}
  OBVIOUS
<1>19. /\ m \in [DOMAIN locals -> BOOLEAN]
       /\ \A i \in DOMAIN locals : m[i] <=> act.moved[i] \/ i \in N
       /\ \A i \in N : m[i] = TRUE
       /\ \A i \in DOMAIN locals : i \notin N => m[i] = act.moved[i]
  BY <1>5, <1>17, <1>18
<1>20. /\ act' # <<>> /\ act'.pc = act.pc + 1 /\ act'.var = act.var /\ act'.moved = m
       /\ compiled' /\ act' \in Activations'
  <2>1. PICK v : v = act.var
    OBVIOUS
  <2>2. v \in [DOMAIN locals -> 0 .. Len(vals')]
    BY <2>1, <1>7, <1>17
  <2>3. [act EXCEPT !.moved = m] = [offset |-> act.offset, pc |-> act.pc, var |-> v, moved |-> m]
    <3>1. PICK o, p, n : o = act.offset /\ p = act.pc /\ n = act.moved
      OBVIOUS
    <3>2. act = [offset |-> o, pc |-> p, var |-> v, moved |-> n]
      BY <3>1, <2>1, <1>17
    <3>3. [act EXCEPT !.moved = m] = [offset |-> o, pc |-> p, var |-> v, moved |-> m]
      BY <3>2
    <3>4. QED  BY <3>1, <3>3
  <2>4. Step([offset |-> act.offset, pc |-> act.pc, var |-> v, moved |-> m])
    BY <2>3, <1>12
  <2>5. QED  BY <2>1, <2>2, <2>4, <1>7, <1>13, <1>14, <1>19, Stepped
<1>21. Reached'
  <2>1. \A i \in DOMAIN locals : ~Declares(act.pc, i)
    BY <1>14 DEF Declares
  <2>2. QED  BY <2>1, <1>7, <1>14, <1>20, ReachedNext
<1>22. \A i \in DOMAIN locals : (Has(i))' <=> Has(i)
  BY <1>14, <1>20 DEF Has
<1>23. /\ r = [n \in Registers |-> r[n]] /\ DOMAIN heap \subseteq (1 .. Len(callables)) \X Registers
       /\ callables \in Seq([links : Seq(Names), of : Seq(Nat)])
       /\ heap = [h \in DOMAIN heap |-> heap[h]]
       /\ vals \in Seq(Nat) /\ stores \in Nat
       /\ \A c \in DOMAIN callables : Len(callables[c].links) = Len(callables[c].of)
  BY <1>13 DEF RunTyped
<1>24. /\ \A i \in DOMAIN locals : Place(i) \in Registers
       /\ \A i, j \in DOMAIN locals : Place(i) = Place(j) => i = j
  BY Places
<1>25. \A i \in N : i \in DOMAIN locals /\ Has(i) /\ act.moved[i] = FALSE
  BY <1>16, <1>18
\* What moves are the registers of the variables in N.
<1>26. \A i \in DOMAIN locals : Place(i) \in moving <=> i \in N
  <2>1. ASSUME NEW i \in DOMAIN locals
        PROVE  Place(i) \in moving <=> i \in N
    <3>1. DOMAIN r = Registers
      BY <1>23
    <3>2. Place(i) \in moving <=>
            ~r[Place(i)].link /\ \E k \in DOMAIN caps : Place(i) = Place(caps[k])
      BY <3>1, <1>3, <1>24 DEF Moves
    <3>3. (\E k \in DOMAIN caps : Place(i) = Place(caps[k])) <=> \E k \in DOMAIN caps : caps[k] = i
      BY <1>14, <1>24
    <3>4. (\E k \in DOMAIN caps : caps[k] = i) => r[Place(i)].link = act.moved[i]
      BY <1>13, <1>16 DEF Linked, Tagged
    <3>5. act.moved[i] \in BOOLEAN
      BY <1>17
    <3>6. QED  BY <3>2, <3>3, <3>4, <3>5, <1>18
  <2>2. QED  BY <2>1
<1>27. \A i \in N : r'[Place(i)].link = TRUE /\ r'[Place(i)].v = <<z, Place(i)>>
  <2>1. ASSUME NEW i \in N
        PROVE  r'[Place(i)].link = TRUE /\ r'[Place(i)].v = <<z, Place(i)>>
    <3>1. Place(i) \in moving /\ Place(i) \in DOMAIN r
      BY <1>3, <1>25, <1>26
    <3>2. r'[Place(i)] = Link(<<z, Place(i)>>)
      BY <3>1, <1>9
    <3>3. QED  BY <3>2 DEF Link
  <2>2. QED  BY <2>1
<1>28. \A i \in DOMAIN locals : i \notin N => r'[Place(i)] = r[Place(i)]
  BY <1>9, <1>23, <1>24, <1>26
<1>29. r' = [n \in Registers |-> r'[n]] /\ moving \subseteq Registers
  BY <1>3, <1>9, <1>23
<1>30. z \in Nat /\ Len(callables) \in Nat /\ z = Len(callables) + 1
  BY <1>2, <1>23
<1>31. \A n : <<z, n>> \notin DOMAIN heap
  BY <1>23, <1>30
<1>32. /\ heap' = [h \in DOMAIN heap' |-> heap'[h]]
       /\ DOMAIN heap' = DOMAIN heap \cup made
       /\ \A h \in DOMAIN heap : h \in DOMAIN heap' /\ heap'[h] = heap[h]
  BY <1>4, <1>8, <1>31
<1>33. \A i \in DOMAIN locals : Has(i) => act.var[i] \in DOMAIN vals /\ act.var[i] \in Nat
  BY <1>13, VarTypes
<1>34. \A i \in N : /\ <<z, Place(i)>> \in DOMAIN heap'
                    /\ heap'[<<z, Place(i)>>] = vals[act.var[i]]
                    /\ \A b \in Bonds : b[2] # act.var[i]
  <2>1. ASSUME NEW i \in N
        PROVE  /\ <<z, Place(i)>> \in DOMAIN heap'
               /\ heap'[<<z, Place(i)>>] = vals[act.var[i]]
               /\ \A b \in Bonds : b[2] # act.var[i]
    <3>1. Place(i) \in moving
      BY <1>25, <1>26
    <3>2. <<z, Place(i)>> \in made
      BY <3>1, <1>4
    <3>3. heap'[<<z, Place(i)>>] = r[Place(i)].v
      BY <3>2, <1>8
    <3>4. r[Place(i)].v = vals[act.var[i]] /\ \A b \in Bonds : b[2] # act.var[i]
      BY <1>13, <1>25 DEF Linked, Alone
    <3>5. QED  BY <3>2, <3>3, <3>4, <1>32
  <2>2. QED  BY <2>1
<1>35. \A b \in Bonds : b[1] \in DOMAIN heap /\ b[2] \in DOMAIN vals /\ heap[b[1]] = vals[b[2]]
  BY <1>13 DEF Linked, Alike
\* Those that had moved before are bonds there were.
<1>36. ASSUME NEW i \in DOMAIN locals, Has(i), m[i], i \notin N
       PROVE  <<r'[Place(i)].v, act.var[i]>> \in Bonds
  <2>1. act.moved[i]
    BY <1>19, <1>36
  <2>2. <<r[Place(i)].v, act.var[i]>> \in Bonds
    BY <2>1, <1>36, OwnedItems
  <2>3. QED  BY <2>2, <1>28, <1>36
<1>37. PICK new : new = [links |-> links, of |-> of]
  OBVIOUS
<1>38. \A k \in DOMAIN caps : m[caps[k]]
  BY <1>5, <1>14, <1>17
<1>39. new \in [links : Seq(Names), of : Seq(Nat)] /\ Len(links) = Len(of)
       /\ DOMAIN links = DOMAIN caps
  <2>1. Len(caps) \in Nat /\ DOMAIN caps = 1 .. Len(caps)
    BY <1>14
  <2>2. ASSUME NEW k \in DOMAIN caps
        PROVE  links[k] \in Names
    <3>1. links[k] = r'[Place(caps[k])].v
      BY <1>10
    <3>2. CASE caps[k] \in N
      <4>1. links[k] = <<z, Place(caps[k])>>
        BY <3>1, <3>2, <1>27
      <4>2. Place(caps[k]) \in Registers
        BY <1>14, <1>24
      <4>3. QED  BY <4>1, <4>2, <1>30 DEF Names
    <3>3. CASE caps[k] \notin N
      <4>1. <<links[k], act.var[caps[k]]>> \in Bonds
        BY <3>1, <3>3, <1>14, <1>16, <1>36, <1>38
      <4>2. links[k] \in DOMAIN heap
        BY <4>1, <1>35
      <4>3. QED  BY <4>2, <1>23 DEF Names
    <3>4. QED  BY <3>2, <3>3
  <2>3. ASSUME NEW k \in DOMAIN caps
        PROVE  of[k] \in Nat
    BY <1>6, <1>14, <1>16, <1>33
  <2>4. links \in [1 .. Len(caps) -> Names] /\ of \in [1 .. Len(caps) -> Nat]
    BY <2>1, <2>2, <2>3, <1>6, <1>10
  <2>5. PICK l : l = Len(caps)
    OBVIOUS
  <2>6. l \in Nat /\ links \in [1 .. l -> Names] /\ of \in [1 .. l -> Nat]
    BY <2>1, <2>4, <2>5
  <2>7. links \in Seq(Names) /\ of \in Seq(Nat) /\ Len(links) = l /\ Len(of) = l
    BY <2>6, SeqOfItems
  <2>8. QED  BY <2>1, <2>5, <2>6, <2>7, <1>37
<1>40. new.links = links /\ new.of = of
  BY <1>37
<1>41. /\ callables' \in Seq([links : Seq(Names), of : Seq(Nat)])
       /\ Len(callables') = z /\ DOMAIN callables' = DOMAIN callables \cup {z}
       /\ callables'[z] = new
       /\ \A c \in DOMAIN callables : callables'[c] = callables[c]
  <2>1. PICK S : S = [links : Seq(Names), of : Seq(Nat)]
    OBVIOUS
  <2>2. callables \in Seq(S) /\ new \in S /\ callables' = Append(callables, new)
    BY <2>1, <1>11, <1>23, <1>37, <1>39
  <2>3. QED  BY <2>1, <2>2, <1>30
<1>42. ASSUME NEW b \in Bonds'
       PROVE  b \in Bonds \/ \E i \in N : b = <<<<z, Place(i)>>, act.var[i]>>
  <2>1. CASE b \in Held'
    <3>1. PICK c \in DOMAIN callables' : \E k \in DOMAIN callables'[c].links :
            b = <<callables'[c].links[k], callables'[c].of[k]>>
      BY <2>1 DEF Held
    <3>2. PICK k \in DOMAIN callables'[c].links : b = <<callables'[c].links[k], callables'[c].of[k]>>
      BY <3>1
    <3>3. CASE c \in DOMAIN callables
      <4>1. callables'[c] = callables[c]
        BY <3>3, <1>41
      <4>2. b \in Held
        BY <3>2, <3>3, <4>1, HeldItems
      <4>3. QED  BY <4>2 DEF Bonds
    <3>4. CASE c = z
      <4>1. k \in DOMAIN caps /\ b = <<links[k], of[k]>>
        BY <3>2, <3>4, <1>39, <1>40, <1>41
      <4>2. b = <<r'[Place(caps[k])].v, act.var[caps[k]]>>
        BY <4>1, <1>6, <1>10
      <4>3. CASE caps[k] \in N
        BY <4>2, <4>3, <1>27
      <4>4. CASE caps[k] \notin N
        BY <4>1, <4>2, <4>4, <1>14, <1>16, <1>36, <1>38
      <4>5. QED  BY <4>3, <4>4
    <3>5. QED  BY <3>3, <3>4, <1>41
  <2>2. CASE b \in Owned'
    <3>1. PICK i \in DOMAIN locals : (Has(i))' /\ act'.moved[i] /\ b = <<r'[Place(i)].v, act'.var[i]>>
      BY <2>2, <1>15 DEF Owned
    <3>2. Has(i) /\ m[i] /\ b = <<r'[Place(i)].v, act.var[i]>>
      BY <3>1, <1>20, <1>22
    <3>3. CASE i \in N
      BY <3>2, <3>3, <1>27
    <3>4. CASE i \notin N
      BY <3>2, <3>4, <1>36
    <3>5. QED  BY <3>3, <3>4
  <2>3. QED  BY <2>1, <2>2 DEF Bonds
<1>43. Tagged'
  <2>1. ASSUME NEW i \in DOMAIN locals, Has(i)
        PROVE  r'[Place(i)].link = m[i]
    <3>1. CASE i \in N
      BY <3>1, <1>19, <1>27
    <3>2. CASE i \notin N
      BY <3>2, <2>1, <1>13, <1>19, <1>28 DEF Linked, Tagged
    <3>3. QED  BY <3>1, <3>2
  <2>2. QED  BY <2>1, <1>15, <1>20, <1>22 DEF Tagged
<1>44. Distinct'
  BY <1>13, <1>15, <1>20, <1>22 DEF Linked, Distinct
<1>45. Alike'
  <2>1. ASSUME NEW b \in Bonds'
        PROVE  b[1] \in DOMAIN heap' /\ b[2] \in DOMAIN vals /\ heap'[b[1]] = vals[b[2]]
    <3>1. CASE b \in Bonds
      BY <3>1, <1>32, <1>35
    <3>2. CASE \E i \in N : b = <<<<z, Place(i)>>, act.var[i]>>
      <4>1. PICK i \in N : b = <<<<z, Place(i)>>, act.var[i]>>
        BY <3>2
      <4>2. b[1] = <<z, Place(i)>> /\ b[2] = act.var[i]
        BY <4>1
      <4>3. QED  BY <4>2, <1>25, <1>33, <1>34
    <3>3. QED  BY <3>1, <3>2, <1>42
  <2>2. QED  BY <2>1, <1>7 DEF Alike
<1>46. Paired'
  <2>1. ASSUME NEW b \in Bonds, NEW i \in N
        PROVE  b[1] # <<z, Place(i)>> /\ b[2] # act.var[i]
    BY <1>31, <1>34, <1>35
  <2>2. ASSUME NEW i \in N, NEW j \in N
        PROVE  <<z, Place(i)>> = <<z, Place(j)>> <=> act.var[i] = act.var[j]
    <3>1. Place(i) = Place(j) => i = j
      BY <1>24, <1>25
    <3>2. act.var[i] = act.var[j] => i = j
      BY <1>13, <1>25 DEF Linked, Distinct
    <3>3. QED  BY <3>1, <3>2
  <2>3. ASSUME NEW a \in Bonds', NEW b \in Bonds'
        PROVE  a[1] = b[1] <=> a[2] = b[2]
    <3>1. CASE a \in Bonds /\ b \in Bonds
      BY <3>1, <1>13 DEF Linked, Paired
    <3>2. CASE a \in Bonds /\ \E i \in N : b = <<<<z, Place(i)>>, act.var[i]>>
      <4>1. PICK i \in N : b = <<<<z, Place(i)>>, act.var[i]>>
        BY <3>2
      <4>2. b[1] = <<z, Place(i)>> /\ b[2] = act.var[i]
        BY <4>1
      <4>3. QED  BY <4>2, <3>2, <2>1
    <3>3. CASE b \in Bonds /\ \E i \in N : a = <<<<z, Place(i)>>, act.var[i]>>
      <4>1. PICK i \in N : a = <<<<z, Place(i)>>, act.var[i]>>
        BY <3>3
      <4>2. a[1] = <<z, Place(i)>> /\ a[2] = act.var[i]
        BY <4>1
      <4>3. QED  BY <4>2, <3>3, <2>1
    <3>4. CASE /\ \E i \in N : a = <<<<z, Place(i)>>, act.var[i]>>
               /\ \E i \in N : b = <<<<z, Place(i)>>, act.var[i]>>
      <4>1. PICK i \in N : a = <<<<z, Place(i)>>, act.var[i]>>
        BY <3>4
      <4>2. PICK j \in N : b = <<<<z, Place(j)>>, act.var[j]>>
        BY <3>4
      <4>3. a[1] = <<z, Place(i)>> /\ a[2] = act.var[i] /\ b[1] = <<z, Place(j)>> /\ b[2] = act.var[j]
        BY <4>1, <4>2
      <4>4. QED  BY <4>3, <2>2
    <3>5. QED  BY <3>1, <3>2, <3>3, <3>4, <1>42
  <2>4. QED  BY <2>3 DEF Paired
<1>47. Alone'
  <2>1. ASSUME NEW i \in DOMAIN locals, Has(i), ~m[i]
        PROVE  r'[Place(i)].v = vals[act.var[i]] /\ \A b \in Bonds' : b[2] # act.var[i]
    <3>1. i \notin N /\ ~act.moved[i]
      BY <2>1, <1>19
    <3>2. r[Place(i)].v = vals[act.var[i]] /\ \A b \in Bonds : b[2] # act.var[i]
      BY <3>1, <2>1, <1>13 DEF Linked, Alone
    <3>3. ASSUME NEW b \in Bonds'
          PROVE  b[2] # act.var[i]
      <4>1. CASE b \in Bonds
        BY <4>1, <3>2
      <4>2. CASE \E j \in N : b = <<<<z, Place(j)>>, act.var[j]>>
        <5>1. PICK j \in N : b = <<<<z, Place(j)>>, act.var[j]>>
          BY <4>2
        <5>2. b[2] = act.var[j]
          BY <5>1
        <5>3. act.var[j] # act.var[i]
          BY <3>1, <2>1, <1>13, <1>25 DEF Linked, Distinct
        <5>4. QED  BY <5>2, <5>3
      <4>3. QED  BY <4>1, <4>2, <1>42
    <3>4. QED  BY <3>1, <3>2, <3>3, <1>28
  <2>2. QED  BY <2>1, <1>7, <1>15, <1>20, <1>22 DEF Alone
<1>48. Linked'
  BY <1>43, <1>44, <1>45, <1>46, <1>47 DEF Linked
<1>49. DOMAIN heap' \subseteq (1 .. Len(callables')) \X Registers
  <2>1. 1 .. Len(callables) \subseteq 1 .. Len(callables') /\ z \in 1 .. Len(callables')
    BY <1>30, <1>41
  <2>2. DOMAIN heap \subseteq (1 .. Len(callables')) \X Registers
    BY <2>1, <1>23
  <2>3. made \subseteq (1 .. Len(callables')) \X Registers
    BY <2>1, <1>4, <1>29
  <2>4. QED  BY <2>2, <2>3, <1>32
<1>50. \A c \in DOMAIN callables' : Len(callables'[c].links) = Len(callables'[c].of)
  BY <1>23, <1>39, <1>40, <1>41
<1>51. RunTyped'
  BY <1>7, <1>20, <1>23, <1>29, <1>32, <1>41, <1>49, <1>50 DEF RunTyped
<1>52. QED  BY <1>21, <1>48, <1>51 DEF RunInv

-----------------------------------------------------------------------------
(* The whole. *)

LEMMA MachineStarts == Init => RunInv
<1> SUFFICES ASSUME Init PROVE RunInv
  OBVIOUS
<1>1. /\ r = [k \in Registers |-> Plain(0)] /\ heap = <<>> /\ callables = <<>> /\ act = <<>>
      /\ vals = <<>> /\ stores = 0 /\ locals = <<>>
  BY DEF Init
<1>2. DOMAIN <<>> = {} /\ \A S : <<>> \in Seq(S)
  OBVIOUS
<1>3. r = [n \in Registers |-> r[n]] /\ heap = [h \in DOMAIN heap |-> heap[h]]
  BY <1>1, <1>2
<1>4. RunTyped
  BY <1>1, <1>2, <1>3 DEF RunTyped
<1>5. Reached
  BY <1>1 DEF Reached
<1>6. Bonds = {}
  BY <1>1, <1>2 DEF Bonds, Held, Owned
<1>7. Linked
  BY <1>1, <1>2, <1>6 DEF Linked, Tagged, Distinct, Alike, Paired, Alone, Has
<1>8. QED  BY <1>4, <1>5, <1>7 DEF RunInv

LEMMA MachineStepsKeep == CodeInv /\ RunInv /\ Offsets = {Home} /\ MachineSteps => RunInv'
<1> SUFFICES ASSUME CodeInv, RunInv, Offsets = {Home}, MachineSteps PROVE RunInv'
  OBVIOUS
<1>1. CASE Call  BY <1>1, CallKeeps
<1>2. CASE RunDeclare  BY <1>2, RunDeclareKeeps
<1>3. CASE Derail
  <2>1. UNCHANGED <<compiling, r, heap, callables, act, vals, stores>>
    BY <1>3 DEF Derail
  <2>2. QED  BY <2>1, MachineRests
<1>4. CASE RunLoad  BY <1>4, RunLoadKeeps
<1>5. CASE RunAssign  BY <1>5, RunAssignKeeps
<1>6. CASE RunCapture  BY <1>6, RunCaptureKeeps
<1>7. CASE RunJump  BY <1>7, RunJumpKeeps
<1>8. CASE RunReturn  BY <1>8, RunReturnKeeps
<1>9. CASE PutClosure  BY <1>9, PutClosureKeeps
<1>10. QED
  BY <1>1, <1>2, <1>3, <1>4, <1>5, <1>6, <1>7, <1>8, <1>9 DEF MachineSteps

\* The two halves are kept by every step.
LEMMA Always ==
  ASSUME Offsets = {Home}
  PROVE  Spec => []IInv
<1>1. Init => IInv
  BY CodeStarts, MachineStarts DEF IInv
<1>2. IInv /\ [Next]_vars => IInv'
  <2> SUFFICES ASSUME IInv, [Next]_vars PROVE IInv'
    OBVIOUS
  <2>1. CodeInv /\ RunInv
    BY DEF IInv
  <2>2. CodeInv'
    BY <2>1, CodeKept
  <2>3. RunInv'
    <3>1. CASE CompilerSteps
      BY <3>1, <2>1, CompilerStepsKeep
    <3>2. CASE MachineSteps
      BY <3>2, <2>1, MachineStepsKeep
    <3>3. CASE UNCHANGED vars
      <4>1. UNCHANGED <<compiling, r, heap, callables, act, vals, stores>>
        BY <3>3 DEF vars, machine
      <4>2. QED  BY <4>1, <2>1, MachineRests
    <3>4. QED  BY <3>1, <3>2, <3>3, NextSteps
  <2>4. QED  BY <2>2, <2>3 DEF IInv
<1>3. QED  BY <1>1, <1>2, PTL DEF Spec

\* An access that runs in order with the captures meets a link just where it was compiled for
\* one (LOAD_LINK and PUT_LINK of run()), in any body, in every turn of its loops and every call.
THEOREM ClosuresLinkMeetsLink ==
  ASSUME Offsets = {Home}
  PROVE  Spec => []LinkMeetsLink
<1>1. IInv => LinkMeetsLink
  <2> SUFFICES ASSUME CodeInv, RunInv, Accessing, InOrder(Instr.local)
               PROVE  r[Register(Instr.local)].link = (Instr.op \in {"LOAD_LINK", "PUT_LINK"})
    BY DEF IInv, LinkMeetsLink
  <2>1. Running(Accesses)
    BY DEF Accessing, Accesses
  <2>2. RunTyped /\ Linked
    BY DEF RunInv
  <2>3. /\ Instr.local \in DOMAIN locals /\ Has(Instr.local)
        /\ act.moved[Instr.local] <=> Instr.op \in LinkOps
    BY <2>1, MovedWhereLinked
  <2>4. act # <<>> /\ act.moved[Instr.local] \in BOOLEAN
    BY <2>2, <2>3, ActTypes DEF Has
  <2>5. r[Place(Instr.local)].link = act.moved[Instr.local]
    BY <2>2, <2>3 DEF Linked, Tagged
  <2>6. Register(Instr.local) = Place(Instr.local)
    BY <2>2, <2>3, <2>4, RegisterIsPlace
  <2>7. QED  BY <2>3, <2>4, <2>5, <2>6 DEF LinkOps
<1>2. QED  BY <1>1, Always, PTL

\* The activation that declared a variable and all functions that captured it (the links of
\* OP_DECLARE_FUNCTION) see the latest store of any of them, and no other's.
THEOREM ClosuresShared ==
  ASSUME Offsets = {Home}
  PROVE  Spec => []Shared
<1>1. IInv => Shared
  <2> SUFFICES ASSUME CodeInv, RunInv PROVE Shared
    BY DEF IInv
  <2>1. RunTyped /\ Linked
    BY DEF RunInv
  <2>2. ASSUME NEW c \in DOMAIN callables, NEW k \in DOMAIN callables[c].links
        PROVE  heap[callables[c].links[k]] = vals[callables[c].of[k]]
    <3>1. PICK h, v : h = callables[c].links[k] /\ v = callables[c].of[k]
      OBVIOUS
    <3>2. <<h, v>> \in Bonds
      BY <3>1, HeldItems DEF Bonds
    <3>3. QED  BY <3>1, <3>2, <2>1 DEF Linked, Alike
  <2>3. ASSUME act # <<>>, NEW i \in DOMAIN act.var, act.var[i] # 0
        PROVE  Content(r[Register(i)]) = vals[act.var[i]]
    <3>1. i \in DOMAIN locals
      BY <2>1, <2>3, ActTypes
    <3>2. Has(i) /\ act.moved[i] \in BOOLEAN
      BY <3>1, <2>1, <2>3, ActTypes DEF Has
    <3>3. Register(i) = Place(i) /\ r[Place(i)].link = act.moved[i]
      BY <3>1, <3>2, <2>1, <2>3, RegisterIsPlace DEF Linked, Tagged
    <3>4. CASE act.moved[i] = TRUE
      <4>1. PICK h, v : h = r[Place(i)].v /\ v = act.var[i]
        OBVIOUS
      <4>2. <<h, v>> \in Bonds
        BY <4>1, <3>1, <3>2, <3>4, OwnedItems
      <4>3. heap[h] = vals[v]
        BY <4>2, <2>1 DEF Linked, Alike
      <4>4. QED  BY <4>1, <4>3, <3>3, <3>4 DEF Content
    <3>5. CASE act.moved[i] = FALSE
      <4>1. r[Place(i)].v = vals[act.var[i]]
        BY <3>1, <3>2, <3>5, <2>1 DEF Linked, Alone
      <4>2. QED  BY <4>1, <3>3, <3>5 DEF Content
    <3>6. QED  BY <3>2, <3>4, <3>5
  <2>4. QED  BY <2>2, <2>3 DEF Shared
<1>2. QED  BY <1>1, Always, PTL
=============================================================================
