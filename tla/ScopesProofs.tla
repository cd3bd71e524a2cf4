---------------------------- MODULE ScopesProofs ----------------------------
(***************************************************************************)
(* Scopes for every number of names, locals, registers, constructs inside   *)
(* each other and captures.                                                 *)
(*                                                                          *)
(* The invariant ties the array of locals to the C functions under way: the *)
(* locals stand in the order in which the constructs around them were       *)
(* opened, so that those of the scope that ends are the last ones, and each *)
(* has the depth and the function of its construct.  Of names it says that  *)
(* no two variables of a scope share one, and that the variable which an    *)
(* assignment under way has resolved is still what its name means.          *)
(***************************************************************************)
EXTENDS Scopes, FiniteSetTheorems, SequenceTheorems, TLAPS

\* What the compiler does not check: all locals are in functions, no scope ends
\* on a line whose number is a depth, and framed indexes fit a byte.
Limits ==
  /\ ~TopBlocks
  /\ \A line \in Lines : line > MaxOpen
  /\ MaxLocals + Priv * MaxFuns <= Width

ScopeKinds == {"block", "params", "fun"}
FunKinds == {"params", "fun"}

\* How many of the first n constructs are of these kinds.
Count(s, n, kinds) == Cardinality({m \in 1 .. n : s[m].kind \in kinds})

\* The depth of the scope that construct n opened or is in, and of functions.
Depth(n) == Count(open, n, ScopeKinds)
Funs(n) == Count(open, n, FunKinds)

LocalRecords ==
  [name : Names \cup {NONE}, depth : Nat, is_const : 0 .. 1, ofsetted : Nat,
   compiled_function : Nat, real : Nat, is_link : Nat, put : Nat]

Constructs ==
  [kind : ScopeKinds \cup {"decl"}]
    \cup [kind : {"assign"}, global : Names \ ThisNames] \cup [kind : {"assign"}, local : Nat]

Shape ==
  /\ locals \in Seq(LocalRecords) /\ LocalCount <= MaxLocals
  /\ open \in Seq(Constructs) /\ Len(open) <= MaxOpen
  /\ scope_depth = Depth(Len(open))
  /\ counters \in Seq(0 .. MaxRegs) /\ FunDepth <= MaxFuns /\ FunDepth = Funs(Len(open))
  /\ closures \in Seq(Seq([place : Nat, local : Nat])) /\ Len(closures) = FunDepth
  /\ \A n \in DOMAIN open : open[n].kind = "decl" => n > 1 /\ open[n - 1].kind = "block"

\* Local i was declared by construct own[i]: a scope, or the declaration whose
\* initialiser is being compiled.
Placed(own) ==
  /\ own \in [1 .. LocalCount -> 1 .. Len(open)]
  /\ \A i, j \in 1 .. LocalCount : i <= j => own[i] <= own[j]
  /\ \A i \in 1 .. LocalCount :
       /\ open[own[i]].kind # "assign"
       /\ locals[i].depth = IF open[own[i]].kind = "decl" THEN 0 ELSE Depth(own[i])
       /\ locals[i].compiled_function = Funs(own[i])
       /\ locals[i].compiled_function # 0
  /\ \A n \in DOMAIN open : open[n].kind = "decl" => \E i \in 1 .. LocalCount :
       own[i] = n /\ \A j \in 1 .. LocalCount : own[j] = n => j = i

\* Registers of a function go up with the locals that have them.
Registers ==
  \A i \in 1 .. LocalCount : LET h == locals[i].compiled_function IN
    /\ locals[i].real = i - 1
    /\ locals[i].put = locals[i].ofsetted + Priv
    /\ locals[i].is_link <= MaxLocals
    /\ locals[i].ofsetted < counters[h]
    /\ \A j \in 1 .. LocalCount : i < j /\ locals[j].compiled_function = h =>
         locals[i].ofsetted + (j - i) <= locals[j].ofsetted

\* A list names live variables of functions around its own, each once.
Captures ==
  \A h \in DOMAIN closures : \A k \in DOMAIN closures[h] :
    LET i == closures[h][k].local IN
      /\ i \in 1 .. LocalCount
      /\ locals[i].compiled_function < h
      /\ closures[h][k].place = i - 1 + Priv * h
      /\ locals[i].is_link # 0
      /\ MaxFuns <= 2 => locals[i].is_link = k
      /\ \A l \in DOMAIN closures[h] : closures[h][l].local = i => l = k

\* The variable of an assignment under way outlives it, and is captured if it is
\* of another function.
Assigned(own) ==
  \A n \in DOMAIN open : "local" \in DOMAIN open[n] =>
    LET i == open[n].local IN
      /\ i \in 1 .. LocalCount /\ own[i] < n
      /\ locals[i].compiled_function < Funs(n) =>
           \E k \in DOMAIN closures[Funs(n)] : closures[Funs(n)][k].local = i

\* No two variables of a scope share a name, the one being declared in it included.
Distinct(own) ==
  /\ \A i \in 1 .. LocalCount : locals[i].name \in Names
  /\ \A i, j \in 1 .. LocalCount :
       i # j /\ Depth(own[i]) = Depth(own[j]) => locals[i].name # locals[j].name

\* What the assignment that is construct n found is what its name means there.
Means(own, n) ==
  /\ "local" \in DOMAIN open[n] => LET i == open[n].local IN
       /\ locals[i].depth # 0 /\ locals[i].is_const # 1 /\ locals[i].name \notin ThisNames
       /\ \A j \in 1 .. LocalCount :
            i < j /\ own[j] < n /\ locals[j].depth # 0 => locals[j].name # locals[i].name
  /\ "global" \in DOMAIN open[n] => \A j \in 1 .. LocalCount :
       own[j] < n /\ locals[j].depth # 0 => locals[j].name # open[n].global

Meant(own) == ~rotten => Distinct(own) /\ \A n \in DOMAIN open : Means(own, n)

IInv ==
  /\ Shape /\ Registers /\ Captures
  /\ \E own \in [1 .. LocalCount -> 1 .. Len(open)] : Placed(own) /\ Assigned(own) /\ Meant(own)

-----------------------------------------------------------------------------
(* Counting constructs. *)

LEMMA Counting ==
  ASSUME NEW s, NEW n \in Nat, NEW kinds
  PROVE  /\ Count(s, n, kinds) \in Nat /\ Count(s, n, kinds) <= n
         /\ Count(s, 0, kinds) = 0
         /\ s[n + 1].kind \in kinds => Count(s, n + 1, kinds) = Count(s, n, kinds) + 1
         /\ s[n + 1].kind \notin kinds => Count(s, n + 1, kinds) = Count(s, n, kinds)
<1> DEFINE S(i) == {m \in 1 .. i : s[m].kind \in kinds}
<1>1. IsFiniteSet(1 .. n) /\ Cardinality(1 .. n) = n
  BY FS_Interval
<1>2. IsFiniteSet(S(n)) /\ Cardinality(S(n)) \in Nat /\ Cardinality(S(n)) <= n
  BY <1>1, FS_Subset, FS_CardinalityType
<1>3. S(0) = {} /\ Cardinality({}) = 0
  BY FS_EmptySet
<1>4. ASSUME s[n + 1].kind \in kinds PROVE Cardinality(S(n + 1)) = Cardinality(S(n)) + 1
  <2>1. S(n + 1) = S(n) \cup {n + 1} /\ n + 1 \notin S(n)
    BY <1>4
  <2> QED
    BY <1>2, <2>1, FS_AddElement
<1>5. ASSUME s[n + 1].kind \notin kinds PROVE S(n + 1) = S(n)
  BY <1>5
<1> QED
  BY <1>2, <1>3, <1>4, <1>5 DEF Count

LEMMA CountMonotone ==
  ASSUME NEW s, NEW n \in Nat, NEW m \in 0 .. n, NEW kinds
  PROVE  Count(s, m, kinds) <= Count(s, n, kinds)
<1> DEFINE S(i) == {k \in 1 .. i : s[k].kind \in kinds}
<1>1. IsFiniteSet(1 .. n)
  BY FS_Interval
<1>2. IsFiniteSet(S(n))
  BY <1>1, FS_Subset
<1>3. S(m) \in SUBSET S(n)
  OBVIOUS
<1> QED
  BY <1>2, <1>3, FS_Subset DEF Count

LEMMA CountSame ==
  ASSUME NEW s, NEW t, NEW n \in Nat, NEW kinds,
         \A m \in 1 .. n : s[m].kind \in kinds <=> t[m].kind \in kinds
  PROVE  Count(s, n, kinds) = Count(t, n, kinds)
<1>1. {m \in 1 .. n : s[m].kind \in kinds} = {m \in 1 .. n : t[m].kind \in kinds}
  OBVIOUS
<1> QED
  BY <1>1 DEF Count

-----------------------------------------------------------------------------
(* Sequences and maxima. *)

LEMMA PopSeq ==
  ASSUME NEW S, NEW s \in Seq(S), s # <<>>
  PROVE  /\ Len(s) \in Nat \ {0} /\ Len(s) - 1 \in Nat
         /\ Pop(s) \in Seq(S) /\ Len(Pop(s)) = Len(s) - 1
         /\ \A i \in 1 .. Len(s) - 1 : Pop(s)[i] = s[i]
<1>1. Len(s) \in Nat \ {0}
  BY LenProperties, EmptySeq
<1>2. PICK p \in Nat : p = Len(s) - 1
  BY <1>1
<1>3. /\ SubSeq(s, 1, p) \in Seq(S) /\ Len(SubSeq(s, 1, p)) = p
      /\ \A i \in 1 .. p : SubSeq(s, 1, p)[i] = s[i]
  BY <1>1, <1>2
<1> QED
  BY <1>1, <1>2, <1>3 DEF Pop

LEMMA Minimum ==
  ASSUME NEW S \in SUBSET Nat, S # {}
  PROVE  \E x \in S : \A y \in S : x <= y
<1>1. PICK x \in S : \A y \in S : ~(<<y, x>> \in OpToRel(<, Nat))
  BY NatLessThanWellFounded, WFMin
<1>2. \A y \in S : x <= y
  <2> TAKE y \in S
  <2>1. ~(y < x)
    BY <1>1 DEF OpToRel
  <2> QED
    BY <2>1
<1> QED
  BY <1>2

LEMMA Maximum ==
  ASSUME NEW n \in Nat, NEW S \in SUBSET (0 .. n), S # {}
  PROVE  Max(S) \in S /\ \A y \in S : y <= Max(S)
<1> DEFINE T == {n - y : y \in S}
<1>1. T \in SUBSET Nat /\ T # {}
  <2>1. \A y \in S : n - y \in Nat
    OBVIOUS
  <2> QED
    BY <2>1
<1>2. PICK t \in T : \A u \in T : t <= u
  BY <1>1, Minimum
<1>3. PICK x \in S : t = n - x
  BY <1>2
<1>4. \A y \in S : x >= y
  BY <1>2, <1>3
<1> QED
  BY <1>4 DEF Max

-----------------------------------------------------------------------------
(* What the invariant says of the state. *)

LEMMA Numbers ==
  ASSUME Shape
  PROVE  /\ LocalCount \in Nat /\ DOMAIN locals = 1 .. LocalCount
         /\ Len(open) \in Nat /\ DOMAIN open = 1 .. Len(open)
         /\ FunDepth \in Nat /\ DOMAIN counters = 1 .. FunDepth /\ DOMAIN closures = 1 .. FunDepth
         /\ scope_depth \in Nat /\ scope_depth <= Len(open)
         /\ MaxLocals \in Nat /\ MaxRegs \in Nat /\ MaxOpen \in Nat /\ MaxFuns \in Nat /\ Width \in Nat
<1>1. /\ LocalCount \in Nat /\ DOMAIN locals = 1 .. LocalCount
      /\ Len(open) \in Nat /\ DOMAIN open = 1 .. Len(open)
      /\ FunDepth \in Nat /\ DOMAIN counters = 1 .. FunDepth /\ DOMAIN closures = 1 .. FunDepth
  BY DEF Shape, LocalCount, FunDepth
<1>2. Depth(Len(open)) \in Nat /\ Depth(Len(open)) <= Len(open)
  BY <1>1, Counting DEF Depth
<1> QED
  BY <1>1, <1>2, ScopeAssumption DEF Shape, Priv

\* A local is of a function under way, and its depth is not above the scope's.
LEMMA OfOpenFunction ==
  ASSUME Shape, NEW own, Placed(own), NEW i \in 1 .. LocalCount
  PROVE  /\ own[i] \in 1 .. Len(open)
         /\ locals[i].compiled_function \in 1 .. FunDepth
         /\ locals[i].depth \in 0 .. scope_depth
         /\ Funs(own[i]) \in Nat /\ Depth(own[i]) \in Nat
<1>1. own[i] \in 1 .. Len(open) /\ Len(open) \in Nat /\ own[i] \in 0 .. Len(open)
  BY Numbers DEF Placed
<1>2. /\ Funs(own[i]) \in Nat /\ Funs(own[i]) <= FunDepth
      /\ Depth(own[i]) \in Nat /\ Depth(own[i]) <= scope_depth
  <2>1. FunDepth = Funs(Len(open)) /\ scope_depth = Depth(Len(open))
    BY DEF Shape
  <2>2. own[i] \in Nat
    BY <1>1
  <2>3. \A kinds : /\ Count(open, own[i], kinds) \in Nat
                   /\ Count(open, own[i], kinds) <= Count(open, Len(open), kinds)
    BY <1>1, <2>2, Counting, CountMonotone
  <2> QED
    BY <2>1, <2>3 DEF Funs, Depth
<1>3. scope_depth \in Nat /\ FunDepth \in Nat
  BY Numbers
<1> QED
  BY <1>1, <1>2, <1>3 DEF Placed

\* Later locals are of later functions.
LEMMA FunctionsInOrder ==
  ASSUME Shape, NEW own, Placed(own),
         NEW i \in 1 .. LocalCount, NEW j \in 1 .. LocalCount, i <= j
  PROVE  locals[i].compiled_function <= locals[j].compiled_function
<1>1. own[i] \in 0 .. own[j] /\ own[j] \in Nat
  <2>1. own[i] <= own[j] /\ own[i] \in 1 .. Len(open) /\ own[j] \in 1 .. Len(open)
    BY DEF Placed
  <2> QED
    BY <2>1, Numbers
<1>2. Funs(own[i]) <= Funs(own[j])
  BY <1>1, CountMonotone DEF Funs
<1> QED
  BY <1>2 DEF Placed

\* The properties that the invariant stands for.
LEMMA InvTypes == Limits /\ IInv => TypeOK
<1> SUFFICES ASSUME Limits, IInv PROVE TypeOK
  OBVIOUS
<1>1. Shape /\ Registers
  BY DEF IInv
<1>0. /\ LocalCount \in Nat /\ DOMAIN locals = 1 .. LocalCount /\ FunDepth \in Nat
      /\ scope_depth \in Nat
      /\ MaxLocals \in Nat /\ MaxRegs \in Nat /\ MaxFuns \in Nat /\ Width \in Nat
  BY <1>1, Numbers
<1>2. PICK own : Placed(own)
  BY DEF IInv
<1>3. /\ MaxLocals <= Width - 2 /\ MaxRegs <= Width - 5 /\ MaxFuns <= Width - 1
  BY <1>0, ScopeAssumption DEF Limits, Priv
<1>4. ASSUME NEW i \in DOMAIN locals
      PROVE  /\ locals[i].name \in Names \cup {NONE}
             /\ locals[i].depth <= scope_depth
             /\ locals[i].ofsetted \in 0 .. Width - 1
             /\ locals[i].compiled_function \in 0 .. Width - 1
             /\ locals[i].real \in 0 .. Width - 1
             /\ locals[i].is_link \in 0 .. Width - 1
  <2>1. i \in 1 .. LocalCount /\ LocalCount \in Nat /\ LocalCount <= MaxLocals
    BY <1>0, <1>1 DEF Shape
  <2>2. locals[i] \in LocalRecords
    BY <1>1 DEF Shape
  <2>3. locals[i].compiled_function \in 1 .. FunDepth /\ locals[i].depth \in 0 .. scope_depth
    BY <1>1, <1>2, <2>1, OfOpenFunction
  <2>4. counters[locals[i].compiled_function] \in 0 .. MaxRegs
    BY <1>1, <2>3, ElementOfSeq DEF Shape, FunDepth
  <2>5. /\ locals[i].real = i - 1 /\ locals[i].is_link <= MaxLocals
        /\ locals[i].ofsetted < counters[locals[i].compiled_function]
    BY <1>1, <2>1 DEF Registers
  <2>6. FunDepth <= MaxFuns
    BY <1>1 DEF Shape
  <2>7. locals[i].name \in Names \cup {NONE} /\ locals[i].ofsetted \in Nat /\ locals[i].is_link \in Nat
    BY <2>2 DEF LocalRecords
  <2>8. locals[i].ofsetted \in 0 .. Width - 1
    <3> DEFINE top == counters[locals[i].compiled_function]
    <3>1. top \in 0 .. MaxRegs /\ locals[i].ofsetted < top
      BY <2>4, <2>5
    <3> HIDE DEF top
    <3> QED
      BY <1>0, <1>3, <2>7, <3>1
  <2>9. locals[i].is_link \in 0 .. Width - 1 /\ locals[i].real \in 0 .. Width - 1
    BY <1>0, <1>3, <2>1, <2>5, <2>7
  <2>10. locals[i].compiled_function \in 0 .. Width - 1
    BY <1>0, <1>3, <2>3, <2>6
  <2> QED
    BY <1>1, <2>3, <2>7, <2>8, <2>9, <2>10
<1>5. counters \in Seq(0 .. Width - 1)
  <2>1. 0 .. MaxRegs \subseteq 0 .. Width - 1
    BY <1>0, <1>3
  <2> QED
    BY <1>1, <2>1, SeqMonotonic DEF Shape
<1>6. \A i \in DOMAIN locals : \A m \in {"ofsetted", "compiled_function", "real", "is_link"} :
        locals[i][m] \in 0 .. Width - 1
  BY <1>4
<1> QED
  BY <1>0, <1>1, <1>4, <1>5, <1>6 DEF TypeOK, Shape

LEMMA InvRegistersApart == IInv => RegistersApart
<1> SUFFICES ASSUME IInv PROVE RegistersApart
  OBVIOUS
<1>1. Shape /\ Registers /\ DOMAIN locals = 1 .. LocalCount /\ LocalCount \in Nat
  BY Numbers DEF IInv
<1>2. SUFFICES ASSUME NEW i \in 1 .. LocalCount
               PROVE  LET h == locals[i].compiled_function IN
                        h \in DOMAIN counters =>
                          /\ locals[i].ofsetted < counters[h]
                          /\ \A j \in 1 .. LocalCount : j # i /\ locals[j].compiled_function = h =>
                               locals[j].ofsetted # locals[i].ofsetted
  BY <1>1 DEF RegistersApart
<1>3. locals[i].ofsetted < counters[locals[i].compiled_function]
  BY <1>1 DEF Registers
<1>4. ASSUME NEW j \in 1 .. LocalCount, j # i,
             locals[j].compiled_function = locals[i].compiled_function
      PROVE  locals[j].ofsetted # locals[i].ofsetted
  <2>1. locals[i] \in LocalRecords /\ locals[j] \in LocalRecords
    BY <1>1 DEF Shape
  <2>2. locals[i].ofsetted \in Nat /\ locals[j].ofsetted \in Nat
    BY <2>1 DEF LocalRecords
  <2>3. CASE i < j
    <3>1. locals[i].ofsetted + (j - i) <= locals[j].ofsetted
      BY <1>1, <1>4, <2>3 DEF Registers
    <3> QED
      BY <2>2, <2>3, <3>1
  <2>4. CASE j < i
    <3>1. locals[j].ofsetted + (i - j) <= locals[i].ofsetted
      BY <1>1, <1>4, <2>4 DEF Registers
    <3> QED
      BY <2>2, <2>4, <3>1
  <2> QED
    BY <1>4, <2>3, <2>4
<1> QED
  BY <1>3, <1>4

-----------------------------------------------------------------------------
(* Constructs opened and closed. *)

LEMMA Pushing ==
  ASSUME Shape, NEW r \in Constructs, open' = Append(open, r)
  PROVE  /\ open' \in Seq(Constructs) /\ Len(open') = Len(open) + 1
         /\ DOMAIN open' = 1 .. Len(open) + 1
         /\ \A n \in 1 .. Len(open) : open'[n] = open[n]
         /\ open'[Len(open) + 1] = r
         /\ \A n \in 0 .. Len(open) : Depth(n)' = Depth(n) /\ Funs(n)' = Funs(n)
         /\ Depth(Len(open))' = scope_depth + (IF r.kind \in ScopeKinds THEN 1 ELSE 0)
         /\ Funs(Len(open))' = FunDepth + (IF r.kind \in FunKinds THEN 1 ELSE 0)
<1>1. open \in Seq(Constructs) /\ Len(open) \in Nat
  BY Numbers DEF Shape
<1>2. /\ open' \in Seq(Constructs) /\ Len(open') = Len(open) + 1
      /\ DOMAIN open' = 1 .. Len(open) + 1
      /\ \A n \in 1 .. Len(open) : open'[n] = open[n]
      /\ open'[Len(open) + 1] = r
  BY <1>1, AppendProperties
<1>3. \A kinds : \A n \in 0 .. Len(open) : Count(open', n, kinds) = Count(open, n, kinds)
  <2> TAKE kinds
  <2> TAKE n \in 0 .. Len(open)
  <2>1. n \in Nat /\ \A m \in 1 .. n : open'[m].kind \in kinds <=> open[m].kind \in kinds
    BY <1>1, <1>2
  <2> QED
    BY <2>1, CountSame
<1>4. \A kinds : Count(open', Len(open) + 1, kinds) =
                   Count(open, Len(open), kinds) + (IF r.kind \in kinds THEN 1 ELSE 0)
  <2> TAKE kinds
  <2>1. Count(open', Len(open), kinds) = Count(open, Len(open), kinds)
    BY <1>1, <1>3
  <2>2. Count(open, Len(open), kinds) \in Nat
    BY <1>1, Counting
  <2>3. CASE r.kind \in kinds
    <3>1. open'[Len(open) + 1].kind \in kinds
      BY <1>2, <2>3
    <3>2. Count(open', Len(open) + 1, kinds) = Count(open', Len(open), kinds) + 1
      BY <1>1, <3>1, Counting
    <3> QED
      BY <2>1, <2>3, <3>2
  <2>4. CASE r.kind \notin kinds
    <3>1. open'[Len(open) + 1].kind \notin kinds
      BY <1>2, <2>4
    <3>2. Count(open', Len(open) + 1, kinds) = Count(open', Len(open), kinds)
      BY <1>1, <3>1, Counting
    <3> QED
      BY <2>1, <2>2, <2>4, <3>2
  <2> QED
    BY <2>3, <2>4
<1>5. scope_depth = Depth(Len(open)) /\ FunDepth = Funs(Len(open))
  BY DEF Shape
<1>6. /\ Depth(Len(open))' = scope_depth + (IF r.kind \in ScopeKinds THEN 1 ELSE 0)
      /\ Funs(Len(open))' = FunDepth + (IF r.kind \in FunKinds THEN 1 ELSE 0)
  <2> DEFINE n == Len(open) + 1
  <2>1. /\ Count(open', n, ScopeKinds) = scope_depth + (IF r.kind \in ScopeKinds THEN 1 ELSE 0)
        /\ Count(open', n, FunKinds) = FunDepth + (IF r.kind \in FunKinds THEN 1 ELSE 0)
    BY <1>4, <1>5 DEF Depth, Funs
  <2> QED
    BY <1>2, <2>1 DEF Depth, Funs
<1> QED
  BY <1>2, <1>3, <1>6 DEF Depth, Funs

LEMMA Popping ==
  ASSUME Shape, open # <<>>, open' = Pop(open)
  PROVE  /\ Len(open) \in Nat \ {0} /\ Len(open) \in DOMAIN open
         /\ open' \in Seq(Constructs) /\ Len(open') = Len(open) - 1
         /\ DOMAIN open' = 1 .. Len(open) - 1
         /\ \A n \in 1 .. Len(open) - 1 : open'[n] = open[n]
         /\ \A n \in 0 .. Len(open) - 1 : Depth(n)' = Depth(n) /\ Funs(n)' = Funs(n)
         /\ scope_depth = Depth(Len(open) - 1) + (IF Top.kind \in ScopeKinds THEN 1 ELSE 0)
         /\ FunDepth = Funs(Len(open) - 1) + (IF Top.kind \in FunKinds THEN 1 ELSE 0)
<1>1. open \in Seq(Constructs) /\ DOMAIN open = 1 .. Len(open)
  BY Numbers DEF Shape
<1>2. /\ Len(open) \in Nat \ {0} /\ Len(open) - 1 \in Nat
      /\ open' \in Seq(Constructs) /\ Len(open') = Len(open) - 1
      /\ \A n \in 1 .. Len(open) - 1 : open'[n] = open[n]
  BY <1>1, PopSeq
<1>3. DOMAIN open' = 1 .. Len(open) - 1
  BY <1>2, LenProperties
<1>4. \A kinds : \A n \in 0 .. Len(open) - 1 : Count(open', n, kinds) = Count(open, n, kinds)
  <2> TAKE kinds
  <2> TAKE n \in 0 .. Len(open) - 1
  <2>1. n \in Nat /\ \A m \in 1 .. n : open'[m].kind \in kinds <=> open[m].kind \in kinds
    BY <1>2
  <2> QED
    BY <2>1, CountSame
<1>5. \A kinds : Count(open, Len(open), kinds) =
                   Count(open, Len(open) - 1, kinds) + (IF Top.kind \in kinds THEN 1 ELSE 0)
  <2> TAKE kinds
  <2>1. PICK p \in Nat : p = Len(open) - 1 /\ Len(open) = p + 1
    BY <1>2
  <2>2. Top = open[p + 1] /\ Count(open, p, kinds) \in Nat
    BY <2>1, Counting DEF Top
  <2>3. CASE Top.kind \in kinds
    BY <2>1, <2>2, <2>3, Counting
  <2>4. CASE Top.kind \notin kinds
    BY <2>1, <2>2, <2>4, Counting
  <2> QED
    BY <2>3, <2>4
<1> QED
  BY <1>1, <1>2, <1>3, <1>4, <1>5 DEF Depth, Funs, Shape

\* Steps that change no local but for its link, and leave the lists as they are or add to them.
Relinked ==
  /\ LocalCount' = LocalCount
  /\ \A i \in 1 .. LocalCount :
       /\ locals'[i].name = locals[i].name
       /\ locals'[i].is_const = locals[i].is_const
       /\ locals'[i].depth = locals[i].depth
       /\ locals'[i].compiled_function = locals[i].compiled_function
       /\ locals'[i].real = locals[i].real
       /\ locals'[i].ofsetted = locals[i].ofsetted
       /\ locals'[i].put = locals[i].put

ListsKept ==
  \A h \in DOMAIN closures : h \in DOMAIN closures' /\ \A k \in DOMAIN closures[h] :
    k \in DOMAIN closures'[h] /\ closures'[h][k] = closures[h][k]

\* Constructs that stay as they are, and see the same variables.
LEMMA MeansKept ==
  ASSUME NEW own, NEW new, NEW n \in DOMAIN open, open'[n] = open[n], Means(own, n),
         "local" \in DOMAIN open[n] =>
           open[n].local \in 1 .. LocalCount' /\ new[open[n].local] < n,
         \A j \in 1 .. LocalCount' : new[j] < n =>
           /\ j \in 1 .. LocalCount /\ own[j] < n /\ locals'[j].name = locals[j].name
           /\ locals'[j].depth = locals[j].depth /\ locals'[j].is_const = locals[j].is_const
  PROVE  Means(new, n)'
<1>1. ASSUME "local" \in DOMAIN open[n], NEW i, i = open[n].local
      PROVE  /\ locals'[i].depth # 0 /\ locals'[i].is_const # 1 /\ locals'[i].name \notin ThisNames
             /\ \A j \in 1 .. LocalCount' : i < j /\ new[j] < n /\ locals'[j].depth # 0 =>
                  locals'[j].name # locals'[i].name
  <2>1. i \in 1 .. LocalCount' /\ new[i] < n
    BY <1>1
  <2>2. /\ locals[i].depth # 0 /\ locals[i].is_const # 1 /\ locals[i].name \notin ThisNames
        /\ \A j \in 1 .. LocalCount : i < j /\ own[j] < n /\ locals[j].depth # 0 =>
             locals[j].name # locals[i].name
    BY <1>1 DEF Means
  <2> QED
    BY <2>1, <2>2
<1>2. ASSUME "global" \in DOMAIN open[n]
      PROVE  \A j \in 1 .. LocalCount' :
               new[j] < n /\ locals'[j].depth # 0 => locals'[j].name # open[n].global
  BY <1>2 DEF Means
<1> QED
  BY <1>1, <1>2 DEF Means

\* A step that brings in no variable and no assignment.
LEMMA MeantKept ==
  ASSUME NEW own, Meant(own), ~rotten, NEW new, Assigned(new)',
         \A i \in 1 .. LocalCount' :
           /\ i \in 1 .. LocalCount /\ locals'[i].name = locals[i].name
           /\ Depth(new[i])' = Depth(own[i]),
         \A n \in DOMAIN open' : {"local", "global"} \cap DOMAIN open'[n] # {} =>
           /\ n \in DOMAIN open /\ open'[n] = open[n]
           /\ \A j \in 1 .. LocalCount' : new[j] < n =>
                /\ own[j] < n
                /\ locals'[j].depth = locals[j].depth /\ locals'[j].is_const = locals[j].is_const
  PROVE  Meant(new)'
<1>1. Distinct(own) /\ \A n \in DOMAIN open : Means(own, n)
  BY DEF Meant
<1>2. Distinct(new)'
  BY <1>1 DEF Distinct
<1>3. ASSUME NEW n \in DOMAIN open' PROVE Means(new, n)'
  <2>1. CASE {"local", "global"} \cap DOMAIN open'[n] = {}
    BY <2>1 DEF Means
  <2>2. CASE {"local", "global"} \cap DOMAIN open'[n] # {}
    <3>1. "local" \in DOMAIN open[n] => open[n].local \in 1 .. LocalCount' /\ new[open[n].local] < n
      BY <2>2 DEF Assigned
    <3> QED
      BY <1>1, <2>2, <3>1, MeansKept
  <2> QED
    BY <2>1, <2>2
<1> QED
  BY <1>2, <1>3 DEF Meant

LEMMA PushPlaced ==
  ASSUME Shape, NEW own, Placed(own), Assigned(own), Meant(own), ~rotten, Relinked, ListsKept,
         NEW r \in Constructs, r.kind # "decl", open' = Append(open, r),
         "local" \in DOMAIN r =>
           /\ r.local \in 1 .. LocalCount
           /\ locals[r.local].compiled_function < Funs(Len(open))' =>
                \E k \in DOMAIN closures'[Funs(Len(open))'] :
                  closures'[Funs(Len(open))'][k].local = r.local
           /\ ~rotten' =>
                /\ locals[r.local].depth # 0 /\ locals[r.local].is_const # 1
                /\ locals[r.local].name \notin ThisNames
                /\ \A j \in 1 .. LocalCount : r.local < j /\ locals[j].depth # 0 =>
                     locals[j].name # locals[r.local].name,
         "global" \in DOMAIN r => \A j \in 1 .. LocalCount :
           locals[j].depth # 0 => locals[j].name # r.global
  PROVE  Placed(own)' /\ Assigned(own)' /\ Meant(own)'
<1>1. /\ Len(open) \in Nat /\ DOMAIN open = 1 .. Len(open) /\ LocalCount \in Nat
      /\ Len(open') = Len(open) + 1
      /\ DOMAIN open' = 1 .. Len(open) + 1
      /\ \A n \in 1 .. Len(open) : open'[n] = open[n]
      /\ open'[Len(open) + 1] = r
      /\ \A n \in 0 .. Len(open) : Depth(n)' = Depth(n) /\ Funs(n)' = Funs(n)
  BY Numbers, Pushing
<1>2. \A i \in 1 .. LocalCount : own[i] \in 1 .. Len(open)
  BY DEF Placed
<1>3. Placed(own)'
  <2>1. own \in [1 .. LocalCount' -> 1 .. Len(open')]
    BY <1>1, <1>2 DEF Placed, Relinked
  <2>2. ASSUME NEW i \in 1 .. LocalCount'
        PROVE  /\ open'[own[i]].kind # "assign"
               /\ locals'[i].depth = IF open'[own[i]].kind = "decl" THEN 0 ELSE Depth(own[i])'
               /\ locals'[i].compiled_function = Funs(own[i])'
               /\ locals'[i].compiled_function # 0
    <3>1. i \in 1 .. LocalCount /\ own[i] \in 1 .. Len(open) /\ own[i] \in 0 .. Len(open)
      BY <1>1, <1>2 DEF Relinked
    <3>2. /\ open'[own[i]] = open[own[i]]
          /\ Depth(own[i])' = Depth(own[i]) /\ Funs(own[i])' = Funs(own[i])
      BY <1>1, <3>1
    <3> QED
      BY <3>1, <3>2 DEF Placed, Relinked
  <2>3. ASSUME NEW n \in DOMAIN open', open'[n].kind = "decl"
        PROVE  \E i \in 1 .. LocalCount' :
                 own[i] = n /\ \A j \in 1 .. LocalCount' : own[j] = n => j = i
    <3>1. n \in DOMAIN open /\ open[n].kind = "decl"
      BY <1>1, <2>3
    <3> QED
      BY <3>1 DEF Placed, Relinked
  <2>4. \A i, j \in 1 .. LocalCount' : i <= j => own[i] <= own[j]
    BY DEF Placed, Relinked
  <2> QED
    BY <2>1, <2>2, <2>3, <2>4 DEF Placed
<1>4. ASSUME NEW n \in DOMAIN open', "local" \in DOMAIN open'[n]
      PROVE  LET i == open'[n].local IN
               /\ i \in 1 .. LocalCount' /\ own[i] < n
               /\ locals'[i].compiled_function < Funs(n)' =>
                    \E k \in DOMAIN closures'[Funs(n)'] : closures'[Funs(n)'][k].local = i
  <2>1. CASE n = Len(open) + 1
    <3>1. open'[n] = r /\ r.local \in 1 .. LocalCount /\ own[r.local] \in 1 .. Len(open)
      BY <1>1, <1>2, <1>4, <2>1
    <3>2. locals'[r.local].compiled_function = locals[r.local].compiled_function
      BY <3>1 DEF Relinked
    <3> QED
      BY <1>1, <1>4, <2>1, <3>1, <3>2 DEF Relinked
  <2>2. CASE n # Len(open) + 1
    <3> DEFINE i == open[n].local
    <3>1. /\ n \in 1 .. Len(open) /\ n \in 0 .. Len(open) /\ open'[n] = open[n]
          /\ Funs(n)' = Funs(n)
      BY <1>1, <2>2
    <3>2. i \in 1 .. LocalCount /\ own[i] < n
      BY <1>1, <1>4, <3>1 DEF Assigned
    <3>3. ASSUME locals[i].compiled_function < Funs(n)
          PROVE  \E k \in DOMAIN closures'[Funs(n)] : closures'[Funs(n)][k].local = i
      <4>1. PICK k \in DOMAIN closures[Funs(n)] : closures[Funs(n)][k].local = i
        BY <1>1, <1>4, <3>1, <3>3 DEF Assigned
      <4>2. Funs(n) \in DOMAIN closures
        <5>1. locals[i].compiled_function \in 1 .. FunDepth
          BY <3>2, OfOpenFunction
        <5>2. Funs(n) \in Nat /\ Funs(n) <= FunDepth
          BY <1>1, <3>1, Counting, CountMonotone DEF Funs, Shape
        <5>3. FunDepth \in Nat /\ DOMAIN closures = 1 .. FunDepth
          BY Numbers
        <5> QED
          BY <3>3, <5>1, <5>2, <5>3
      <4> QED
        BY <4>1, <4>2 DEF ListsKept
    <3>4. locals'[i].compiled_function = locals[i].compiled_function /\ LocalCount' = LocalCount
      BY <3>2 DEF Relinked
    <3> QED
      BY <3>1, <3>2, <3>3, <3>4
  <2> QED
    BY <2>1, <2>2
<1>5. Meant(own)'
  <2> SUFFICES ASSUME ~rotten' PROVE Distinct(own)' /\ \A n \in DOMAIN open' : Means(own, n)'
    BY DEF Meant
  <2>1. Distinct(own) /\ \A n \in DOMAIN open : Means(own, n)
    BY DEF Meant
  <2>2. \A i \in 1 .. LocalCount' :
          /\ i \in 1 .. LocalCount /\ Depth(own[i])' = Depth(own[i])
          /\ locals'[i].name = locals[i].name /\ locals'[i].is_const = locals[i].is_const
          /\ locals'[i].depth = locals[i].depth
    <3>1. \A i \in 1 .. LocalCount : own[i] \in 0 .. Len(open)
      BY <1>1, <1>2
    <3> QED
      BY <1>1, <3>1 DEF Relinked
  <2>3. Distinct(own)'
    BY <2>1, <2>2 DEF Distinct
  <2>4. ASSUME NEW n \in DOMAIN open' PROVE Means(own, n)'
    <3>1. CASE n = Len(open) + 1
      <4>1. open'[n] = r
        BY <1>1, <3>1
      <4>2. ASSUME "local" \in DOMAIN r
            PROVE  /\ locals'[r.local].depth # 0 /\ locals'[r.local].is_const # 1
                   /\ locals'[r.local].name \notin ThisNames
                   /\ \A j \in 1 .. LocalCount' : r.local < j /\ locals'[j].depth # 0 =>
                        locals'[j].name # locals'[r.local].name
        <5>1. r.local \in 1 .. LocalCount'
          BY <4>2 DEF Relinked
        <5> QED
          BY <2>2, <4>2, <5>1
      <4>3. "global" \in DOMAIN r => \A j \in 1 .. LocalCount' :
              locals'[j].depth # 0 => locals'[j].name # r.global
        BY <2>2
      <4> QED
        BY <4>1, <4>2, <4>3 DEF Means
    <3>2. CASE n # Len(open) + 1
      <4>1. n \in DOMAIN open /\ open'[n] = open[n]
        BY <1>1, <3>2
      <4>2. "local" \in DOMAIN open[n] => open[n].local \in 1 .. LocalCount' /\ own[open[n].local] < n
        BY <4>1 DEF Assigned, Relinked
      <4> QED
        BY <2>1, <2>2, <4>1, <4>2, MeansKept
    <3> QED
      BY <3>1, <3>2
  <2> QED
    BY <2>3, <2>4
<1>6. Assigned(own)'
  BY <1>4 DEF Assigned
<1> QED
  BY <1>3, <1>5, <1>6

-----------------------------------------------------------------------------
(* Names resolved. *)

LEMMA ResolvedVisible ==
  ASSUME Shape, NEW x, Visible(x) # {}
  PROVE  /\ Resolved(x) \in 1 .. LocalCount
         /\ locals[Resolved(x)].depth # 0 /\ locals[Resolved(x)].name = x
         /\ \A j \in Visible(x) : j <= Resolved(x)
<1>1. LocalCount \in Nat /\ DOMAIN locals = 1 .. LocalCount
  BY Numbers
<1>2. Visible(x) \in SUBSET (0 .. LocalCount) /\ Visible(x) \subseteq 1 .. LocalCount
  BY <1>1 DEF Visible
<1>3. Resolved(x) \in Visible(x) /\ \A j \in Visible(x) : j <= Resolved(x)
  BY <1>1, <1>2, Maximum DEF Resolved
<1> QED
  BY <1>2, <1>3 DEF Visible

LEMMA NoWrap == \A a, b \in Nat : a < b => a % b = a
  OBVIOUS

LEMMA Linked ==
  ASSUME NEW v \in LocalRecords, NEW link \in Nat
  PROVE  [v EXCEPT !.is_link = link] \in LocalRecords
  BY DEF LocalRecords

\* In a list there is room for one more: it names each variable once, and not this one.
LEMMA RoomInList ==
  ASSUME Shape, Captures, NEW h \in DOMAIN closures, NEW i \in 1 .. LocalCount,
         \A k \in DOMAIN closures[h] : closures[h][k].local # i
  PROVE  Len(closures[h]) \in Nat /\ Len(closures[h]) + 1 <= MaxLocals
<1> DEFINE n == Len(closures[h])
          f == [k \in 1 .. n + 1 |-> IF k = n + 1 THEN i ELSE closures[h][k].local]
<1>1. closures[h] \in Seq([place : Nat, local : Nat])
  BY ElementOfSeq, Numbers DEF Shape
<1>2. n \in Nat /\ DOMAIN closures[h] = 1 .. n
  BY <1>1
<1>3. LocalCount \in Nat /\ MaxLocals \in Nat /\ LocalCount <= MaxLocals
  BY Numbers DEF Shape
<1> HIDE DEF n
<1>4. /\ f \in [1 .. n + 1 -> 1 .. LocalCount]
      /\ \A a, b \in 1 .. n + 1 : f[a] = f[b] => a = b
  <2>1. \A k \in 1 .. n + 1 : k # n + 1 => k \in DOMAIN closures[h]
    BY <1>2
  <2>2. \A k \in DOMAIN closures[h] :
          /\ closures[h][k].local \in 1 .. LocalCount
          /\ \A l \in DOMAIN closures[h] : closures[h][l].local = closures[h][k].local => l = k
    BY DEF Captures
  <2> QED
    BY <1>2, <2>1, <2>2
<1>5. IsFiniteSet(1 .. n + 1) /\ Cardinality(1 .. n + 1) = n + 1
  BY <1>2, FS_Interval
<1>6. IsFiniteSet(1 .. LocalCount) /\ Cardinality(1 .. LocalCount) = LocalCount
  BY <1>3, FS_Interval
<1> HIDE DEF f
<1>7. ~(LocalCount < n + 1)
  <2> SUFFICES ASSUME LocalCount < n + 1 PROVE FALSE
    OBVIOUS
  <2>1. Cardinality(1 .. LocalCount) < Cardinality(1 .. n + 1)
    BY <1>5, <1>6
  <2>2. \E a, b \in 1 .. n + 1 : a # b /\ f[a] = f[b]
    <3> DEFINE S == 1 .. n + 1  T == 1 .. LocalCount
    <3>1. f \in [S -> T] /\ IsFiniteSet(S) /\ IsFiniteSet(T) /\ Cardinality(T) < Cardinality(S)
      BY <1>4, <1>5, <1>6, <2>1
    <3> HIDE DEF S, T
    <3>2. \E a, b \in S : a # b /\ f[a] = f[b]
      BY <3>1, FS_PigeonHole
    <3> QED
      BY <3>2 DEF S
  <2> QED
    BY <1>4, <2>2
<1> QED
  BY <1>2, <1>3, <1>7 DEF n

\* What a use of a name leaves: a variable of an outer function is in the list of
\* the running function, once.
LEMMA ResolveKeeps ==
  ASSUME Limits, Shape, Registers, Captures, NEW own, Placed(own), NEW x, Resolve(x),
         UNCHANGED counters
  PROVE  /\ Relinked /\ ListsKept
         /\ locals' \in Seq(LocalRecords)
         /\ closures' \in Seq(Seq([place : Nat, local : Nat])) /\ Len(closures') = FunDepth
         /\ Registers' /\ Captures'
         /\ Visible(x) # {} /\ Outer(Resolved(x)) =>
              /\ FunDepth \in DOMAIN closures'
              /\ \E k \in DOMAIN closures'[FunDepth] : closures'[FunDepth][k].local = Resolved(x)
<1> DEFINE r == Resolved(x)
<1>1. /\ LocalCount \in Nat /\ DOMAIN locals = 1 .. LocalCount /\ LocalCount <= MaxLocals
      /\ FunDepth \in Nat /\ DOMAIN closures = 1 .. FunDepth /\ Len(closures) = FunDepth
      /\ MaxLocals \in Nat /\ MaxFuns \in Nat /\ Width \in Nat /\ FunDepth <= MaxFuns
      /\ locals \in Seq(LocalRecords) /\ closures \in Seq(Seq([place : Nat, local : Nat]))
  BY Numbers DEF Shape
<1>2. Visible(x) # {} => /\ r \in 1 .. LocalCount
                         /\ locals[r].compiled_function \in 1 .. FunDepth
                         /\ locals[r].real = r - 1
  BY ResolvedVisible, OfOpenFunction DEF Registers
<1>3. ASSUME Visible(x) # {}, Outer(r)
      PROVE  /\ FunDepth \in DOMAIN closures
             /\ FramedIndex(r) = r - 1 + Priv * FunDepth
             /\ Place(r) = FramedIndex(r) /\ Place(r) \in Nat
  <2>1. FunDepth \in 1 .. FunDepth
    BY <1>1, <1>2, <1>3 DEF Outer
  <2>2. FramedIndex(r) = r - 1 + 4 * FunDepth
    BY <1>2, <1>3 DEF FramedIndex, Priv
  <2>3. FramedIndex(r) \in Nat /\ FramedIndex(r) < Width
    BY <1>1, <1>2, <1>3, <2>2 DEF Limits, Priv
  <2>4. FramedIndex(r) % Width = FramedIndex(r)
    BY <1>1, <2>3, NoWrap
  <2> QED
    BY <1>1, <2>1, <2>2, <2>3, <2>4 DEF Place, Priv
<1>4. CASE Visible(x) # {} /\ Outer(r) /\ ~Captured(r)
  <2> DEFINE new == [place |-> Place(r), local |-> r]
             list == Append(closures[FunDepth], new)
             n == Len(closures[FunDepth])
  <2>1. /\ closures' = [closures EXCEPT ![FunDepth] = list]
        /\ locals' = [locals EXCEPT ![r].is_link = n + 1]
    BY <1>4 DEF Resolve
  <2>2. closures[FunDepth] \in Seq([place : Nat, local : Nat])
    BY <1>1, <1>3, <1>4, ElementOfSeq
  <2>3. new \in [place : Nat, local : Nat]
    BY <1>2, <1>3, <1>4
  <2>4. /\ n \in Nat /\ DOMAIN closures[FunDepth] = 1 .. n
        /\ list \in Seq([place : Nat, local : Nat]) /\ Len(list) = n + 1
        /\ DOMAIN list = 1 .. n + 1
        /\ \A k \in 1 .. n : list[k] = closures[FunDepth][k]
        /\ list[n + 1] = new
    BY <2>2, <2>3, AppendProperties, LenProperties
  <2>5. r \in 1 .. LocalCount /\ FunDepth \in 1 .. FunDepth
    BY <1>1, <1>2, <1>3, <1>4
  <2>6. \A k \in 1 .. n : closures[FunDepth][k].local # r
    <3> TAKE k \in 1 .. n
    <3>1. k \in DOMAIN closures[FunDepth] /\ FunDepth \in DOMAIN closures
      BY <2>4, <2>5, <1>1
    <3>2. closures[FunDepth][k].local = r => locals[r].is_link # 0 /\ closures[FunDepth][k].place = FramedIndex(r)
      BY <1>3, <1>4, <3>1 DEF Captures
    <3> QED
      BY <1>4, <3>1, <3>2 DEF Captured
  <2>7. n + 1 <= MaxLocals
    <3>1. FunDepth \in DOMAIN closures
      BY <1>1, <2>5
    <3> QED
      BY <2>4, <2>5, <2>6, <3>1, RoomInList
  <2> HIDE DEF new, list, n
  <2>8. /\ closures' \in Seq(Seq([place : Nat, local : Nat])) /\ Len(closures') = FunDepth
        /\ DOMAIN closures' = 1 .. FunDepth
        /\ \A h \in 1 .. FunDepth : closures'[h] = IF h = FunDepth THEN list ELSE closures[h]
    BY <1>1, <2>1, <2>4, <2>5, ExceptSeq
  <2>9. /\ locals' \in Seq(LocalRecords) /\ LocalCount' = LocalCount /\ DOMAIN locals' = 1 .. LocalCount
        /\ \A i \in 1 .. LocalCount :
             locals'[i] = IF i = r THEN [locals[r] EXCEPT !.is_link = n + 1] ELSE locals[i]
    <3>1. locals' = [locals EXCEPT ![r] = [locals[r] EXCEPT !.is_link = n + 1]]
      BY <1>1, <2>1, <2>5
    <3>2. [locals[r] EXCEPT !.is_link = n + 1] \in LocalRecords
      <4>1. locals[r] \in LocalRecords
        BY <1>1, <2>5
      <4> QED
        BY <2>4, <4>1, Linked
    <3> QED
      BY <1>1, <2>5, <3>1, <3>2, ExceptSeq DEF LocalCount
  <2>10. \A i \in 1 .. LocalCount :
           /\ locals'[i].name = locals[i].name
           /\ locals'[i].is_const = locals[i].is_const
           /\ locals'[i].depth = locals[i].depth
           /\ locals'[i].compiled_function = locals[i].compiled_function
           /\ locals'[i].real = locals[i].real
           /\ locals'[i].ofsetted = locals[i].ofsetted
           /\ locals'[i].put = locals[i].put
           /\ locals'[i].is_link = IF i = r THEN n + 1 ELSE locals[i].is_link
    <3> TAKE i \in 1 .. LocalCount
    <3>1. locals[i] \in LocalRecords
      BY <1>1
    <3> QED
      BY <2>9, <3>1 DEF LocalRecords
  <2>11. Relinked /\ ListsKept
    <3>1. Relinked
      BY <2>9, <2>10 DEF Relinked
    <3>2. ListsKept
      <4> SUFFICES ASSUME NEW h \in DOMAIN closures
                   PROVE  h \in DOMAIN closures' /\ \A k \in DOMAIN closures[h] :
                            k \in DOMAIN closures'[h] /\ closures'[h][k] = closures[h][k]
        BY DEF ListsKept
      <4>1. h \in 1 .. FunDepth /\ h \in DOMAIN closures'
        BY <1>1, <2>8
      <4>2. CASE h = FunDepth
        BY <2>4, <2>8, <4>1, <4>2
      <4>3. CASE h # FunDepth
        BY <2>8, <4>1, <4>3
      <4> QED
        BY <4>1, <4>2, <4>3
    <3> QED
      BY <3>1, <3>2
  <2>12. Registers'
    <3> SUFFICES ASSUME NEW i \in 1 .. LocalCount'
                 PROVE  LET h == locals'[i].compiled_function IN
                          /\ locals'[i].real = i - 1
                          /\ locals'[i].put = locals'[i].ofsetted + Priv
                          /\ locals'[i].is_link <= MaxLocals
                          /\ locals'[i].ofsetted < counters'[h]
                          /\ \A j \in 1 .. LocalCount' : i < j /\ locals'[j].compiled_function = h =>
                               locals'[i].ofsetted + (j - i) <= locals'[j].ofsetted
      BY DEF Registers
    <3>1. i \in 1 .. LocalCount
      BY <2>9
    <3>2. locals'[i].is_link <= MaxLocals
      BY <2>7, <2>10, <3>1 DEF Registers
    <3> QED
      BY <2>9, <2>10, <3>1, <3>2 DEF Registers
  <2>13. Captures'
    <3> SUFFICES ASSUME NEW h \in DOMAIN closures', NEW k \in DOMAIN closures'[h]
                 PROVE  LET i == closures'[h][k].local IN
                          /\ i \in 1 .. LocalCount'
                          /\ locals'[i].compiled_function < h
                          /\ closures'[h][k].place = i - 1 + Priv * h
                          /\ locals'[i].is_link # 0
                          /\ MaxFuns <= 2 => locals'[i].is_link = k
                          /\ \A l \in DOMAIN closures'[h] : closures'[h][l].local = i => l = k
      BY DEF Captures
    <3>1. h \in 1 .. FunDepth /\ h \in DOMAIN closures
      BY <1>1, <2>8
    <3>2. CASE h = FunDepth /\ k = n + 1
      <4>1. closures'[h][k] = new /\ closures'[h] = list
        BY <2>4, <2>8, <3>1, <3>2
      <4>2. new.local = r /\ new.place = r - 1 + Priv * h
        BY <1>3, <1>4, <3>2 DEF new
      <4>3. locals'[r].compiled_function < h /\ locals'[r].is_link = n + 1
        BY <1>1, <1>2, <1>4, <2>5, <2>10, <3>2 DEF Outer
      <4>4. \A l \in DOMAIN list : list[l].local = r => l = n + 1
        BY <2>4, <2>6
      <4> QED
        BY <2>4, <2>5, <2>9, <3>2, <4>1, <4>2, <4>3, <4>4
    <3>3. CASE ~(h = FunDepth /\ k = n + 1)
      <4> DEFINE i == closures[h][k].local
      <4>1. k \in DOMAIN closures[h] /\ closures'[h][k] = closures[h][k]
        BY <2>4, <2>8, <3>1, <3>3
      <4>2. /\ i \in 1 .. LocalCount /\ locals[i].compiled_function < h
            /\ closures[h][k].place = i - 1 + Priv * h
            /\ locals[i].is_link # 0
            /\ MaxFuns <= 2 => locals[i].is_link = k
            /\ \A l \in DOMAIN closures[h] : closures[h][l].local = i => l = k
        BY <3>1, <4>1 DEF Captures
      <4> HIDE DEF i
      <4>3. h = FunDepth => i # r
        <5>1. h = FunDepth => k \in 1 .. n
          BY <2>4, <3>3, <4>1
        <5> QED
          BY <2>6, <5>1 DEF i
      <4>4. MaxFuns <= 2 => i # r
        <5> SUFFICES ASSUME MaxFuns <= 2, i = r PROVE FALSE
          OBVIOUS
        <5>1. locals[r].compiled_function \in 1 .. FunDepth /\ FunDepth > locals[r].compiled_function
          BY <1>2, <1>4 DEF Outer
        <5>2. locals[r].compiled_function < h
          BY <4>2
        <5>3. h # FunDepth
          BY <4>3
        <5> QED
          BY <1>1, <3>1, <5>1, <5>2, <5>3
      <4>5. /\ locals'[i].compiled_function < h /\ locals'[i].is_link # 0
            /\ MaxFuns <= 2 => locals'[i].is_link = k
        BY <2>4, <2>10, <4>2, <4>4
      <4>6. \A l \in DOMAIN closures'[h] : closures'[h][l].local = i => l = k
        <5> TAKE l \in DOMAIN closures'[h]
        <5>1. CASE h = FunDepth /\ l = n + 1
          BY <2>4, <2>8, <3>1, <4>3, <5>1 DEF new
        <5>2. CASE ~(h = FunDepth /\ l = n + 1)
          <6>1. l \in DOMAIN closures[h] /\ closures'[h][l] = closures[h][l]
            <7>1. CASE h = FunDepth
              BY <2>4, <2>8, <3>1, <5>2, <7>1
            <7>2. CASE h # FunDepth
              BY <2>8, <3>1, <7>2
            <7> QED
              BY <7>1, <7>2
          <6> QED
            BY <4>2, <6>1
        <5> QED
          BY <5>1, <5>2
      <4> QED
        BY <2>9, <4>1, <4>2, <4>5, <4>6 DEF i
    <3> QED
      BY <3>2, <3>3
  <2>14. FunDepth \in DOMAIN closures' /\ \E k \in DOMAIN closures'[FunDepth] : closures'[FunDepth][k].local = r
    <3>1. n + 1 \in DOMAIN list /\ list[n + 1].local = r
      BY <2>4 DEF new
    <3> QED
      BY <2>5, <2>8, <3>1
  <2> QED
    BY <2>8, <2>9, <2>11, <2>12, <2>13, <2>14
<1>5. CASE ~(Visible(x) # {} /\ Outer(r) /\ ~Captured(r))
  <2>1. UNCHANGED <<closures, locals>>
    BY <1>5 DEF Resolve
  <2>2. Relinked /\ ListsKept
    BY <2>1 DEF Relinked, ListsKept, LocalCount
  <2>3. Registers' /\ Captures'
    BY <2>1 DEF Registers, Captures, LocalCount
  <2>4. ASSUME Visible(x) # {}, Outer(r)
        PROVE  /\ FunDepth \in DOMAIN closures
               /\ \E k \in DOMAIN closures[FunDepth] : closures[FunDepth][k].local = r
    <3>1. PICK k \in DOMAIN closures[FunDepth] : closures[FunDepth][k].place = FramedIndex(r)
      BY <1>5, <2>4 DEF Captured
    <3>2. FunDepth \in DOMAIN closures /\ FramedIndex(r) = r - 1 + Priv * FunDepth
      BY <1>3, <2>4
    <3> DEFINE i == closures[FunDepth][k].local
    <3>3. i \in 1 .. LocalCount /\ closures[FunDepth][k].place = i - 1 + Priv * FunDepth
      BY <3>1, <3>2 DEF Captures
    <3>4. r \in 1 .. LocalCount
      BY <1>2, <2>4
    <3> HIDE DEF i, r
    <3>5. i = r
      BY <1>1, <3>1, <3>2, <3>3, <3>4 DEF Priv
    <3> QED
      BY <3>1, <3>2, <3>5 DEF i
  <2> QED
    BY <1>1, <2>1, <2>2, <2>3, <2>4
<1> QED
  BY <1>4, <1>5

-----------------------------------------------------------------------------
(* Locals declared. *)

LEMMA DeclKeeps ==
  ASSUME Limits, Shape, Registers, Captures, NEW own, Placed(own), MayDeclare,
         counters # <<>>, NEW x \in Names, NEW depth \in Nat, Decl(x, depth), UNCHANGED closures
  PROVE  /\ locals' \in Seq(LocalRecords)
         /\ LocalCount' = LocalCount + 1 /\ LocalCount' <= MaxLocals
         /\ \A i \in 1 .. LocalCount : locals'[i] = locals[i]
         /\ locals'[LocalCount + 1].depth = depth
         /\ locals'[LocalCount + 1].name = x /\ locals'[LocalCount + 1].is_const = 0
         /\ locals'[LocalCount + 1].compiled_function = FunDepth
         /\ FunDepth # 0
         /\ counters' \in Seq(0 .. MaxRegs) /\ Len(counters') = FunDepth
         /\ Registers' /\ Captures'
<1> DEFINE n == LocalCount + 1
          reg == counters[FunDepth]
          new == [NewLocal(x, depth, reg + Priv, 0) EXCEPT
                    !.real = LocalCount, !.ofsetted = reg, !.compiled_function = FunDepth]
<1>1. /\ LocalCount \in Nat /\ DOMAIN locals = 1 .. LocalCount /\ LocalCount < MaxLocals
      /\ locals \in Seq(LocalRecords)
      /\ FunDepth \in Nat /\ DOMAIN closures = 1 .. FunDepth
      /\ counters \in Seq(0 .. MaxRegs) /\ FunDepth = Len(counters)
      /\ MaxLocals \in Nat /\ MaxRegs \in Nat /\ Width \in Nat /\ MaxRegs < Width
  BY Numbers, ScopeAssumption DEF Shape, MayDeclare, FunDepth, Priv
<1>2. FunDepth \in 1 .. FunDepth /\ FunDepth # 0
  BY <1>1, EmptySeq
<1>3. reg \in Nat /\ reg < MaxRegs /\ (reg + 1) % Width = reg + 1
  <2>1. reg \in 0 .. MaxRegs /\ reg < MaxRegs
    BY <1>1, <1>2, ElementOfSeq DEF MayDeclare
  <2> HIDE DEF reg
  <2>2. PICK p \in Nat : p = reg + 1 /\ p < Width
    BY <1>1, <2>1
  <2>3. p % Width = p
    BY <1>1, <2>2, NoWrap
  <2> QED
    BY <1>1, <2>1, <2>2, <2>3
<1>4. locals' = Append(locals, new) /\ counters' = [counters EXCEPT ![FunDepth] = reg + 1]
  BY <1>3 DEF Decl
<1>5. /\ new.depth = depth /\ new.name = x /\ new.is_const = 0 /\ new.compiled_function = FunDepth /\ new.real = LocalCount
      /\ new.ofsetted = reg /\ new.put = reg + Priv /\ new.is_link = 0
      /\ new \in LocalRecords
  <2> HIDE DEF reg
  <2>1. new = [name |-> x, depth |-> depth, is_const |-> 0, is_link |-> 0, ofsetted |-> reg,
               compiled_function |-> FunDepth, real |-> LocalCount, put |-> reg + Priv]
    <3>1. PICK v : v = NewLocal(x, depth, reg + Priv, 0)
      OBVIOUS
    <3>2. v = [name |-> x, depth |-> depth, is_const |-> 0, is_link |-> 0, ofsetted |-> 0,
               compiled_function |-> 0, real |-> 0, put |-> reg + Priv]
      BY <3>1 DEF NewLocal
    <3>3. PICK u : u = [v EXCEPT !.real = LocalCount, !.ofsetted = reg]
      OBVIOUS
    <3>4. u = [name |-> x, depth |-> depth, is_const |-> 0, is_link |-> 0, ofsetted |-> reg,
               compiled_function |-> 0, real |-> LocalCount, put |-> reg + Priv]
      BY <3>2, <3>3
    <3>5. new = [u EXCEPT !.compiled_function = FunDepth]
      BY <3>1, <3>2, <3>3
    <3> QED
      BY <3>4, <3>5
  <2>2. reg + Priv \in Nat
    BY <1>3 DEF Priv
  <2> HIDE DEF new
  <2> QED
    BY <1>1, <1>3, <2>1, <2>2 DEF LocalRecords
<1> HIDE DEF new, reg
<1>6. /\ locals' \in Seq(LocalRecords) /\ LocalCount' = n
      /\ \A i \in 1 .. LocalCount : locals'[i] = locals[i]
      /\ locals'[n] = new
  BY <1>1, <1>4, <1>5, AppendProperties DEF LocalCount
<1>7. /\ counters' \in Seq(0 .. MaxRegs) /\ Len(counters') = FunDepth
      /\ \A h \in 1 .. FunDepth : counters'[h] = IF h = FunDepth THEN reg + 1 ELSE counters[h]
  <2>1. reg + 1 \in 0 .. MaxRegs
    BY <1>1, <1>3
  <2> QED
    BY <1>1, <1>2, <1>4, <2>1, ExceptSeq
<1>8. \A i \in 1 .. LocalCount : /\ locals[i].compiled_function \in 1 .. FunDepth
                                 /\ locals[i].ofsetted \in Nat
  <2> TAKE i \in 1 .. LocalCount
  <2>1. locals[i] \in LocalRecords
    BY <1>1
  <2> QED
    BY <2>1, OfOpenFunction DEF LocalRecords
<1>9. \A i \in 1 .. LocalCount : locals[i].compiled_function = FunDepth =>
        locals[i].ofsetted + (n - i) <= reg
  <2> TAKE i \in 1 .. LocalCount
  <2> HAVE locals[i].compiled_function = FunDepth
  <2> DEFINE last == locals[LocalCount]
  <2>1. LocalCount \in 1 .. LocalCount /\ i <= LocalCount
    BY <1>1
  <2>2. last.compiled_function = FunDepth
    <3>1. locals[i].compiled_function <= last.compiled_function
      BY <2>1, FunctionsInOrder
    <3> QED
      BY <1>1, <1>8, <2>1, <3>1
  <2>3. last.ofsetted < reg /\ last.ofsetted \in Nat
    BY <1>8, <2>1, <2>2 DEF Registers, reg
  <2>4. i # LocalCount => locals[i].ofsetted + (LocalCount - i) <= last.ofsetted
    BY <1>1, <2>1, <2>2 DEF Registers
  <2>5. locals[i].ofsetted \in Nat
    BY <1>8
  <2> HIDE DEF last
  <2>6. CASE i = LocalCount
    BY <1>1, <1>3, <2>1, <2>3, <2>5, <2>6 DEF last
  <2>7. CASE i # LocalCount
    BY <1>1, <1>3, <2>1, <2>3, <2>4, <2>5, <2>7
  <2> QED
    BY <2>6, <2>7
<1>10. Registers'
  <2> SUFFICES ASSUME NEW i \in 1 .. LocalCount'
               PROVE  LET h == locals'[i].compiled_function IN
                        /\ locals'[i].real = i - 1
                        /\ locals'[i].put = locals'[i].ofsetted + Priv
                        /\ locals'[i].is_link <= MaxLocals
                        /\ locals'[i].ofsetted < counters'[h]
                        /\ \A j \in 1 .. LocalCount' : i < j /\ locals'[j].compiled_function = h =>
                             locals'[i].ofsetted + (j - i) <= locals'[j].ofsetted
    BY DEF Registers
  <2>1. CASE i = n
    <3>1. locals'[i] = new /\ ~\E j \in 1 .. LocalCount' : i < j
      BY <1>1, <1>6, <2>1
    <3>2. counters'[FunDepth] = reg + 1 /\ reg < reg + 1
      BY <1>2, <1>3, <1>7
    <3>3. n - 1 = LocalCount
      BY <1>1
    <3> QED
      BY <1>1, <1>5, <2>1, <3>1, <3>2, <3>3
  <2>2. CASE i # n
    <3>1. i \in 1 .. LocalCount /\ locals'[i] = locals[i]
      BY <1>1, <1>6, <2>2
    <3> DEFINE h == locals[i].compiled_function
    <3>2. h \in 1 .. FunDepth /\ locals[i].ofsetted \in Nat
      BY <1>8, <3>1
    <3>3. /\ locals[i].real = i - 1
          /\ locals[i].put = locals[i].ofsetted + Priv
          /\ locals[i].is_link <= MaxLocals
          /\ locals[i].ofsetted < counters[h]
          /\ \A j \in 1 .. LocalCount : i < j /\ locals[j].compiled_function = h =>
               locals[i].ofsetted + (j - i) <= locals[j].ofsetted
      BY <3>1 DEF Registers
    <3> HIDE DEF h
    <3>4. locals[i].ofsetted < counters'[h]
      <4>1. h = FunDepth => locals[i].ofsetted < reg + 1
        BY <1>3, <3>2, <3>3 DEF reg
      <4> QED
        BY <1>7, <3>2, <3>3, <4>1
    <3>5. ASSUME NEW j \in 1 .. LocalCount', i < j, locals'[j].compiled_function = h
          PROVE  locals[i].ofsetted + (j - i) <= locals'[j].ofsetted
      <4>1. CASE j = n
        BY <1>5, <1>6, <1>9, <3>1, <3>5, <4>1 DEF h
      <4>2. CASE j # n
        <5>1. j \in 1 .. LocalCount /\ locals'[j] = locals[j]
          BY <1>1, <1>6, <4>2
        <5> QED
          BY <3>3, <3>5, <5>1
      <4> QED
        BY <4>1, <4>2
    <3> QED
      BY <3>1, <3>3, <3>4, <3>5 DEF h
  <2> QED
    BY <2>1, <2>2
<1>11. Captures'
  <2> SUFFICES ASSUME NEW h \in DOMAIN closures, NEW k \in DOMAIN closures[h]
               PROVE  LET i == closures[h][k].local IN
                        /\ i \in 1 .. LocalCount'
                        /\ locals'[i].compiled_function < h
                        /\ closures[h][k].place = i - 1 + Priv * h
                        /\ locals'[i].is_link # 0
                        /\ MaxFuns <= 2 => locals'[i].is_link = k
                        /\ \A l \in DOMAIN closures[h] : closures[h][l].local = i => l = k
    BY DEF Captures
  <2>1. closures[h][k].local \in 1 .. LocalCount
    BY DEF Captures
  <2>2. closures[h][k].local \in 1 .. LocalCount' /\ locals'[closures[h][k].local] = locals[closures[h][k].local]
    BY <1>1, <1>6, <2>1
  <2> QED
    BY <2>2 DEF Captures
<1> QED
  BY <1>1, <1>2, <1>5, <1>6, <1>7, <1>10, <1>11

\* A name that passes the check for one declared already is new in its scope.
LEMMA NotDeclared ==
  ASSUME Shape, NEW own, Placed(own), open # <<>>, Top.kind \in {"block", "params"},
         NEW x, ~Declared(x), NEW i \in 1 .. LocalCount, Depth(own[i]) = scope_depth
  PROVE  locals[i].name # x
<1>1. PICK N \in Nat : /\ N + 1 = Len(open) /\ DOMAIN open = 1 .. N + 1 /\ open[N + 1] = Top
                       /\ LocalCount \in Nat /\ DOMAIN locals = 1 .. LocalCount
  <2>1. Len(open) \in Nat \ {0}
    BY Numbers, EmptySeq DEF Shape
  <2>2. \A a \in Nat \ {0} : a - 1 \in Nat /\ (a - 1) + 1 = a
    OBVIOUS
  <2>3. LocalCount \in Nat /\ DOMAIN locals = 1 .. LocalCount /\ DOMAIN open = 1 .. Len(open)
    BY Numbers
  <2> QED
    BY <2>1, <2>2, <2>3 DEF Top
<1>2. scope_depth = Depth(N) + 1 /\ Depth(N) \in Nat
  <2>1. open[N + 1].kind \in ScopeKinds
    BY <1>1 DEF ScopeKinds
  <2>2. Count(open, N + 1, ScopeKinds) = Count(open, N, ScopeKinds) + 1 /\ Count(open, N, ScopeKinds) \in Nat
    BY <2>1, Counting
  <2>3. scope_depth = Count(open, N + 1, ScopeKinds)
    BY <1>1 DEF Shape, Depth
  <2> QED
    BY <2>2, <2>3 DEF Depth
<1>3. own[i] = N + 1
  <2>1. own[i] \in 1 .. N + 1
    BY <1>1 DEF Placed
  <2>2. own[i] \in 0 .. N => Depth(own[i]) <= Depth(N)
    BY CountMonotone DEF Depth
  <2>3. own[i] # N + 1 => own[i] \in 0 .. N
    BY <2>1
  <2>4. ~(scope_depth <= Depth(N))
    BY <1>2
  <2> QED
    BY <2>2, <2>3, <2>4
<1>4. ASSUME NEW j \in i .. LocalCount PROVE locals[j].depth >= scope_depth
  <2>1. j \in 1 .. LocalCount /\ own[j] \in 1 .. N + 1 /\ own[i] <= own[j]
    <3>1. j \in 1 .. LocalCount /\ i <= j
      BY <1>1, <1>4
    <3> QED
      BY <1>1, <3>1 DEF Placed
  <2>2. own[j] = N + 1
    BY <1>3, <2>1
  <2>3. locals[j].depth = Depth(N + 1)
    BY <1>1, <2>1, <2>2 DEF Placed
  <2>4. Depth(N + 1) = scope_depth
    BY <1>1 DEF Shape
  <2> QED
    BY <1>2, <2>3, <2>4
<1> QED
  BY <1>1, <1>4 DEF Declared

\* The local declared is the last one, and of construct n: the declaration just
\* opened, or the parameters under way.
Added(n) ==
  /\ LocalCount' = LocalCount + 1
  /\ \A i \in 1 .. LocalCount : locals'[i] = locals[i]
  /\ n \in Nat \ {0} /\ Len(open') = n /\ DOMAIN open' = 1 .. n
  /\ \A m \in 1 .. Len(open) : open'[m] = open[m]
  /\ \A m \in 0 .. Len(open) : Depth(m)' = Depth(m) /\ Funs(m)' = Funs(m)
  /\ \/ n = Len(open) /\ open'[n].kind = "params"
     \/ n = Len(open) + 1 /\ open'[n].kind = "decl"
  /\ {"local", "global"} \cap DOMAIN open'[n] = {}
  /\ locals'[LocalCount + 1].depth = IF open'[n].kind = "decl" THEN 0 ELSE Depth(n)'
  /\ locals'[LocalCount + 1].compiled_function = Funs(n)' /\ Funs(n)' # 0

LEMMA AddPlaced ==
  ASSUME Shape, NEW own, Placed(own), Assigned(own), Meant(own), ~rotten,
         UNCHANGED closures, NEW n, Added(n),
         ~rotten' =>
           /\ locals'[LocalCount + 1].name \in Names
           /\ \A i \in 1 .. LocalCount : Depth(own[i]) = Depth(n)' =>
                locals[i].name # locals'[LocalCount + 1].name
  PROVE  \E new : Placed(new)' /\ Assigned(new)' /\ Meant(new)'
<1>1. PICK c \in Nat, len \in Nat :
        /\ c = LocalCount + 1 /\ c - 1 = LocalCount /\ LocalCount' = c
        /\ len = Len(open) /\ DOMAIN open = 1 .. len
        /\ n \in {len, len + 1} /\ n \in 1 .. n
        /\ Len(open') = n /\ DOMAIN open' = 1 .. n
        /\ \A i \in 1 .. c : i = c \/ i \in 1 .. c - 1
  <2>1. /\ LocalCount \in Nat /\ Len(open) \in Nat /\ DOMAIN open = 1 .. Len(open)
        /\ n \in Nat \ {0} /\ (n = Len(open) \/ n = Len(open) + 1)
        /\ Len(open') = n /\ DOMAIN open' = 1 .. n /\ LocalCount' = LocalCount + 1
    BY Numbers DEF Added
  <2>2. \A a \in Nat : /\ a + 1 \in Nat /\ (a + 1) - 1 = a
                       /\ \A i \in 1 .. a + 1 : i = a + 1 \/ i \in 1 .. a
    OBVIOUS
  <2>3. \A m \in Nat \ {0} : m \in 1 .. m
    OBVIOUS
  <2>4. PICK a \in Nat, len \in Nat : a = LocalCount /\ len = Len(open)
    BY <2>1
  <2>5. PICK c \in Nat : c = a + 1
    BY <2>2
  <2>6. /\ c = LocalCount + 1 /\ c - 1 = LocalCount /\ LocalCount' = c
        /\ \A i \in 1 .. c : i = c \/ i \in 1 .. c - 1
    BY <2>1, <2>2, <2>4, <2>5
  <2> QED
    BY <2>1, <2>3, <2>4, <2>6
<1>2. /\ own \in [1 .. c - 1 -> 1 .. len]
      /\ \A i \in 1 .. c - 1 : locals'[i] = locals[i]
      /\ \A m \in 1 .. len : open'[m] = open[m]
      /\ \A m \in 0 .. len : Depth(m)' = Depth(m) /\ Funs(m)' = Funs(m)
  BY <1>1 DEF Placed, Added
<1>3. PICK new : new = [i \in 1 .. c |-> IF i = c THEN n ELSE own[i]]
  OBVIOUS
<1>4. /\ new[c] = n
      /\ \A i \in 1 .. c - 1 : new[i] = own[i]
      /\ new \in [1 .. c -> 1 .. n]
  <2>1. \A i \in 1 .. c : i # c => own[i] \in 1 .. n
    BY <1>1, <1>2
  <2>2. c \in 1 .. c /\ \A i \in 1 .. c - 1 : i \in 1 .. c /\ i # c
    BY <1>1, Numbers
  <2> QED
    BY <1>1, <1>3, <2>1, <2>2
<1>5. Placed(new)'
  <2>1. new \in [1 .. LocalCount' -> 1 .. Len(open')]
    BY <1>1, <1>4
  <2>2. \A i, j \in 1 .. c : i <= j => new[i] <= new[j]
    <3> TAKE i, j \in 1 .. c
    <3> HAVE i <= j
    <3>1. CASE j = c
      <4>1. new[i] \in 1 .. n
        BY <1>4
      <4> QED
        BY <1>1, <1>4, <3>1, <4>1
    <3>2. CASE j # c
      <4>1. i \in 1 .. c - 1 /\ j \in 1 .. c - 1
        BY <1>1, <3>2
      <4> QED
        BY <1>1, <1>4, <4>1 DEF Placed
    <3> QED
      BY <3>1, <3>2
  <2>3. ASSUME NEW i \in 1 .. c
        PROVE  /\ open'[new[i]].kind # "assign"
               /\ locals'[i].depth = IF open'[new[i]].kind = "decl" THEN 0 ELSE Depth(new[i])'
               /\ locals'[i].compiled_function = Funs(new[i])'
               /\ locals'[i].compiled_function # 0
    <3>1. CASE i = c
      BY <1>1, <1>4, <3>1 DEF Added
    <3>2. CASE i # c
      <4>1. /\ i \in 1 .. c - 1 /\ i \in 1 .. LocalCount
            /\ new[i] = own[i] /\ locals'[i] = locals[i]
            /\ own[i] \in 1 .. len /\ own[i] \in 0 .. len
        BY <1>1, <1>2, <1>4, <3>2
      <4>2. /\ open'[own[i]] = open[own[i]]
            /\ Depth(own[i])' = Depth(own[i]) /\ Funs(own[i])' = Funs(own[i])
        BY <1>2, <4>1
      <4> QED
        BY <4>1, <4>2 DEF Placed
    <3> QED
      BY <3>1, <3>2
  <2>4. ASSUME NEW m \in DOMAIN open', open'[m].kind = "decl"
        PROVE  \E i \in 1 .. c : new[i] = m /\ \A j \in 1 .. c : new[j] = m => j = i
    <3>1. CASE m = len + 1
      <4>1. n = m /\ c \in 1 .. c
        BY <1>1, <2>4, <3>1, Numbers
      <4>2. \A j \in 1 .. c : new[j] = m => j = c
        <5> TAKE j \in 1 .. c
        <5>1. j # c => new[j] \in 1 .. len
          BY <1>1, <1>2, <1>4
        <5> QED
          BY <1>1, <3>1, <5>1
      <4> QED
        BY <1>4, <4>1, <4>2
    <3>2. CASE m # len + 1
      <4>1. m \in 1 .. len /\ m \in DOMAIN open
        BY <1>1, <2>4, <3>2
      <4>2. open[m].kind = "decl"
        BY <1>2, <2>4, <4>1
      <4>3. m # n
        BY <1>1, <2>4, <3>2 DEF Added
      <4>4. PICK i \in 1 .. c - 1 : own[i] = m /\ \A j \in 1 .. c - 1 : own[j] = m => j = i
        BY <1>1, <4>1, <4>2 DEF Placed
      <4>5. i \in 1 .. c /\ new[i] = m
        BY <1>1, <1>4, <4>4
      <4>6. \A j \in 1 .. c : new[j] = m => j = i
        BY <1>1, <1>4, <4>3, <4>4
      <4> QED
        BY <4>5, <4>6
    <3> QED
      BY <3>1, <3>2
  <2> QED
    BY <1>1, <2>1, <2>2, <2>3, <2>4 DEF Placed
<1>6. Assigned(new)'
  <2> SUFFICES ASSUME NEW m \in DOMAIN open', "local" \in DOMAIN open'[m]
               PROVE  LET i == open'[m].local IN
                        /\ i \in 1 .. LocalCount' /\ new[i] < m
                        /\ locals'[i].compiled_function < Funs(m)' =>
                             \E k \in DOMAIN closures'[Funs(m)'] : closures'[Funs(m)'][k].local = i
    BY DEF Assigned
  <2>1. m \in 1 .. len /\ m \in 0 .. len /\ m \in DOMAIN open
    BY <1>1 DEF Added
  <2>2. open'[m] = open[m] /\ Funs(m)' = Funs(m)
    BY <1>2, <2>1
  <2>3. open[m].local \in 1 .. c - 1 /\ own[open[m].local] < m
    BY <1>1, <2>1, <2>2 DEF Assigned
  <2>4. /\ open[m].local \in 1 .. LocalCount' /\ new[open[m].local] = own[open[m].local]
        /\ locals'[open[m].local] = locals[open[m].local]
    BY <1>1, <1>2, <1>4, <2>3
  <2> QED
    BY <2>1, <2>2, <2>3, <2>4 DEF Assigned
<1>7. Meant(new)'
  <2> SUFFICES ASSUME ~rotten' PROVE Distinct(new)' /\ \A m \in DOMAIN open' : Means(new, m)'
    BY DEF Meant
  <2>1. Distinct(own) /\ \A m \in DOMAIN open : Means(own, m)
    BY DEF Meant
  <2>2. \A i \in 1 .. c - 1 :
          /\ i \in 1 .. LocalCount /\ new[i] = own[i] /\ locals'[i] = locals[i]
          /\ Depth(new[i])' = Depth(own[i])
    <3> TAKE i \in 1 .. c - 1
    <3>1. own[i] \in 1 .. len /\ own[i] \in 0 .. len
      BY <1>2
    <3> QED
      BY <1>1, <1>2, <1>4, <3>1
  <2>3. /\ locals'[c].name \in Names /\ Depth(new[c])' = Depth(n)'
        /\ \A i \in 1 .. c - 1 : Depth(own[i]) = Depth(n)' => locals[i].name # locals'[c].name
    BY <1>1, <1>4
  <2>4. Distinct(new)'
    <3>1. \A i \in 1 .. c : locals'[i].name \in Names
      BY <1>1, <2>1, <2>2, <2>3 DEF Distinct
    <3>2. ASSUME NEW i \in 1 .. c, NEW j \in 1 .. c, i # j, Depth(new[i])' = Depth(new[j])'
          PROVE  locals'[i].name # locals'[j].name
      <4>1. CASE i = c
        <5>1. j \in 1 .. c - 1
          BY <1>1, <3>2, <4>1
        <5> QED
          BY <2>2, <2>3, <3>2, <4>1, <5>1
      <4>2. CASE j = c
        <5>1. i \in 1 .. c - 1
          BY <1>1, <3>2, <4>2
        <5> QED
          BY <2>2, <2>3, <3>2, <4>2, <5>1
      <4>3. CASE i # c /\ j # c
        <5>1. i \in 1 .. c - 1 /\ j \in 1 .. c - 1
          BY <1>1, <4>3
        <5> QED
          BY <2>1, <2>2, <3>2, <5>1 DEF Distinct
      <4> QED
        BY <4>1, <4>2, <4>3
    <3> QED
      BY <1>1, <3>1, <3>2 DEF Distinct
  <2>5. ASSUME NEW m \in DOMAIN open' PROVE Means(new, m)'
    <3>1. CASE {"local", "global"} \cap DOMAIN open'[m] = {}
      BY <3>1 DEF Means
    <3>2. CASE {"local", "global"} \cap DOMAIN open'[m] # {}
      <4>1. m \in 1 .. n /\ n \in Nat
        BY <1>1 DEF Added
      <4>2. m # n
        BY <3>2 DEF Added
      <4>3. m \in DOMAIN open /\ open'[m] = open[m]
        BY <1>1, <1>2, <4>1, <4>2
      <4>4. \A j \in 1 .. LocalCount' : new[j] < m => j \in 1 .. c - 1
        BY <1>1, <1>4, <4>1
      <4>5. "local" \in DOMAIN open[m] => open[m].local \in 1 .. LocalCount' /\ new[open[m].local] < m
        BY <1>6, <4>3 DEF Assigned
      <4>6. \A j \in 1 .. LocalCount' : new[j] < m =>
              /\ j \in 1 .. LocalCount /\ own[j] < m /\ locals'[j].name = locals[j].name
              /\ locals'[j].depth = locals[j].depth /\ locals'[j].is_const = locals[j].is_const
        BY <2>2, <4>4
      <4> QED
        BY <2>1, <4>3, <4>5, <4>6, MeansKept
    <3> QED
      BY <3>1, <3>2
  <2> QED
    BY <2>4, <2>5
<1> QED
  BY <1>5, <1>6, <1>7

-----------------------------------------------------------------------------
(* Scopes ended. *)

\* The scope that ends leaves the locals of the constructs around it, and only these.
LEMMA FloorOfScope ==
  ASSUME Limits, Shape, NEW own, Placed(own), open # <<>>, Top.kind \in {"block", "fun"}
  PROVE  /\ ScopeFloor \in 0 .. LocalCount
         /\ \A i \in 1 .. LocalCount : i <= ScopeFloor <=> own[i] < Len(open)
<1> DEFINE N == Len(open)
          S == {0} \cup {i \in DOMAIN locals : locals[i].depth # scope_depth}
<1>1. /\ LocalCount \in Nat /\ DOMAIN locals = 1 .. LocalCount
      /\ DOMAIN open = 1 .. N /\ open \in Seq(Constructs)
  BY Numbers DEF Shape
<1>2. N \in Nat \ {0} /\ N - 1 \in Nat /\ N \in 1 .. N
  BY <1>1, PopSeq
<1>3. scope_depth = Depth(N - 1) + 1 /\ Depth(N - 1) \in Nat
  <2>1. PICK p \in Nat : p = N - 1 /\ N = p + 1
    BY <1>2
  <2>2. open[p + 1].kind \in ScopeKinds
    BY <2>1 DEF Top, ScopeKinds
  <2> QED
    BY <2>1, <2>2, Counting DEF Shape, Depth
<1>4. \A i \in 1 .. LocalCount : locals[i].depth # scope_depth <=> own[i] < N
  <2> TAKE i \in 1 .. LocalCount
  <2>1. own[i] \in 1 .. N
    BY DEF Placed
  <2>2. CASE own[i] = N
    <3>1. open[N].kind # "decl"
      BY DEF Top
    <3>2. locals[i].depth = Depth(N)
      BY <2>2, <3>1 DEF Placed
    <3> QED
      BY <1>2, <2>2, <3>2 DEF Shape
  <2>3. CASE own[i] # N
    <3>1. own[i] < N /\ own[i] \in 0 .. N - 1 /\ own[i] \in Nat
      BY <1>2, <2>1, <2>3
    <3>2. Depth(own[i]) \in Nat /\ Depth(own[i]) <= Depth(N - 1)
      BY <1>2, <3>1, Counting, CountMonotone DEF Depth
    <3>3. locals[i].depth = 0 \/ locals[i].depth = Depth(own[i])
      BY DEF Placed
    <3> QED
      BY <1>3, <3>1, <3>2, <3>3
  <2> QED
    BY <2>2, <2>3
<1>5. S \in SUBSET (0 .. LocalCount) /\ S # {}
  BY <1>1
<1>6. ScopeFloor = Max(S)
  BY DEF ScopeFloor
<1>7. \A i \in 1 .. LocalCount : i \in S <=> own[i] < N
  BY <1>1, <1>4
<1>8. 0 \in S
  OBVIOUS
<1> HIDE DEF S
<1>9. ScopeFloor \in S /\ \A i \in S : i <= ScopeFloor
  BY <1>1, <1>5, <1>6, Maximum
<1>10. ScopeFloor \in 0 .. LocalCount
  BY <1>5, <1>9
<1>11. ASSUME NEW i \in 1 .. LocalCount, i <= ScopeFloor
       PROVE  own[i] < N
  <2>1. ScopeFloor \in 1 .. LocalCount
    BY <1>1, <1>10, <1>11
  <2>2. own[ScopeFloor] < N /\ own[i] <= own[ScopeFloor]
    BY <1>7, <1>9, <1>11, <2>1 DEF Placed
  <2>3. own[i] \in 1 .. N /\ own[ScopeFloor] \in 1 .. N
    BY <2>1 DEF Placed
  <2> QED
    BY <1>2, <2>2, <2>3
<1> QED
  BY <1>7, <1>9, <1>10, <1>11

LEMMA EndScopeKeeps ==
  ASSUME Limits, Shape, NEW own, Placed(own), open # <<>>, Top.kind \in {"block", "fun"},
         NEW line \in Lines, EndScope(line)
  PROVE  /\ locals' \in Seq(LocalRecords)
         /\ LocalCount' = ScopeFloor /\ LocalCount' \in 0 .. LocalCount
         /\ \A i \in 1 .. LocalCount' : locals'[i] = locals[i]
<1>1. /\ LocalCount \in Nat /\ DOMAIN locals = 1 .. LocalCount /\ locals \in Seq(LocalRecords)
      /\ scope_depth \in Nat /\ scope_depth <= MaxOpen /\ MaxOpen \in Nat
  BY Numbers DEF Shape
<1>2. line # scope_depth
  BY <1>1, ScopeAssumption DEF Limits
<1>3. ScopeFloor \in 0 .. LocalCount
  BY FloorOfScope
<1>4. locals' = SubSeq(locals, 1, ScopeFloor)
  BY <1>2 DEF EndScope
<1>5. PICK p \in Nat : p = ScopeFloor /\ p <= LocalCount
  BY <1>1, <1>3
<1>6. /\ SubSeq(locals, 1, p) \in Seq(LocalRecords) /\ Len(SubSeq(locals, 1, p)) = p
      /\ \A i \in 1 .. p : SubSeq(locals, 1, p)[i] = locals[i]
  BY <1>1, <1>5 DEF LocalCount
<1> QED
  BY <1>3, <1>4, <1>5, <1>6 DEF LocalCount

\* The construct closed takes the locals it declared with it.
Closed ==
  /\ open' = Pop(open) /\ LocalCount' \in 0 .. LocalCount
  /\ \A i \in 1 .. LocalCount' : locals'[i] = locals[i]
  /\ \A h \in 1 .. Len(closures') : closures'[h] = closures[h]
  /\ Len(closures') = Funs(Len(open) - 1)

LEMMA PopPlaced ==
  ASSUME Shape, NEW own, Placed(own), Assigned(own), Meant(own), ~rotten, open # <<>>, Closed,
         \A i \in 1 .. LocalCount : i <= LocalCount' <=> own[i] < Len(open)
  PROVE  \E new : Placed(new)' /\ Assigned(new)' /\ Meant(new)'
<1>1. PICK N \in Nat, c \in Nat, d \in Nat :
        /\ N = Len(open) - 1 /\ Len(open) = N + 1 /\ Len(open') = N
        /\ DOMAIN open = 1 .. N + 1 /\ DOMAIN open' = 1 .. N
        /\ c = LocalCount' /\ d = LocalCount /\ c <= d
  <2>1. LocalCount \in Nat /\ DOMAIN open = 1 .. Len(open)
    BY Numbers
  <2>2. Len(open) \in Nat \ {0} /\ Len(open') = Len(open) - 1 /\ DOMAIN open' = 1 .. Len(open) - 1
    BY Popping DEF Closed
  <2>3. LocalCount' \in Nat /\ LocalCount' <= LocalCount
    BY <2>1 DEF Closed
  <2>4. Len(open) - 1 \in Nat /\ Len(open) = (Len(open) - 1) + 1
    BY <2>2
  <2> QED
    BY <2>1, <2>2, <2>3, <2>4
<1>2. /\ \A n \in 1 .. N : open'[n] = open[n]
      /\ \A n \in 0 .. N : Depth(n)' = Depth(n) /\ Funs(n)' = Funs(n)
      /\ \A i \in 1 .. c : locals'[i] = locals[i]
  BY <1>1, Popping DEF Closed
<1>3. /\ \A i \in 1 .. c : i \in 1 .. d
      /\ \A i \in 1 .. d : own[i] \in 1 .. N + 1
      /\ \A i \in 1 .. d : own[i] < N + 1 => i \in 1 .. c
      /\ \A i \in 1 .. c : own[i] \in 1 .. N /\ own[i] \in 0 .. N
  <2>1. /\ \A i \in 1 .. c : i \in 1 .. d
        /\ \A i \in 1 .. d : own[i] \in 1 .. N + 1
    BY <1>1 DEF Placed
  <2>2. \A i \in 1 .. d : own[i] < N + 1 => i <= c
    BY <1>1
  <2>3. \A i \in 1 .. c : own[i] < N + 1
    BY <1>1, <2>1
  <2> QED
    BY <2>1, <2>2, <2>3
<1>4. PICK new : new = [i \in 1 .. c |-> own[i]]
  OBVIOUS
<1>5. new \in [1 .. c -> 1 .. N] /\ \A i \in 1 .. c : new[i] = own[i]
  BY <1>3, <1>4
<1>6. Placed(new)'
  <2>1. new \in [1 .. LocalCount' -> 1 .. Len(open')]
    BY <1>1, <1>5
  <2>2. \A i, j \in 1 .. c : i <= j => new[i] <= new[j]
    BY <1>1, <1>3, <1>5 DEF Placed
  <2>3. ASSUME NEW i \in 1 .. c
        PROVE  /\ open'[new[i]].kind # "assign"
               /\ locals'[i].depth = IF open'[new[i]].kind = "decl" THEN 0 ELSE Depth(new[i])'
               /\ locals'[i].compiled_function = Funs(new[i])'
               /\ locals'[i].compiled_function # 0
    <3>1. /\ i \in 1 .. LocalCount /\ new[i] = own[i] /\ locals'[i] = locals[i]
          /\ own[i] \in 1 .. N /\ own[i] \in 0 .. N
      BY <1>1, <1>2, <1>3, <1>5
    <3>2. /\ open'[own[i]] = open[own[i]]
          /\ Depth(own[i])' = Depth(own[i]) /\ Funs(own[i])' = Funs(own[i])
      BY <1>2, <3>1
    <3> QED
      BY <3>1, <3>2 DEF Placed
  <2>4. ASSUME NEW m \in DOMAIN open', open'[m].kind = "decl"
        PROVE  \E i \in 1 .. c : new[i] = m /\ \A j \in 1 .. c : new[j] = m => j = i
    <3>1. m \in 1 .. N /\ m \in DOMAIN open /\ m < N + 1
      BY <1>1
    <3>2. open[m].kind = "decl"
      BY <1>2, <2>4, <3>1
    <3>3. PICK i \in 1 .. d : own[i] = m /\ \A j \in 1 .. d : own[j] = m => j = i
      BY <1>1, <3>1, <3>2 DEF Placed
    <3>4. i \in 1 .. c /\ new[i] = m
      BY <1>3, <1>5, <3>1, <3>3
    <3> QED
      BY <1>3, <1>5, <3>3, <3>4
  <2> QED
    BY <1>1, <2>1, <2>2, <2>3, <2>4 DEF Placed
<1>7. Assigned(new)'
  <2> SUFFICES ASSUME NEW m \in DOMAIN open', "local" \in DOMAIN open'[m]
               PROVE  LET i == open'[m].local IN
                        /\ i \in 1 .. LocalCount' /\ new[i] < m
                        /\ locals'[i].compiled_function < Funs(m)' =>
                             \E k \in DOMAIN closures'[Funs(m)'] : closures'[Funs(m)'][k].local = i
    BY DEF Assigned
  <2>1. m \in 1 .. N /\ m \in 0 .. N /\ m \in Nat /\ m \in DOMAIN open /\ m < N + 1
    BY <1>1
  <2>2. open'[m] = open[m] /\ Funs(m)' = Funs(m)
    BY <1>2, <2>1
  <2>3. PICK i \in 1 .. d : i = open[m].local /\ own[i] < m
    BY <1>1, <2>1, <2>2 DEF Assigned
  <2>4. i \in 1 .. c /\ new[i] = own[i] /\ locals'[i] = locals[i]
    <3>1. own[i] \in 1 .. N + 1
      BY <1>3
    <3>2. own[i] < N + 1
      BY <1>1, <2>1, <2>3, <3>1
    <3> QED
      BY <1>2, <1>3, <1>5, <3>2
  <2>5. ASSUME locals[i].compiled_function < Funs(m)
        PROVE  \E k \in DOMAIN closures'[Funs(m)] : closures'[Funs(m)][k].local = i
    <3>1. \E k \in DOMAIN closures[Funs(m)] : closures[Funs(m)][k].local = i
      BY <2>1, <2>2, <2>3, <2>5 DEF Assigned
    <3>2. Funs(m) \in 1 .. Len(closures')
      <4>1. Funs(m) \in Nat /\ Funs(m) <= Funs(N) /\ Funs(N) \in Nat
        BY <1>1, <2>1, Counting, CountMonotone DEF Funs
      <4>2. locals[i].compiled_function \in 1 .. FunDepth /\ FunDepth \in Nat
        BY <1>1, <2>3, OfOpenFunction, Numbers
      <4> QED
        BY <1>1, <2>5, <4>1, <4>2 DEF Closed
    <3> QED
      BY <3>1, <3>2 DEF Closed
  <2> QED
    BY <1>1, <2>1, <2>2, <2>3, <2>4, <2>5
<1>8. Meant(new)'
  <2>1. \A i \in 1 .. LocalCount' :
          /\ i \in 1 .. LocalCount /\ locals'[i] = locals[i] /\ new[i] = own[i]
          /\ Depth(new[i])' = Depth(own[i])
    BY <1>1, <1>2, <1>3, <1>5
  <2>2. \A n \in DOMAIN open' : n \in DOMAIN open /\ open'[n] = open[n]
    <3>1. \A n \in 1 .. N : n \in 1 .. N + 1
      OBVIOUS
    <3> QED
      BY <1>1, <1>2, <3>1
  <2> QED
    BY <1>7, <2>1, <2>2, MeantKept
<1> QED
  BY <1>6, <1>7, <1>8

-----------------------------------------------------------------------------
(* The steps. *)

LEMMA CloseKeeps ==
  ASSUME Limits, IInv, ~rotten, open # <<>>, Top.kind \in {"block", "fun"},
         NEW line \in Lines, EndScope(line), open' = Pop(open),
         counters' \in Seq(0 .. MaxRegs), Len(counters') = Funs(Len(open) - 1),
         closures' \in Seq(Seq([place : Nat, local : Nat])),
         Len(closures') = Funs(Len(open) - 1),
         \A h \in 1 .. Funs(Len(open) - 1) : counters'[h] = counters[h] /\ closures'[h] = closures[h]
  PROVE  IInv'
<1> DEFINE F == Funs(Len(open) - 1)
<1>1. Shape /\ Registers /\ Captures
  BY DEF IInv
<1>2. PICK own : Placed(own) /\ Assigned(own) /\ Meant(own)
  BY DEF IInv
<1>3. /\ locals' \in Seq(LocalRecords) /\ LocalCount' = ScopeFloor
      /\ LocalCount' \in 0 .. LocalCount
      /\ \A i \in 1 .. LocalCount' : locals'[i] = locals[i]
  BY <1>1, <1>2, EndScopeKeeps
<1>4. \A i \in 1 .. LocalCount : i <= LocalCount' <=> own[i] < Len(open)
  BY <1>1, <1>2, <1>3, FloorOfScope
<1>5. /\ LocalCount \in Nat /\ LocalCount <= MaxLocals /\ MaxLocals \in Nat
      /\ Len(open) \in Nat /\ DOMAIN open = 1 .. Len(open) /\ Len(open) <= MaxOpen
      /\ MaxOpen \in Nat /\ FunDepth \in Nat /\ FunDepth <= MaxFuns /\ MaxFuns \in Nat
      /\ DOMAIN closures = 1 .. FunDepth
  BY <1>1, Numbers DEF Shape
<1>6. /\ Len(open) - 1 \in Nat /\ Len(open) - 1 \in 0 .. Len(open)
      /\ open' \in Seq(Constructs) /\ Len(open') = Len(open) - 1
      /\ DOMAIN open' = 1 .. Len(open) - 1
      /\ \A n \in 1 .. Len(open) - 1 : open'[n] = open[n]
      /\ \A n \in 0 .. Len(open) - 1 : Depth(n)' = Depth(n) /\ Funs(n)' = Funs(n)
      /\ scope_depth = Depth(Len(open) - 1) + 1
  BY <1>1, Popping DEF ScopeKinds
<1>7. F \in Nat /\ F <= FunDepth
  BY <1>1, <1>5, <1>6, Counting, CountMonotone DEF Funs, Shape
<1>8. \A i \in 1 .. LocalCount' :
        i \in 1 .. LocalCount /\ locals[i].compiled_function \in 1 .. F
  <2> TAKE i \in 1 .. LocalCount'
  <2>1. i \in 1 .. LocalCount /\ i <= LocalCount'
    BY <1>3, <1>5
  <2>2. own[i] \in 1 .. Len(open) /\ own[i] < Len(open)
    BY <1>2, <1>4, <2>1 DEF Placed
  <2>3. own[i] \in 0 .. Len(open) - 1 /\ own[i] \in Nat
    BY <1>5, <2>2
  <2>4. Funs(own[i]) \in Nat /\ Funs(own[i]) <= F
    BY <1>6, <2>3, Counting, CountMonotone DEF Funs
  <2>5. locals[i].compiled_function = Funs(own[i]) /\ locals[i].compiled_function # 0
    BY <1>2, <2>1 DEF Placed
  <2> QED
    BY <1>7, <2>1, <2>4, <2>5
<1>9. Shape'
  <2>1. Depth(Len(open) - 1) \in Nat /\ scope_depth' = Depth(Len(open) - 1)
    <3>1. Depth(Len(open) - 1) \in Nat
      BY <1>6, Counting DEF Depth
    <3> QED
      BY <1>6, <3>1 DEF EndScope
  <2>2. scope_depth' = Depth(Len(open))' /\ Len(counters') = Funs(Len(open))'
    <3>1. Len(open) - 1 \in 0 .. Len(open) - 1
      BY <1>6
    <3>2. Depth(Len(open))' = Count(open', Len(open) - 1, ScopeKinds)
          /\ Funs(Len(open))' = Count(open', Len(open) - 1, FunKinds)
      BY <1>6 DEF Depth, Funs
    <3>3. Count(open', Len(open) - 1, ScopeKinds) = Depth(Len(open) - 1)
          /\ Count(open', Len(open) - 1, FunKinds) = Funs(Len(open) - 1)
      <4>1. \A n \in 0 .. Len(open) - 1 : /\ Count(open', n, ScopeKinds) = Depth(n)
                                          /\ Count(open', n, FunKinds) = Funs(n)
        BY <1>6 DEF Depth, Funs
      <4> QED
        BY <3>1, <4>1
    <3> QED
      BY <2>1, <3>2, <3>3
  <2>3. \A n \in DOMAIN open' : open'[n].kind = "decl" => n > 1 /\ open'[n - 1].kind = "block"
    <3> TAKE n \in DOMAIN open'
    <3> HAVE open'[n].kind = "decl"
    <3>1. n \in 1 .. Len(open) - 1 /\ n \in DOMAIN open /\ open'[n] = open[n]
      BY <1>5, <1>6
    <3>2. n > 1 /\ open[n - 1].kind = "block"
      BY <1>1, <3>1 DEF Shape
    <3>3. n - 1 \in 1 .. Len(open) - 1
      BY <1>6, <3>1, <3>2
    <3> QED
      BY <1>6, <3>2, <3>3
  <2>4. LocalCount' <= MaxLocals /\ Len(open') <= MaxOpen /\ Len(counters') <= MaxFuns
    BY <1>3, <1>5, <1>6, <1>7
  <2> QED
    BY <1>3, <1>6, <2>2, <2>3, <2>4 DEF Shape, LocalCount, FunDepth
<1>10. Registers'
  <2> SUFFICES ASSUME NEW i \in 1 .. LocalCount'
               PROVE  LET h == locals'[i].compiled_function IN
                        /\ locals'[i].real = i - 1
                        /\ locals'[i].put = locals'[i].ofsetted + Priv
                        /\ locals'[i].is_link <= MaxLocals
                        /\ locals'[i].ofsetted < counters'[h]
                        /\ \A j \in 1 .. LocalCount' : i < j /\ locals'[j].compiled_function = h =>
                             locals'[i].ofsetted + (j - i) <= locals'[j].ofsetted
    BY DEF Registers
  <2>1. /\ i \in 1 .. LocalCount /\ locals'[i] = locals[i]
        /\ counters'[locals[i].compiled_function] = counters[locals[i].compiled_function]
    BY <1>3, <1>8
  <2>2. \A j \in 1 .. LocalCount' : j \in 1 .. LocalCount /\ locals'[j] = locals[j]
    BY <1>3, <1>8
  <2> QED
    BY <1>1, <2>1, <2>2 DEF Registers
<1>11. Captures'
  <2> SUFFICES ASSUME NEW h \in DOMAIN closures', NEW k \in DOMAIN closures'[h]
               PROVE  LET i == closures'[h][k].local IN
                        /\ i \in 1 .. LocalCount'
                        /\ locals'[i].compiled_function < h
                        /\ closures'[h][k].place = i - 1 + Priv * h
                        /\ locals'[i].is_link # 0
                        /\ MaxFuns <= 2 => locals'[i].is_link = k
                        /\ \A l \in DOMAIN closures'[h] : closures'[h][l].local = i => l = k
    BY DEF Captures
  <2>1. h \in 1 .. F /\ closures'[h] = closures[h] /\ h \in DOMAIN closures
    <3>1. DOMAIN closures' = 1 .. F
      OBVIOUS
    <3> QED
      BY <1>5, <1>7, <3>1
  <2> DEFINE i == closures[h][k].local
  <2>2. /\ i \in 1 .. LocalCount
        /\ locals[i].compiled_function < h
        /\ closures[h][k].place = i - 1 + Priv * h
        /\ locals[i].is_link # 0
        /\ MaxFuns <= 2 => locals[i].is_link = k
        /\ \A l \in DOMAIN closures[h] : closures[h][l].local = i => l = k
    BY <1>1, <2>1 DEF Captures
  <2> HIDE DEF i
  <2>3. i \in 1 .. LocalCount'
    <3>1. own[i] \in 1 .. Len(open) /\ locals[i].compiled_function = Funs(own[i])
      BY <1>2, <2>2 DEF Placed
    <3>2. own[i] # Len(open)
      <4> SUFFICES ASSUME own[i] = Len(open) PROVE FALSE
        OBVIOUS
      <4>1. locals[i].compiled_function = FunDepth
        BY <1>1, <3>1 DEF Shape
      <4> QED
        BY <1>5, <1>7, <2>1, <2>2, <4>1
    <3>3. own[i] < Len(open)
      BY <1>5, <3>1, <3>2
    <3>4. i <= LocalCount'
      BY <1>4, <2>2, <3>3
    <3>5. LocalCount' \in Nat /\ i \in Nat /\ 1 <= i
      BY <1>3, <1>5, <2>2
    <3> QED
      BY <3>4, <3>5
  <2> QED
    BY <1>3, <2>1, <2>2, <2>3 DEF i
<1>12. \E new : Placed(new)' /\ Assigned(new)' /\ Meant(new)'
  <2>1. \A h \in 1 .. Len(closures') : closures'[h] = closures[h]
    OBVIOUS
  <2>2. Closed
    BY <1>3, <2>1 DEF Closed
  <2> QED
    BY <1>1, <1>2, <1>4, <2>2, PopPlaced
<1> QED
  BY <1>9, <1>10, <1>11, <1>12 DEF IInv, Placed

LEMMA EndBlockInv ==
  ASSUME Limits, IInv, NEW line \in Lines, EndBlock(line)
  PROVE  IInv'
<1>1. Shape
  BY DEF IInv
<1>2. /\ ~rotten /\ open # <<>> /\ Top.kind = "block" /\ EndScope(line) /\ open' = Pop(open)
      /\ UNCHANGED <<counters, closures>>
  BY DEF EndBlock, Within
<1>3. FunDepth = Funs(Len(open) - 1) /\ FunDepth \in Nat
  <2>1. FunDepth = Funs(Len(open) - 1) + 0
    BY <1>1, <1>2, Popping DEF FunKinds
  <2>2. Funs(Len(open) - 1) \in Nat
    BY <1>1, <1>2, Popping, Counting DEF Funs
  <2> QED
    BY <2>1, <2>2
<1>4. /\ counters \in Seq(0 .. MaxRegs) /\ Len(counters) = FunDepth
      /\ closures \in Seq(Seq([place : Nat, local : Nat])) /\ Len(closures) = FunDepth
  BY <1>1 DEF Shape, FunDepth
<1> QED
  BY <1>2, <1>3, <1>4, CloseKeeps

LEMMA EndFunInv ==
  ASSUME Limits, IInv, NEW line \in Lines, EndFun(line)
  PROVE  IInv'
<1>1. Shape
  BY DEF IInv
<1>2. /\ ~rotten /\ open # <<>> /\ Top.kind = "fun" /\ EndScope(line) /\ open' = Pop(open)
      /\ counters' = Pop(counters) /\ closures' = Pop(closures)
  BY DEF EndFun, Within
<1>3. /\ Funs(Len(open) - 1) \in Nat /\ FunDepth = Funs(Len(open) - 1) + 1
  <2>1. FunDepth = Funs(Len(open) - 1) + 1
    BY <1>1, <1>2, Popping DEF FunKinds
  <2>2. Funs(Len(open) - 1) \in Nat
    BY <1>1, <1>2, Popping, Counting DEF Funs
  <2> QED
    BY <2>1, <2>2
<1>4. /\ counters \in Seq(0 .. MaxRegs) /\ Len(counters) = FunDepth
      /\ closures \in Seq(Seq([place : Nat, local : Nat])) /\ Len(closures) = FunDepth
      /\ FunDepth - 1 = Funs(Len(open) - 1)
  BY <1>1, <1>3 DEF Shape, FunDepth
<1>5. counters # <<>> /\ closures # <<>>
  BY <1>3, <1>4
<1>6. /\ Pop(counters) \in Seq(0 .. MaxRegs) /\ Len(Pop(counters)) = Funs(Len(open) - 1)
      /\ \A h \in 1 .. Funs(Len(open) - 1) : Pop(counters)[h] = counters[h]
  BY <1>4, <1>5, PopSeq
<1>7. /\ Pop(closures) \in Seq(Seq([place : Nat, local : Nat]))
      /\ Len(Pop(closures)) = Funs(Len(open) - 1)
      /\ \A h \in 1 .. Funs(Len(open) - 1) : Pop(closures)[h] = closures[h]
  BY <1>4, <1>5, PopSeq
<1> QED
  BY <1>2, <1>6, <1>7, CloseKeeps

LEMMA BeginScopeInv ==
  ASSUME Limits, IInv, BeginBlock \/ BeginFun
  PROVE  IInv'
<1>1. Shape /\ Registers /\ Captures
  BY DEF IInv
<1>2. PICK own : Placed(own) /\ Assigned(own) /\ Meant(own)
  BY DEF IInv
<1>3. PICK kind \in {"block", "params"} :
        /\ ~rotten /\ open' = Append(open, [kind |-> kind])
        /\ scope_depth' = scope_depth + 1 /\ locals' = locals /\ Len(open) < MaxOpen
        /\ kind = "block" => UNCHANGED <<counters, closures>>
        /\ kind = "params" => /\ counters' = Append(counters, 0) /\ closures' = Append(closures, <<>>)
                              /\ FunDepth < MaxFuns
  <2>1. CASE BeginBlock
    BY <2>1 DEF BeginBlock, Opening, Expression
  <2>2. CASE BeginFun
    BY <2>2 DEF BeginFun, Opening, Expression
  <2> QED
    BY <2>1, <2>2
<1> DEFINE new == [kind |-> kind]
<1>4. new \in Constructs /\ new.kind = kind /\ "local" \notin DOMAIN new /\ "global" \notin DOMAIN new
  BY <1>3 DEF Constructs, ScopeKinds
<1>5. /\ LocalCount \in Nat /\ DOMAIN locals = 1 .. LocalCount
      /\ Len(open) \in Nat /\ DOMAIN open = 1 .. Len(open) /\ MaxOpen \in Nat
      /\ FunDepth \in Nat /\ DOMAIN closures = 1 .. FunDepth /\ MaxFuns \in Nat
      /\ counters \in Seq(0 .. MaxRegs) /\ FunDepth = Len(counters) /\ MaxRegs \in Nat
      /\ closures \in Seq(Seq([place : Nat, local : Nat])) /\ FunDepth = Len(closures)
      /\ FunDepth <= MaxFuns
  BY <1>1, Numbers DEF Shape, FunDepth
<1> HIDE DEF new
<1>6. /\ open' \in Seq(Constructs) /\ Len(open') = Len(open) + 1
      /\ DOMAIN open' = 1 .. Len(open) + 1
      /\ \A n \in 1 .. Len(open) : open'[n] = open[n]
      /\ open'[Len(open) + 1] = new
      /\ Depth(Len(open))' = scope_depth + (IF kind \in ScopeKinds THEN 1 ELSE 0)
      /\ Funs(Len(open))' = FunDepth + (IF kind \in FunKinds THEN 1 ELSE 0)
  BY <1>1, <1>3, <1>4, Pushing DEF new
<1>7. /\ counters' \in Seq(0 .. MaxRegs) /\ closures' \in Seq(Seq([place : Nat, local : Nat]))
      /\ Len(counters') = Funs(Len(open))' /\ Len(closures') = Len(counters')
      /\ Len(counters') <= MaxFuns
      /\ \A h \in 1 .. FunDepth : counters'[h] = counters[h] /\ closures'[h] = closures[h]
      /\ \A h \in DOMAIN closures' : h \in 1 .. FunDepth \/ closures'[h] = <<>>
      /\ \A h \in 1 .. FunDepth : h \in DOMAIN closures'
  <2>1. CASE kind = "block"
    <3>1. Funs(Len(open))' = FunDepth
      BY <1>5, <1>6, <2>1 DEF FunKinds
    <3> QED
      BY <1>3, <1>5, <2>1, <3>1
  <2>2. CASE kind = "params"
    <3>1. Funs(Len(open))' = FunDepth + 1
      BY <1>6, <2>2 DEF FunKinds
    <3>2. /\ counters' = Append(counters, 0) /\ closures' = Append(closures, <<>>)
          /\ FunDepth < MaxFuns
      BY <1>3, <2>2
    <3>3. /\ counters' \in Seq(0 .. MaxRegs) /\ Len(counters') = FunDepth + 1
          /\ \A h \in 1 .. FunDepth : counters'[h] = counters[h]
      <4> DEFINE R == 0 .. MaxRegs
      <4>1. counters \in Seq(R) /\ 0 \in R
        BY <1>5
      <4> HIDE DEF R
      <4>2. PICK z \in R : z = 0
        BY <4>1
      <4>3. /\ Append(counters, z) \in Seq(R)
            /\ Len(Append(counters, z)) = Len(counters) + 1
            /\ \A h \in 1 .. Len(counters) : Append(counters, z)[h] = counters[h]
        BY <4>1, AppendProperties
      <4> QED
        BY <1>5, <3>2, <4>2, <4>3 DEF R
    <3>4. /\ closures' \in Seq(Seq([place : Nat, local : Nat])) /\ Len(closures') = FunDepth + 1
          /\ \A h \in 1 .. FunDepth : closures'[h] = closures[h]
          /\ closures'[FunDepth + 1] = <<>>
      <4> DEFINE Lists == Seq([place : Nat, local : Nat])
      <4>1. <<>> \in Lists /\ closures \in Seq(Lists)
        BY <1>5, EmptySeq
      <4> HIDE DEF Lists
      <4>2. /\ Append(closures, <<>>) \in Seq(Lists) /\ Len(Append(closures, <<>>)) = Len(closures) + 1
            /\ \A h \in 1 .. Len(closures) : Append(closures, <<>>)[h] = closures[h]
            /\ Append(closures, <<>>)[Len(closures) + 1] = <<>>
        BY <4>1, AppendProperties
      <4> QED
        BY <1>5, <3>2, <4>2 DEF Lists
    <3>5. DOMAIN closures' = 1 .. FunDepth + 1
      BY <3>4, LenProperties
    <3> QED
      BY <1>5, <3>1, <3>2, <3>3, <3>4, <3>5
  <2> QED
    BY <1>3, <2>1, <2>2
<1>8. Shape'
  <2>1. scope_depth' = Depth(Len(open))'
    BY <1>3, <1>6 DEF ScopeKinds
  <2>2. \A n \in DOMAIN open' : open'[n].kind = "decl" => n > 1 /\ open'[n - 1].kind = "block"
    <3> TAKE n \in DOMAIN open'
    <3> HAVE open'[n].kind = "decl"
    <3>1. n \in 1 .. Len(open) + 1 /\ n # Len(open) + 1
      BY <1>3, <1>4, <1>6
    <3>2. n \in DOMAIN open /\ open'[n] = open[n]
      BY <1>5, <1>6, <3>1
    <3>3. n > 1 /\ open[n - 1].kind = "block"
      BY <1>1, <3>2 DEF Shape
    <3>4. n - 1 \in 1 .. Len(open)
      BY <1>5, <3>1, <3>3
    <3> QED
      BY <1>6, <3>3, <3>4
  <2>3. Len(open') <= MaxOpen
    BY <1>3, <1>5, <1>6
  <2> QED
    BY <1>1, <1>3, <1>6, <1>7, <2>1, <2>2, <2>3 DEF Shape, LocalCount, FunDepth
<1>9. \A i \in 1 .. LocalCount : locals[i].compiled_function \in 1 .. FunDepth
  BY <1>1, <1>2, OfOpenFunction
<1>10. Registers'
  BY <1>1, <1>3, <1>7, <1>9 DEF Registers, LocalCount
<1>11. Captures'
  <2> SUFFICES ASSUME NEW h \in DOMAIN closures', NEW k \in DOMAIN closures'[h]
               PROVE  LET i == closures'[h][k].local IN
                        /\ i \in 1 .. LocalCount
                        /\ locals[i].compiled_function < h
                        /\ closures'[h][k].place = i - 1 + Priv * h
                        /\ locals[i].is_link # 0
                        /\ MaxFuns <= 2 => locals[i].is_link = k
                        /\ \A l \in DOMAIN closures'[h] : closures'[h][l].local = i => l = k
    BY <1>3 DEF Captures, LocalCount
  <2>1. h \in DOMAIN closures /\ closures'[h] = closures[h]
    <3>1. DOMAIN <<>> = {}
      OBVIOUS
    <3> QED
      BY <1>5, <1>7, <3>1
  <2> QED
    BY <1>1, <2>1 DEF Captures
<1>12. Placed(own)' /\ Assigned(own)' /\ Meant(own)'
  <2>1. Relinked
    BY <1>3 DEF Relinked, LocalCount
  <2>2. ListsKept
    BY <1>5, <1>7 DEF ListsKept
  <2> QED
    BY <1>1, <1>2, <1>3, <1>4, <2>1, <2>2, PushPlaced DEF new
<1> QED
  BY <1>8, <1>10, <1>11, <1>12 DEF IInv, Placed

LEMMA EndParamsInv ==
  ASSUME Limits, IInv, EndParams
  PROVE  IInv'
<1>1. Shape /\ Registers /\ Captures
  BY DEF IInv
<1>2. PICK own : Placed(own) /\ Assigned(own) /\ Meant(own)
  BY DEF IInv
<1>3. /\ ~rotten /\ open # <<>> /\ open[Len(open)].kind = "params"
      /\ open' = [open EXCEPT ![Len(open)] = [kind |-> "fun"]]
      /\ UNCHANGED <<locals, scope_depth, counters, closures>>
  BY DEF EndParams, Within, Top
<1>4. Len(open) \in Nat /\ DOMAIN open = 1 .. Len(open) /\ open \in Seq(Constructs)
  BY <1>1, Numbers DEF Shape
<1>5. Len(open) \in 1 .. Len(open)
  BY <1>3, <1>4, EmptySeq
<1>6. [kind |-> "fun"] \in Constructs /\ {"local", "global"} \cap DOMAIN [kind |-> "fun"] = {}
  BY DEF Constructs, ScopeKinds
<1>7. /\ open' \in Seq(Constructs) /\ Len(open') = Len(open) /\ DOMAIN open' = 1 .. Len(open)
      /\ \A n \in 1 .. Len(open) :
           open'[n] = IF n = Len(open) THEN [kind |-> "fun"] ELSE open[n]
  BY <1>3, <1>4, <1>5, <1>6, ExceptSeq
<1>8. \A n \in 1 .. Len(open) :
        /\ open'[n].kind \in ScopeKinds <=> open[n].kind \in ScopeKinds
        /\ open'[n].kind \in FunKinds <=> open[n].kind \in FunKinds
        /\ open'[n].kind = "decl" <=> open[n].kind = "decl"
        /\ open'[n].kind = "assign" <=> open[n].kind = "assign"
        /\ open'[n].kind = "block" <=> open[n].kind = "block"
        /\ "local" \in DOMAIN open'[n] => open'[n] = open[n]
  <2> TAKE n \in 1 .. Len(open)
  <2>1. CASE n = Len(open)
    BY <1>3, <1>6, <1>7, <2>1 DEF ScopeKinds, FunKinds
  <2>2. CASE n # Len(open)
    BY <1>7, <2>2
  <2> QED
    BY <2>1, <2>2
<1>9. \A n \in 0 .. Len(open) : Depth(n)' = Depth(n) /\ Funs(n)' = Funs(n)
  <2> TAKE n \in 0 .. Len(open)
  <2>1. n \in Nat /\ \A m \in 1 .. n : m \in 1 .. Len(open)
    BY <1>4
  <2>2. /\ Count(open', n, ScopeKinds) = Count(open, n, ScopeKinds)
        /\ Count(open', n, FunKinds) = Count(open, n, FunKinds)
    BY <1>8, <2>1, CountSame
  <2> QED
    BY <2>2 DEF Depth, Funs
<1>10. Shape'
  <2>1. Depth(Len(open))' = Depth(Len(open)) /\ Funs(Len(open))' = Funs(Len(open))
    <3>1. Len(open) \in 0 .. Len(open)
      BY <1>4
    <3>2. /\ Count(open', Len(open), ScopeKinds) = Count(open, Len(open), ScopeKinds)
          /\ Count(open', Len(open), FunKinds) = Count(open, Len(open), FunKinds)
      BY <1>4, <1>8, CountSame
    <3> QED
      BY <1>7, <3>2 DEF Depth, Funs
  <2>2. \A n \in DOMAIN open' : open'[n].kind = "decl" => n > 1 /\ open'[n - 1].kind = "block"
    <3> TAKE n \in DOMAIN open'
    <3> HAVE open'[n].kind = "decl"
    <3>1. n \in DOMAIN open /\ open[n].kind = "decl"
      BY <1>4, <1>7, <1>8
    <3>2. n > 1 /\ open[n - 1].kind = "block"
      BY <1>1, <3>1 DEF Shape
    <3>3. n - 1 \in 1 .. Len(open)
      BY <1>4, <3>1, <3>2
    <3> QED
      BY <1>8, <3>2, <3>3
  <2> QED
    BY <1>1, <1>3, <1>7, <2>1, <2>2 DEF Shape, LocalCount, FunDepth
<1>11. Registers' /\ Captures'
  BY <1>1, <1>3 DEF Registers, Captures, LocalCount
<1>12. Placed(own)'
  <2>1. \A i \in 1 .. LocalCount : own[i] \in 1 .. Len(open) /\ own[i] \in 0 .. Len(open)
    BY <1>2, <1>4 DEF Placed
  <2>2. \A i \in 1 .. LocalCount :
          /\ open'[own[i]].kind # "assign"
          /\ locals[i].depth = IF open'[own[i]].kind = "decl" THEN 0 ELSE Depth(own[i])'
          /\ locals[i].compiled_function = Funs(own[i])'
          /\ locals[i].compiled_function # 0
    BY <1>2, <1>8, <1>9, <2>1 DEF Placed
  <2>3. \A n \in DOMAIN open' : open'[n].kind = "decl" => \E i \in 1 .. LocalCount :
          own[i] = n /\ \A j \in 1 .. LocalCount : own[j] = n => j = i
    BY <1>2, <1>4, <1>7, <1>8 DEF Placed
  <2> QED
    BY <1>2, <1>3, <1>7, <2>2, <2>3 DEF Placed, LocalCount
<1>13. Assigned(own)'
  <2> SUFFICES ASSUME NEW n \in DOMAIN open', "local" \in DOMAIN open'[n]
               PROVE  LET i == open'[n].local IN
                        /\ i \in 1 .. LocalCount /\ own[i] < n
                        /\ locals[i].compiled_function < Funs(n)' =>
                             \E k \in DOMAIN closures[Funs(n)'] : closures[Funs(n)'][k].local = i
    BY <1>3 DEF Assigned, LocalCount
  <2>1. /\ n \in 0 .. Len(open) /\ n \in DOMAIN open /\ open'[n] = open[n] /\ Funs(n)' = Funs(n)
    <3>1. n \in 1 .. Len(open) /\ n \in 0 .. Len(open)
      <4>1. n \in 1 .. Len(open)
        BY <1>7
      <4> QED
        BY <1>4, <4>1
    <3>2. open'[n] = open[n]
      BY <1>8, <3>1
    <3> QED
      BY <1>4, <1>9, <3>1, <3>2
  <2> QED
    BY <1>2, <2>1 DEF Assigned
<1>14. Meant(own)'
  <2>1. \A i \in 1 .. LocalCount' :
          /\ i \in 1 .. LocalCount /\ locals'[i] = locals[i] /\ Depth(own[i])' = Depth(own[i])
    <3>1. \A i \in 1 .. LocalCount : own[i] \in 0 .. Len(open)
      BY <1>2, <1>4 DEF Placed
    <3> QED
      BY <1>3, <1>9, <3>1 DEF LocalCount
  <2>2. \A n \in DOMAIN open' : {"local", "global"} \cap DOMAIN open'[n] # {} =>
          n \in DOMAIN open /\ open'[n] = open[n]
    BY <1>4, <1>6, <1>7
  <2> QED
    BY <1>2, <1>3, <1>13, <2>1, <2>2, MeantKept
<1> QED
  BY <1>10, <1>11, <1>12, <1>13, <1>14 DEF IInv, Placed

LEMMA BeginDeclInv ==
  ASSUME Limits, IInv, NEW x \in Names, BeginDecl(x)
  PROVE  IInv'
<1> DEFINE new == [kind |-> "decl"]
<1>1. Shape /\ Registers /\ Captures
  BY DEF IInv
<1>2. PICK own : Placed(own) /\ Assigned(own) /\ Meant(own)
  BY DEF IInv
<1>3. /\ ~rotten /\ rotten' = Declared(x) /\ Len(open) < MaxOpen /\ open # <<>> /\ open[Len(open)].kind = "block"
      /\ MayDeclare /\ counters # <<>> /\ Decl(x, 0)
      /\ open' = Append(open, new) /\ UNCHANGED <<scope_depth, closures>>
  BY DEF BeginDecl, Opening, Expression, Within, Limits, Top
<1>4. new \in Constructs /\ new.kind = "decl" /\ {"local", "global"} \cap DOMAIN new = {}
  BY DEF Constructs
<1> HIDE DEF new
<1>5. /\ Len(open) \in Nat /\ DOMAIN open = 1 .. Len(open) /\ MaxOpen \in Nat
      /\ FunDepth \in Nat /\ scope_depth \in Nat /\ LocalCount \in Nat
  BY <1>1, Numbers
<1>6. /\ open' \in Seq(Constructs) /\ Len(open') = Len(open) + 1
      /\ DOMAIN open' = 1 .. Len(open) + 1
      /\ \A n \in 1 .. Len(open) : open'[n] = open[n]
      /\ open'[Len(open) + 1] = new
      /\ \A n \in 0 .. Len(open) : Depth(n)' = Depth(n) /\ Funs(n)' = Funs(n)
      /\ Depth(Len(open))' = scope_depth
      /\ Funs(Len(open))' = FunDepth
  BY <1>1, <1>3, <1>4, <1>5, Pushing DEF ScopeKinds, FunKinds
<1>7. /\ locals' \in Seq(LocalRecords)
      /\ LocalCount' = LocalCount + 1 /\ LocalCount' <= MaxLocals
      /\ \A i \in 1 .. LocalCount : locals'[i] = locals[i]
      /\ locals'[LocalCount + 1].depth = 0 /\ locals'[LocalCount + 1].name = x
      /\ locals'[LocalCount + 1].compiled_function = FunDepth
      /\ FunDepth # 0
      /\ counters' \in Seq(0 .. MaxRegs) /\ Len(counters') = FunDepth
      /\ Registers' /\ Captures'
  BY <1>1, <1>2, <1>3, DeclKeeps
<1>8. Shape'
  <2>1. \A n \in DOMAIN open' : open'[n].kind = "decl" => n > 1 /\ open'[n - 1].kind = "block"
    <3> TAKE n \in DOMAIN open'
    <3> HAVE open'[n].kind = "decl"
    <3>1. CASE n = Len(open) + 1
      <4>1. Len(open) # 0
        BY <1>1, <1>3, EmptySeq DEF Shape
      <4>2. Len(open) \in 1 .. Len(open) /\ n - 1 = Len(open) /\ n > 1
        BY <1>5, <3>1, <4>1
      <4> QED
        BY <1>3, <1>6, <4>2
    <3>2. CASE n # Len(open) + 1
      <4>1. n \in DOMAIN open /\ open'[n] = open[n] /\ n \in 1 .. Len(open)
        BY <1>5, <1>6, <3>2
      <4>2. n > 1 /\ open[n - 1].kind = "block"
        BY <1>1, <4>1 DEF Shape
      <4>3. n - 1 \in 1 .. Len(open)
        BY <1>5, <4>1, <4>2
      <4> QED
        BY <1>6, <4>2, <4>3
    <3> QED
      BY <3>1, <3>2
  <2>2. Len(open') <= MaxOpen
    BY <1>3, <1>5, <1>6
  <2> QED
    BY <1>1, <1>3, <1>6, <1>7, <2>1, <2>2 DEF Shape, FunDepth
<1>9. \E n : Added(n) /\ Depth(n)' = scope_depth
  <2>1. PICK n \in Nat \ {0} : n = Len(open) + 1
    BY <1>5
  <2>2. Funs(n)' = FunDepth /\ Depth(n)' = scope_depth
    BY <1>6, <2>1 DEF Funs, Depth
  <2>3. Added(n)
    BY <1>4, <1>6, <1>7, <2>1, <2>2 DEF Added
  <2> QED
    BY <2>2, <2>3
<1>10. \E o : Placed(o)' /\ Assigned(o)' /\ Meant(o)'
  <2>1. ~rotten' => \A i \in 1 .. LocalCount : Depth(own[i]) = scope_depth => locals[i].name # x
    BY <1>1, <1>2, <1>3, NotDeclared DEF Top
  <2> QED
    BY <1>1, <1>2, <1>3, <1>7, <1>9, <2>1, AddPlaced
<1> QED
  BY <1>7, <1>8, <1>10 DEF IInv, Placed

\* Around parameters and bodies there is a register counter.
LEMMA InFunction ==
  ASSUME Shape, NEW m \in DOMAIN open, open[m].kind \in FunKinds
  PROVE  counters # <<>>
<1>1. Len(open) \in Nat /\ m \in 1 .. Len(open) /\ FunDepth \in Nat
  BY Numbers
<1>2. PICK p \in Nat : m = p + 1 /\ m \in 0 .. Len(open)
  <2>1. m - 1 \in Nat /\ m = (m - 1) + 1 /\ m \in 0 .. Len(open)
    BY <1>1
  <2> QED
    BY <2>1
<1>3. Count(open, p + 1, FunKinds) = Count(open, p, FunKinds) + 1 /\ Count(open, p, FunKinds) \in Nat
  BY <1>2, Counting
<1>4. Count(open, p + 1, FunKinds) <= FunDepth
  BY <1>1, <1>2, CountMonotone DEF Shape, Funs
<1>5. Len(counters) # 0
  BY <1>1, <1>3, <1>4 DEF FunDepth
<1> QED
  BY <1>5

LEMMA ParamInv ==
  ASSUME Limits, IInv, NEW x \in Names, Param(x)
  PROVE  IInv'
<1>1. Shape /\ Registers /\ Captures
  BY DEF IInv
<1>2. PICK own : Placed(own) /\ Assigned(own) /\ Meant(own)
  BY DEF IInv
<1>3. /\ ~rotten /\ rotten' = Declared(x) /\ open # <<>> /\ open[Len(open)].kind = "params"
      /\ MayDeclare /\ Decl(x, scope_depth) /\ UNCHANGED <<scope_depth, closures, open>>
  BY DEF Param, Within, Top
<1>4. /\ Len(open) \in Nat /\ DOMAIN open = 1 .. Len(open) /\ open \in Seq(Constructs)
      /\ FunDepth \in Nat /\ scope_depth \in Nat /\ LocalCount \in Nat
      /\ counters \in Seq(0 .. MaxRegs) /\ FunDepth = Len(counters)
  BY <1>1, Numbers DEF Shape, FunDepth
<1>5. Len(open) \in Nat \ {0} /\ Len(open) \in 1 .. Len(open)
  BY <1>3, <1>4, EmptySeq
<1>6. counters # <<>>
  BY <1>1, <1>3, <1>4, <1>5, InFunction DEF FunKinds
<1>7. /\ locals' \in Seq(LocalRecords)
      /\ LocalCount' = LocalCount + 1 /\ LocalCount' <= MaxLocals
      /\ \A i \in 1 .. LocalCount : locals'[i] = locals[i]
      /\ locals'[LocalCount + 1].depth = scope_depth /\ locals'[LocalCount + 1].name = x
      /\ locals'[LocalCount + 1].compiled_function = FunDepth
      /\ FunDepth # 0
      /\ counters' \in Seq(0 .. MaxRegs) /\ Len(counters') = FunDepth
      /\ Registers' /\ Captures'
  BY <1>1, <1>2, <1>3, <1>4, <1>6, DeclKeeps
<1>8. \A n : Depth(n)' = Depth(n) /\ Funs(n)' = Funs(n)
  BY <1>3 DEF Depth, Funs
<1>9. Shape'
  <2>1. Depth(Len(open))' = Depth(Len(open)) /\ Funs(Len(open))' = Funs(Len(open))
    BY <1>3 DEF Depth, Funs
  <2> QED
    BY <1>1, <1>3, <1>7, <2>1 DEF Shape, FunDepth
<1>10. {"local", "global"} \cap DOMAIN open[Len(open)] = {}
  <2>1. open[Len(open)] \in Constructs
    BY <1>4, <1>5, ElementOfSeq
  <2> QED
    BY <1>3, <2>1 DEF Constructs
<1>11. \E n : Added(n) /\ Depth(n)' = scope_depth
  <2>1. PICK n \in Nat \ {0} : n = Len(open)
    BY <1>5
  <2>2. Funs(n)' = FunDepth /\ Depth(n)' = scope_depth
    BY <1>1, <1>8, <2>1 DEF Shape
  <2>3. Added(n)
    BY <1>3, <1>4, <1>7, <1>8, <1>10, <2>1, <2>2 DEF Added
  <2> QED
    BY <2>2, <2>3
<1>12. \E o : Placed(o)' /\ Assigned(o)' /\ Meant(o)'
  <2>1. ~rotten' => \A i \in 1 .. LocalCount : Depth(own[i]) = scope_depth => locals[i].name # x
    BY <1>1, <1>2, <1>3, NotDeclared DEF Top
  <2> QED
    BY <1>1, <1>2, <1>3, <1>7, <1>11, <2>1, AddPlaced
<1> QED
  BY <1>7, <1>9, <1>12 DEF IInv, Placed

\* The last local is that of the declaration under way.
LEMMA LastDeclared ==
  ASSUME Shape, NEW own, Placed(own), open # <<>>, Top.kind = "decl"
  PROVE  LocalCount \in 1 .. LocalCount /\ own[LocalCount] = Len(open)
<1>1. LocalCount \in Nat /\ open \in Seq(Constructs) /\ Len(open) \in Nat /\ DOMAIN open = 1 .. Len(open)
  BY Numbers DEF Shape
<1>2. Len(open) \in DOMAIN open /\ open[Len(open)].kind = "decl"
  <2>1. Len(open) \in 1 .. Len(open)
    BY <1>1, EmptySeq
  <2> QED
    BY <1>1, <2>1 DEF Top
<1>3. PICK i \in 1 .. LocalCount : own[i] = Len(open)
  BY <1>2 DEF Placed
<1>4. LocalCount \in 1 .. LocalCount /\ i <= LocalCount
  BY <1>1, <1>3
<1>5. own[i] <= own[LocalCount] /\ own[LocalCount] \in 1 .. Len(open)
  BY <1>4 DEF Placed
<1> QED
  BY <1>1, <1>3, <1>4, <1>5

LEMMA EndDeclInv ==
  ASSUME Limits, IInv, NEW const \in 0 .. 1, EndDecl(const)
  PROVE  IInv'
<1>1. Shape /\ Registers /\ Captures
  BY DEF IInv
<1>2. PICK own : Placed(own) /\ Assigned(own) /\ Meant(own)
  BY DEF IInv
<1>3. /\ ~rotten /\ open # <<>> /\ open[Len(open)].kind = "decl" /\ open' = Pop(open)
      /\ locals' = [locals EXCEPT ![LocalCount].depth = scope_depth,
                                  ![LocalCount].is_const = const]
      /\ UNCHANGED <<scope_depth, counters, closures>>
  BY DEF EndDecl, Within, Top
<1>4. /\ LocalCount \in Nat /\ DOMAIN locals = 1 .. LocalCount /\ locals \in Seq(LocalRecords)
      /\ DOMAIN open = 1 .. Len(open) /\ scope_depth \in Nat /\ FunDepth \in Nat
      /\ Len(open) <= MaxOpen /\ MaxOpen \in Nat
  BY <1>1, Numbers DEF Shape
<1>5. PICK N \in Nat : N + 1 = Len(open) /\ N = Len(open) - 1
  <2>1. Len(open) \in Nat \ {0}
    BY <1>1, <1>3, Popping
  <2>2. \A a \in Nat \ {0} : a - 1 \in Nat /\ (a - 1) + 1 = a
    OBVIOUS
  <2> QED
    BY <2>1, <2>2
<1>6. /\ open' \in Seq(Constructs) /\ Len(open') = N /\ DOMAIN open' = 1 .. N
      /\ \A n \in 1 .. N : open'[n] = open[n]
      /\ \A n \in 0 .. N : Depth(n)' = Depth(n) /\ Funs(n)' = Funs(n)
  BY <1>1, <1>3, <1>5, Popping
<1>7. Depth(N) = scope_depth /\ Funs(N) = FunDepth
  <2>1. open[N + 1].kind \notin ScopeKinds /\ open[N + 1].kind \notin FunKinds
    BY <1>3, <1>5 DEF ScopeKinds, FunKinds
  <2> QED
    <3>1. \A kinds : open[N + 1].kind \notin kinds => Count(open, N + 1, kinds) = Count(open, N, kinds)
      BY Counting
    <3>2. Depth(N + 1) = scope_depth /\ Funs(N + 1) = FunDepth
      BY <1>1, <1>5 DEF Shape
    <3> QED
      BY <2>1, <3>1, <3>2 DEF Depth, Funs
<1>8. N \in 1 .. N /\ open[N].kind = "block"
  <2>1. N + 1 \in DOMAIN open
    BY <1>4, <1>5
  <2>2. N + 1 > 1 /\ open[(N + 1) - 1].kind = "block"
    BY <1>1, <1>3, <1>5, <2>1 DEF Shape
  <2> QED
    BY <1>5, <2>2
<1>9. /\ own \in [1 .. LocalCount -> 1 .. N + 1]
      /\ LocalCount \in 1 .. LocalCount /\ own[LocalCount] = N + 1
      /\ \A i \in 1 .. LocalCount : i # LocalCount => own[i] \in 1 .. N
  <2>1. own \in [1 .. LocalCount -> 1 .. N + 1]
    BY <1>2, <1>5 DEF Placed
  <2>2. LocalCount \in 1 .. LocalCount /\ own[LocalCount] = N + 1
    BY <1>1, <1>2, <1>3, <1>5, LastDeclared DEF Top
  <2>3. \A i \in 1 .. LocalCount : own[i] = N + 1 => i = LocalCount
    <3>1. N + 1 \in DOMAIN open /\ open[N + 1].kind = "decl"
      BY <1>3, <1>4, <1>5
    <3> QED
      BY <1>2, <2>2, <3>1 DEF Placed
  <2>4. \A i \in 1 .. LocalCount : own[i] # N + 1 => own[i] \in 1 .. N
    BY <1>5, <2>1
  <2> QED
    BY <2>1, <2>2, <2>3, <2>4
<1>10. PICK c \in Nat : c = LocalCount
  BY <1>4
<1>11. PICK v, declared, last :
         /\ v = locals[c] /\ declared = [v EXCEPT !.depth = scope_depth]
         /\ last = [declared EXCEPT !.is_const = const]
         /\ last \in LocalRecords /\ last.depth = scope_depth /\ last.name = v.name
         /\ last.compiled_function = v.compiled_function
         /\ last.real = v.real /\ last.put = v.put
         /\ last.ofsetted = v.ofsetted /\ last.is_link = v.is_link
  <2>1. PICK v : v = locals[c]
    OBVIOUS
  <2>2. PICK w : w = [v EXCEPT !.depth = scope_depth]
    OBVIOUS
  <2>3. PICK u : u = [w EXCEPT !.is_const = const]
    OBVIOUS
  <2>4. v \in LocalRecords
    BY <1>4, <1>9, <1>10, <2>1
  <2>5. /\ w \in LocalRecords /\ w.depth = scope_depth /\ w.name = v.name
        /\ w.compiled_function = v.compiled_function /\ w.real = v.real /\ w.put = v.put
        /\ w.ofsetted = v.ofsetted /\ w.is_link = v.is_link
    BY <1>4, <2>2, <2>4 DEF LocalRecords
  <2>6. /\ u \in LocalRecords /\ u.depth = w.depth /\ u.name = w.name
        /\ u.compiled_function = w.compiled_function /\ u.real = w.real /\ u.put = w.put
        /\ u.ofsetted = w.ofsetted /\ u.is_link = w.is_link
    BY <2>3, <2>5 DEF LocalRecords
  <2> WITNESS v, w, u
  <2> QED
    BY <2>1, <2>2, <2>3, <2>5, <2>6
<1>12. /\ locals' \in Seq(LocalRecords) /\ LocalCount' = LocalCount
       /\ \A i \in 1 .. LocalCount : locals'[i] = IF i = LocalCount THEN last ELSE locals[i]
  <2>1. PICK seq, once : /\ seq = locals /\ once = [seq EXCEPT ![c] = declared]
    OBVIOUS
  <2>2. /\ seq \in Seq(LocalRecords) /\ Len(seq) = c /\ DOMAIN seq = 1 .. c /\ c \in 1 .. c
        /\ v = seq[c]
    BY <1>4, <1>9, <1>10, <1>11, <2>1 DEF LocalCount
  <2>3. locals' = [seq EXCEPT ![c].depth = scope_depth, ![c].is_const = const]
    BY <1>3, <1>10, <2>1
  <2>4. once[c] = declared
    BY <2>1, <2>2
  <2>5. locals' = [once EXCEPT ![c] = last]
    BY <1>11, <2>1, <2>2, <2>3, <2>4
  <2>6. locals' = [seq EXCEPT ![c] = last]
    BY <2>1, <2>2, <2>5
  <2>7. /\ [seq EXCEPT ![c] = last] \in Seq(LocalRecords) /\ Len([seq EXCEPT ![c] = last]) = c
        /\ \A i \in 1 .. c : [seq EXCEPT ![c] = last][i] = IF i = c THEN last ELSE seq[i]
    BY <1>11, <2>2, ExceptSeq
  <2> QED
    BY <1>10, <2>1, <2>6, <2>7 DEF LocalCount
<1>13. \A i \in 1 .. LocalCount :
         /\ locals'[i].compiled_function = locals[i].compiled_function
         /\ locals'[i].name = locals[i].name
         /\ locals'[i].real = locals[i].real /\ locals'[i].put = locals[i].put
         /\ locals'[i].ofsetted = locals[i].ofsetted /\ locals'[i].is_link = locals[i].is_link
         /\ locals'[i].depth = IF i = LocalCount THEN scope_depth ELSE locals[i].depth
  BY <1>10, <1>11, <1>12
<1>14. Registers' /\ Captures'
  <2>1. Registers'
    BY <1>1, <1>3, <1>12, <1>13 DEF Registers
  <2>2. Captures'
    BY <1>1, <1>3, <1>12, <1>13 DEF Captures
  <2> QED
    BY <2>1, <2>2
<1>15. Shape'
  <2>1. scope_depth = Depth(Len(open))' /\ FunDepth = Funs(Len(open))'
    <3>1. N \in 0 .. N
      OBVIOUS
    <3>2. \A n \in 0 .. N : /\ Count(open', n, ScopeKinds) = Depth(n)
                            /\ Count(open', n, FunKinds) = Funs(n)
      BY <1>6 DEF Depth, Funs
    <3> QED
      BY <1>6, <1>7, <3>1, <3>2 DEF Depth, Funs
  <2>2. \A n \in DOMAIN open' : open'[n].kind = "decl" => n > 1 /\ open'[n - 1].kind = "block"
    <3> TAKE n \in DOMAIN open'
    <3> HAVE open'[n].kind = "decl"
    <3>1. n \in 1 .. N /\ n \in DOMAIN open /\ open'[n] = open[n]
      BY <1>4, <1>5, <1>6
    <3>2. n > 1 /\ open[n - 1].kind = "block"
      BY <1>1, <3>1 DEF Shape
    <3>3. n - 1 \in 1 .. N
      BY <3>1, <3>2
    <3> QED
      BY <1>6, <3>2, <3>3
  <2>3. Len(open') <= MaxOpen
    BY <1>4, <1>5, <1>6
  <2> QED
    BY <1>1, <1>3, <1>6, <1>12, <2>1, <2>2, <2>3 DEF Shape, FunDepth
<1>16. PICK new : new = [own EXCEPT ![LocalCount] = N]
  OBVIOUS
<1>17. /\ new \in [1 .. LocalCount -> 1 .. N] /\ new[LocalCount] = N
       /\ \A i \in 1 .. LocalCount : i # LocalCount => new[i] = own[i]
  BY <1>8, <1>9, <1>16
<1>18. Placed(new)'
  <2>1. \A i, j \in 1 .. LocalCount : i <= j => new[i] <= new[j]
    <3> TAKE i, j \in 1 .. LocalCount
    <3> HAVE i <= j
    <3>1. new[i] \in 1 .. N
      BY <1>17
    <3>2. CASE j = LocalCount
      BY <1>17, <3>1, <3>2
    <3>3. CASE j # LocalCount
      <4>1. i # LocalCount
        BY <1>4, <3>3
      <4> QED
        BY <1>2, <1>17, <3>3, <4>1 DEF Placed
    <3> QED
      BY <3>2, <3>3
  <2>2. ASSUME NEW i \in 1 .. LocalCount
        PROVE  /\ open'[new[i]].kind # "assign"
               /\ locals'[i].depth = IF open'[new[i]].kind = "decl" THEN 0 ELSE Depth(new[i])'
               /\ locals'[i].compiled_function = Funs(new[i])'
               /\ locals'[i].compiled_function # 0
    <3>1. CASE i = LocalCount
      <4>1. new[i] = N /\ open'[N] = open[N] /\ N \in 0 .. N
        BY <1>6, <1>8, <1>17, <3>1
      <4>2. Depth(N)' = scope_depth /\ Funs(N)' = FunDepth
        BY <1>6, <1>7, <4>1
      <4>3. locals'[i].depth = scope_depth
        BY <1>13, <3>1
      <4>4. locals'[i].compiled_function = Funs(N + 1) /\ locals'[i].compiled_function # 0
        BY <1>2, <1>9, <1>13, <3>1 DEF Placed
      <4>5. Funs(N + 1) = FunDepth
        BY <1>1, <1>5 DEF Shape
      <4> QED
        BY <1>8, <4>1, <4>2, <4>3, <4>4, <4>5
    <3>2. CASE i # LocalCount
      <4>1. new[i] = own[i] /\ own[i] \in 1 .. N /\ own[i] \in 0 .. N
        BY <1>9, <1>17, <3>2
      <4>2. /\ open'[own[i]] = open[own[i]]
            /\ Depth(own[i])' = Depth(own[i]) /\ Funs(own[i])' = Funs(own[i])
        BY <1>6, <4>1
      <4>3. locals'[i] = locals[i]
        BY <1>12, <3>2
      <4> QED
        BY <1>2, <4>1, <4>2, <4>3 DEF Placed
    <3> QED
      BY <3>1, <3>2
  <2>3. ASSUME NEW m \in DOMAIN open', open'[m].kind = "decl"
        PROVE  \E i \in 1 .. LocalCount :
                 new[i] = m /\ \A j \in 1 .. LocalCount : new[j] = m => j = i
    <3>1. m \in 1 .. N /\ m \in DOMAIN open /\ open'[m] = open[m]
      BY <1>4, <1>5, <1>6
    <3>2. m # N /\ m # N + 1
      BY <1>8, <2>3, <3>1
    <3>3. PICK i \in 1 .. LocalCount : own[i] = m /\ \A j \in 1 .. LocalCount : own[j] = m => j = i
      BY <1>2, <2>3, <3>1 DEF Placed
    <3>4. i # LocalCount /\ new[i] = m
      BY <1>9, <1>17, <3>2, <3>3
    <3>5. \A j \in 1 .. LocalCount : new[j] = m => j = i
      BY <1>17, <3>2, <3>3
    <3> QED
      BY <3>4, <3>5
  <2> QED
    BY <1>6, <1>12, <1>17, <2>1, <2>2, <2>3 DEF Placed
<1>19. Assigned(new)'
  <2> SUFFICES ASSUME NEW m \in DOMAIN open', "local" \in DOMAIN open'[m]
               PROVE  LET i == open'[m].local IN
                        /\ i \in 1 .. LocalCount' /\ new[i] < m
                        /\ locals'[i].compiled_function < Funs(m)' =>
                             \E k \in DOMAIN closures'[Funs(m)'] : closures'[Funs(m)'][k].local = i
    BY DEF Assigned
  <2>1. m \in 1 .. N /\ m \in 0 .. N /\ m \in DOMAIN open
    BY <1>4, <1>5, <1>6
  <2>2. open'[m] = open[m] /\ Funs(m)' = Funs(m)
    BY <1>6, <2>1
  <2>3. PICK i \in 1 .. LocalCount : i = open[m].local /\ own[i] < m
    BY <1>2, <2>1, <2>2 DEF Assigned
  <2>4. i # LocalCount
    BY <1>9, <2>1, <2>3
  <2>5. new[i] = own[i] /\ locals'[i] = locals[i]
    BY <1>12, <1>17, <2>3, <2>4
  <2> QED
    BY <1>2, <1>3, <1>12, <2>1, <2>2, <2>3, <2>5 DEF Assigned
<1>20. Meant(new)'
  <2>1. \A i \in 1 .. LocalCount' :
          /\ i \in 1 .. LocalCount /\ locals'[i].name = locals[i].name
          /\ Depth(new[i])' = Depth(own[i])
    <3> TAKE i \in 1 .. LocalCount'
    <3>1. CASE i = LocalCount
      <4>1. new[i] = N /\ own[i] = N + 1 /\ N \in 0 .. N
        BY <1>9, <1>17, <3>1
      <4>2. Depth(N)' = scope_depth /\ Depth(N + 1) = scope_depth
        BY <1>1, <1>5, <1>6, <1>7, <4>1 DEF Shape
      <4> QED
        BY <1>9, <1>13, <3>1, <4>1, <4>2
    <3>2. CASE i # LocalCount
      <4>1. i \in 1 .. LocalCount /\ new[i] = own[i] /\ own[i] \in 0 .. N
        BY <1>9, <1>12, <1>17, <3>2
      <4> QED
        BY <1>6, <1>13, <4>1
    <3> QED
      BY <3>1, <3>2
  <2>2. ASSUME NEW n \in DOMAIN open', {"local", "global"} \cap DOMAIN open'[n] # {}
        PROVE  /\ n \in DOMAIN open /\ open'[n] = open[n]
               /\ \A j \in 1 .. LocalCount' : new[j] < n =>
                    /\ own[j] < n
                    /\ locals'[j].depth = locals[j].depth /\ locals'[j].is_const = locals[j].is_const
    <3>1. n \in 1 .. N /\ n \in DOMAIN open /\ open'[n] = open[n]
      BY <1>4, <1>5, <1>6
    <3>2. n # N
      <4>1. open[N] \in Constructs
        BY <1>1, <1>4, <1>5, <1>8, ElementOfSeq DEF Shape
      <4>2. {"local", "global"} \cap DOMAIN open[N] = {}
        BY <1>8, <4>1 DEF Constructs
      <4> QED
        BY <2>2, <3>1, <4>2
    <3>3. ASSUME NEW j \in 1 .. LocalCount', new[j] < n
          PROVE  /\ own[j] < n
                 /\ locals'[j].depth = locals[j].depth /\ locals'[j].is_const = locals[j].is_const
      <4>1. j # LocalCount
        BY <1>17, <3>1, <3>2, <3>3
      <4> QED
        BY <1>12, <1>17, <3>3, <4>1
    <3> QED
      BY <3>1, <3>3
  <2> QED
    BY <1>2, <1>3, <1>19, <2>1, <2>2, MeantKept
<1> QED
  BY <1>14, <1>15, <1>18, <1>19, <1>20 DEF IInv, Placed

-----------------------------------------------------------------------------
(* Uses of a name, and assignments. *)

LEMMA UseInv ==
  ASSUME Limits, IInv, NEW x \in Names, Use(x)
  PROVE  IInv'
<1>1. Shape /\ Registers /\ Captures
  BY DEF IInv
<1>2. PICK own : Placed(own) /\ Assigned(own) /\ Meant(own)
  BY DEF IInv
<1>3. ~rotten /\ Resolve(x) /\ UNCHANGED <<scope_depth, counters, open>>
  BY DEF Use, Expression
<1>4. /\ Relinked /\ ListsKept
      /\ locals' \in Seq(LocalRecords)
      /\ closures' \in Seq(Seq([place : Nat, local : Nat])) /\ Len(closures') = FunDepth
      /\ Registers' /\ Captures'
  BY <1>1, <1>2, <1>3, ResolveKeeps
<1>5. /\ LocalCount' = LocalCount
      /\ \A n : Depth(n)' = Depth(n) /\ Funs(n)' = Funs(n)
  BY <1>3, <1>4 DEF Relinked, Depth, Funs
<1>6. Shape'
  BY <1>1, <1>3, <1>4, <1>5 DEF Shape, FunDepth, Depth, Funs
<1>7. Placed(own)'
  <2>1. ASSUME NEW i \in 1 .. LocalCount
        PROVE  /\ open'[own[i]].kind # "assign"
               /\ locals'[i].depth = IF open'[own[i]].kind = "decl" THEN 0 ELSE Depth(own[i])'
               /\ locals'[i].compiled_function = Funs(own[i])'
               /\ locals'[i].compiled_function # 0
    <3>1. Depth(own[i])' = Depth(own[i]) /\ Funs(own[i])' = Funs(own[i])
      BY <1>5
    <3>2. /\ locals'[i].depth = locals[i].depth
          /\ locals'[i].compiled_function = locals[i].compiled_function
      BY <1>4 DEF Relinked
    <3> QED
      BY <1>2, <1>3, <3>1, <3>2 DEF Placed
  <2> QED
    BY <1>2, <1>3, <1>5, <2>1 DEF Placed
<1>8. Assigned(own)'
  <2> SUFFICES ASSUME NEW n \in DOMAIN open, "local" \in DOMAIN open[n]
               PROVE  LET i == open[n].local IN
                        /\ i \in 1 .. LocalCount' /\ own[i] < n
                        /\ locals'[i].compiled_function < Funs(n)' =>
                             \E k \in DOMAIN closures'[Funs(n)'] : closures'[Funs(n)'][k].local = i
    BY <1>3 DEF Assigned
  <2>1. PICK i \in 1 .. LocalCount :
          /\ i = open[n].local /\ own[i] < n
          /\ locals[i].compiled_function < Funs(n) =>
               \E k \in DOMAIN closures[Funs(n)] : closures[Funs(n)][k].local = i
    BY <1>2 DEF Assigned
  <2>2. Funs(n)' = Funs(n) /\ locals'[i].compiled_function = locals[i].compiled_function
    BY <1>4, <1>5 DEF Relinked
  <2>3. ASSUME locals[i].compiled_function < Funs(n)
        PROVE  \E k \in DOMAIN closures'[Funs(n)] : closures'[Funs(n)][k].local = i
    <3>1. Funs(n) \in DOMAIN closures
      <4>1. n \in Nat /\ n \in 0 .. Len(open) /\ Len(open) \in Nat
        BY <1>1, Numbers
      <4>2. Funs(n) \in Nat /\ Funs(n) <= FunDepth
        BY <1>1, <4>1, Counting, CountMonotone DEF Funs, Shape
      <4>3. locals[i].compiled_function \in 1 .. FunDepth
        BY <1>1, <1>2, OfOpenFunction
      <4> QED
        BY <1>1, <2>3, <4>2, <4>3, Numbers
    <3> QED
      BY <1>4, <2>1, <2>3, <3>1 DEF ListsKept
  <2> QED
    BY <1>5, <2>1, <2>2, <2>3
<1>9. Meant(own)'
  <2>1. \A i \in 1 .. LocalCount' :
          /\ i \in 1 .. LocalCount /\ Depth(own[i])' = Depth(own[i])
          /\ locals'[i].name = locals[i].name /\ locals'[i].is_const = locals[i].is_const
          /\ locals'[i].depth = locals[i].depth
    BY <1>4, <1>5 DEF Relinked
  <2> QED
    BY <1>2, <1>3, <1>8, <2>1, MeantKept
<1> QED
  BY <1>4, <1>6, <1>7, <1>8, <1>9 DEF IInv, Placed

LEMMA BeginAssignInv ==
  ASSUME Limits, IInv, NEW x \in Names, BeginAssign(x)
  PROVE  IInv'
<1>1. Shape /\ Registers /\ Captures
  BY DEF IInv
<1>2. PICK own : Placed(own) /\ Assigned(own) /\ Meant(own)
  BY DEF IInv
<1>3. PICK r : r = IF Visible(x) = {} THEN [kind |-> "assign", global |-> x]
                   ELSE [kind |-> "assign", local |-> Resolved(x)]
  OBVIOUS
<1>4. /\ ~rotten /\ rotten' = (Visible(x) # {} /\ locals[Resolved(x)].is_const = 1)
      /\ Resolve(x) /\ UNCHANGED <<scope_depth, counters>>
      /\ open' = Append(open, r) /\ Len(open) < MaxOpen /\ x \notin ThisNames
  BY <1>3 DEF BeginAssign, Opening, Expression
<1>5. /\ Relinked /\ ListsKept
      /\ locals' \in Seq(LocalRecords)
      /\ closures' \in Seq(Seq([place : Nat, local : Nat])) /\ Len(closures') = FunDepth
      /\ Registers' /\ Captures'
      /\ Visible(x) # {} /\ Outer(Resolved(x)) =>
           /\ FunDepth \in DOMAIN closures'
           /\ \E k \in DOMAIN closures'[FunDepth] : closures'[FunDepth][k].local = Resolved(x)
  BY <1>1, <1>2, <1>4, ResolveKeeps
<1>6. /\ r \in Constructs /\ r.kind = "assign" /\ r.kind # "decl"
      /\ r.kind \notin ScopeKinds /\ r.kind \notin FunKinds
      /\ "local" \in DOMAIN r => Visible(x) # {} /\ r.local = Resolved(x) /\ Resolved(x) \in 1 .. LocalCount
  <2>1. CASE Visible(x) = {}
    BY <1>3, <1>4, <2>1 DEF Constructs, ScopeKinds, FunKinds
  <2>2. CASE Visible(x) # {}
    <3>1. Resolved(x) \in 1 .. LocalCount /\ Resolved(x) \in Nat
      BY <1>1, <2>2, ResolvedVisible
    <3> QED
      BY <1>3, <2>2, <3>1 DEF Constructs, ScopeKinds, FunKinds
  <2> QED
    BY <2>1, <2>2
<1>7. /\ open' \in Seq(Constructs) /\ Len(open') = Len(open) + 1
      /\ DOMAIN open' = 1 .. Len(open) + 1
      /\ \A n \in 1 .. Len(open) : open'[n] = open[n]
      /\ open'[Len(open) + 1] = r
      /\ Depth(Len(open))' = scope_depth
      /\ Funs(Len(open))' = FunDepth
  <2>1. /\ Depth(Len(open))' = scope_depth + 0 /\ Funs(Len(open))' = FunDepth + 0
        /\ scope_depth \in Nat /\ FunDepth \in Nat
    BY <1>1, <1>4, <1>6, Pushing, Numbers
  <2> QED
    BY <1>1, <1>4, <1>6, <2>1, Pushing
<1>8. Placed(own)' /\ Assigned(own)' /\ Meant(own)'
  <2>1. ASSUME "local" \in DOMAIN r, locals[r.local].compiled_function < FunDepth
        PROVE  \E k \in DOMAIN closures'[FunDepth] : closures'[FunDepth][k].local = r.local
    <3>1. Outer(r.local)
      BY <1>1, <1>6, <2>1, Numbers DEF Outer
    <3> QED
      BY <1>5, <1>6, <2>1, <3>1
  <2>2. ASSUME "local" \in DOMAIN r, ~rotten'
        PROVE  /\ locals[r.local].depth # 0 /\ locals[r.local].is_const # 1
               /\ locals[r.local].name \notin ThisNames
               /\ \A j \in 1 .. LocalCount : r.local < j /\ locals[j].depth # 0 =>
                    locals[j].name # locals[r.local].name
    <3>1. Visible(x) # {} /\ r.local = Resolved(x)
      BY <1>6, <2>2
    <3>2. /\ locals[r.local].depth # 0 /\ locals[r.local].name = x
          /\ r.local \in 1 .. LocalCount /\ \A j \in Visible(x) : j <= r.local
      BY <1>1, <3>1, ResolvedVisible
    <3>3. \A j \in 1 .. LocalCount : locals[j].depth # 0 /\ locals[j].name = x => j \in Visible(x)
      BY <1>1, Numbers DEF Visible
    <3>4. \A j \in 1 .. LocalCount : r.local < j => ~(j <= r.local)
      BY <1>1, <3>2, Numbers
    <3> QED
      BY <1>4, <2>2, <3>1, <3>2, <3>3, <3>4
  <2>3. "global" \in DOMAIN r => \A j \in 1 .. LocalCount :
          locals[j].depth # 0 => locals[j].name # r.global
    <3>1. "global" \in DOMAIN r => Visible(x) = {} /\ r.global = x
      BY <1>3
    <3>2. DOMAIN locals = 1 .. LocalCount
      BY <1>1, Numbers
    <3> QED
      BY <3>1, <3>2 DEF Visible
  <2> QED
    BY <1>1, <1>2, <1>4, <1>5, <1>6, <1>7, <2>1, <2>2, <2>3, PushPlaced
<1>9. Shape'
  <2>1. Len(open) \in Nat /\ DOMAIN open = 1 .. Len(open) /\ MaxOpen \in Nat
    BY <1>1, Numbers
  <2>2. Len(open') <= MaxOpen
    BY <1>4, <1>7, <2>1
  <2>3. ASSUME NEW n \in DOMAIN open', open'[n].kind = "decl"
        PROVE  n > 1 /\ open'[n - 1].kind = "block"
    <3>1. n \in 1 .. Len(open) /\ n \in DOMAIN open /\ open'[n] = open[n]
      BY <1>6, <1>7, <2>1, <2>3
    <3>2. n > 1 /\ open[n - 1].kind = "block"
      BY <1>1, <2>3, <3>1 DEF Shape
    <3>3. n - 1 \in 1 .. Len(open)
      BY <2>1, <3>1, <3>2
    <3> QED
      BY <1>7, <3>2, <3>3
  <2>4. LocalCount' = LocalCount
    BY <1>5 DEF Relinked
  <2> QED
    BY <1>1, <1>4, <1>5, <1>7, <2>2, <2>3, <2>4 DEF Shape, FunDepth
<1> QED
  BY <1>5, <1>8, <1>9 DEF IInv, Placed

LEMMA EndAssignInv ==
  ASSUME Limits, IInv, EndAssign
  PROVE  IInv'
<1>1. Shape /\ Registers /\ Captures
  BY DEF IInv
<1>2. PICK own : Placed(own) /\ Assigned(own) /\ Meant(own)
  BY DEF IInv
<1>3. /\ ~rotten /\ open # <<>> /\ Top.kind = "assign" /\ open[Len(open)].kind = "assign"
      /\ open' = Pop(open) /\ UNCHANGED <<locals, scope_depth, counters, closures>>
  BY DEF EndAssign, Within, Top
<1>4. /\ LocalCount \in Nat /\ FunDepth \in Nat /\ scope_depth \in Nat
      /\ Len(closures) = FunDepth /\ MaxOpen \in Nat /\ Len(open) <= MaxOpen
      /\ DOMAIN open = 1 .. Len(open)
  BY <1>1, Numbers DEF Shape
<1>5. PICK N \in Nat : N = Len(open) - 1 /\ Len(open) = N + 1
  <2>1. Len(open) \in Nat \ {0}
    BY <1>1, <1>3, Popping
  <2>2. \A a \in Nat \ {0} : a - 1 \in Nat /\ a = (a - 1) + 1
    OBVIOUS
  <2> QED
    BY <2>1, <2>2
<1>6. /\ open' \in Seq(Constructs) /\ Len(open') = N /\ DOMAIN open' = 1 .. N
      /\ \A n \in 1 .. N : open'[n] = open[n]
      /\ \A n \in 0 .. N : Depth(n)' = Depth(n) /\ Funs(n)' = Funs(n)
  BY <1>1, <1>3, <1>5, Popping
<1>7. Depth(N) = scope_depth /\ Funs(N) = FunDepth
  <2>1. open[N + 1].kind \notin ScopeKinds /\ open[N + 1].kind \notin FunKinds
    BY <1>3, <1>5 DEF ScopeKinds, FunKinds
  <2>2. \A kinds : open[N + 1].kind \notin kinds => Count(open, N + 1, kinds) = Count(open, N, kinds)
    BY Counting
  <2>3. Depth(N + 1) = scope_depth /\ Funs(N + 1) = FunDepth
    BY <1>1, <1>5 DEF Shape
  <2> QED
    BY <2>1, <2>2, <2>3 DEF Depth, Funs
<1>8. LocalCount' = LocalCount /\ LocalCount' \in 0 .. LocalCount
  BY <1>3, <1>4 DEF LocalCount
<1>9. \A i \in 1 .. LocalCount : i <= LocalCount' <=> own[i] < Len(open)
  <2> TAKE i \in 1 .. LocalCount
  <2>1. own[i] \in 1 .. N + 1 /\ open[own[i]].kind # "assign"
    BY <1>2, <1>5 DEF Placed
  <2>2. own[i] # N + 1
    BY <1>3, <1>5, <2>1
  <2> QED
    BY <1>4, <1>5, <1>8, <2>1, <2>2
<1>10. \E new : Placed(new)' /\ Assigned(new)' /\ Meant(new)'
  <2>1. Closed
    BY <1>3, <1>4, <1>5, <1>7, <1>8 DEF Closed
  <2> QED
    BY <1>1, <1>2, <1>3, <1>9, <2>1, PopPlaced
<1>11. Shape'
  <2>1. scope_depth = Depth(Len(open))' /\ FunDepth = Funs(Len(open))'
    <3>1. N \in 0 .. N
      OBVIOUS
    <3>2. \A n \in 0 .. N : /\ Count(open', n, ScopeKinds) = Depth(n)
                            /\ Count(open', n, FunKinds) = Funs(n)
      BY <1>6 DEF Depth, Funs
    <3> QED
      BY <1>6, <1>7, <3>1, <3>2 DEF Depth, Funs
  <2>2. ASSUME NEW n \in DOMAIN open', open'[n].kind = "decl"
        PROVE  n > 1 /\ open'[n - 1].kind = "block"
    <3>1. n \in 1 .. N /\ n \in DOMAIN open /\ open'[n] = open[n]
      BY <1>4, <1>5, <1>6
    <3>2. n > 1 /\ open[n - 1].kind = "block"
      BY <1>1, <2>2, <3>1 DEF Shape
    <3>3. n - 1 \in 1 .. N
      BY <3>1, <3>2
    <3> QED
      BY <1>6, <3>2, <3>3
  <2>3. Len(open') <= MaxOpen
    BY <1>4, <1>5, <1>6
  <2> QED
    BY <1>1, <1>3, <1>6, <1>8, <2>1, <2>2, <2>3 DEF Shape, FunDepth
<1>12. Registers' /\ Captures'
  <2>1. Registers'
    BY <1>1, <1>3, <1>8 DEF Registers
  <2>2. Captures'
    BY <1>1, <1>3, <1>8 DEF Captures
  <2> QED
    BY <2>1, <2>2
<1> QED
  BY <1>10, <1>11, <1>12 DEF IInv, Placed

-----------------------------------------------------------------------------
(* The invariant, and the accesses that are emitted. *)

LEMMA ScopesInit == Init => IInv
<1> SUFFICES ASSUME Init PROVE IInv
  OBVIOUS
<1>1. /\ locals = <<>> /\ open = <<>> /\ counters = <<>> /\ closures = <<>> /\ scope_depth = 0
      /\ LocalCount = 0 /\ FunDepth = 0 /\ Len(open) = 0
  BY DEF Init, LocalCount, FunDepth
<1>2. \A kinds : Count(<<>>, 0, kinds) = 0
  BY Counting
<1>3. Shape
  <2>1. Depth(Len(open)) = 0 /\ Funs(Len(open)) = 0
    BY <1>1, <1>2 DEF Depth, Funs
  <2>2. MaxLocals \in Nat /\ MaxOpen \in Nat /\ MaxFuns \in Nat
    BY ScopeAssumption
  <2>3. /\ <<>> \in Seq(LocalRecords) /\ <<>> \in Seq(Constructs) /\ <<>> \in Seq(0 .. MaxRegs)
        /\ <<>> \in Seq(Seq([place : Nat, local : Nat]))
    BY EmptySeq
  <2>4. \A n \in DOMAIN open : FALSE
    BY <1>1
  <2> QED
    BY <1>1, <2>1, <2>2, <2>3, <2>4 DEF Shape
<1>4. Registers
  BY <1>1 DEF Registers
<1>5. Captures
  BY <1>1 DEF Captures
<1>6. PICK own : own = [i \in 1 .. 0 |-> 1]
  OBVIOUS
<1>7. own \in [1 .. LocalCount -> 1 .. Len(open)]
  BY <1>1, <1>6
<1>8. Placed(own)
  BY <1>1, <1>7 DEF Placed
<1>9. Assigned(own)
  BY <1>1 DEF Assigned
<1>10. Meant(own)
  BY <1>1 DEF Meant, Distinct
<1> QED
  BY <1>3, <1>4, <1>5, <1>7, <1>8, <1>9, <1>10 DEF IInv

LEMMA ScopesStep == Limits /\ IInv /\ [Next]_vars => IInv'
<1> SUFFICES ASSUME Limits, IInv, [Next]_vars PROVE IInv'
  OBVIOUS
<1>1. CASE BeginBlock \/ BeginFun
  BY <1>1, BeginScopeInv
<1>2. CASE EndParams
  BY <1>2, EndParamsInv
<1>3. CASE EndAssign
  BY <1>3, EndAssignInv
<1>4. ASSUME NEW line \in Lines, EndBlock(line) PROVE IInv'
  BY <1>4, EndBlockInv
<1>5. ASSUME NEW line \in Lines, EndFun(line) PROVE IInv'
  BY <1>5, EndFunInv
<1>6. ASSUME NEW const \in 0 .. 1, EndDecl(const) PROVE IInv'
  BY <1>6, EndDeclInv
<1>7. ASSUME NEW x \in Names, BeginDecl(x) PROVE IInv'
  BY <1>7, BeginDeclInv
<1>8. ASSUME NEW x \in Names, Param(x) PROVE IInv'
  BY <1>8, ParamInv
<1>9. ASSUME NEW x \in Names, Use(x) PROVE IInv'
  BY <1>9, UseInv
<1>10. ASSUME NEW x \in Names, BeginAssign(x) PROVE IInv'
  BY <1>10, BeginAssignInv
<1>11. CASE UNCHANGED vars \/ \E x \in Names : UseThis(x) \/ AssignThis(x)
  <2>1. /\ UNCHANGED <<locals, scope_depth, counters, closures, open>>
        /\ rotten' = rotten \/ rotten' = TRUE
    BY <1>11 DEF vars, UseThis, AssignThis
  <2>2. Shape'
    BY <2>1 DEF IInv, Shape, LocalCount, FunDepth, Depth, Funs
  <2>3. Registers' /\ Captures'
    BY <2>1 DEF IInv, Registers, Captures, LocalCount
  <2>4. PICK own : Placed(own) /\ Assigned(own) /\ Meant(own)
    BY DEF IInv
  <2>5. Placed(own)' /\ Assigned(own)' /\ Meant(own)'
    BY <2>1, <2>4 DEF Placed, Assigned, Meant, Distinct, Means, LocalCount, Depth, Funs
  <2> QED
    BY <2>2, <2>3, <2>5 DEF IInv, Placed
<1> QED
  BY <1>1, <1>2, <1>3, <1>4, <1>5, <1>6, <1>7, <1>8, <1>9, <1>10, <1>11 DEF Next

THEOREM ScopesInvariant == Limits => (Spec => []IInv)
<1>1. CASE Limits
  BY <1>1, ScopesInit, ScopesStep, PTL DEF Spec
<1> QED
  BY <1>1

\* The access to local i that is the last thing emitted.
Emitted(i) ==
  /\ i \in 1 .. LocalCount /\ code.local = i
  /\ ~Outer(i) => code.op # "CLOSURE" /\ code.arg = locals[i].ofsetted + Priv
  /\ Outer(i) =>
       /\ code.op = "CLOSURE" /\ code.arg = locals[i].is_link - 1
       /\ FunDepth \in DOMAIN closures
       /\ \E k \in DOMAIN closures[FunDepth] : closures[FunDepth][k].local = i

LEMMA UseEmits ==
  ASSUME Limits, IInv, NEW x \in Names, Use(x), Local'
  PROVE  \E i : Emitted(i)'
<1>1. Shape /\ Registers /\ Captures
  BY DEF IInv
<1>2. PICK own : Placed(own) /\ Assigned(own)
  BY DEF IInv
<1>3. PICK i : i = Resolved(x)
  OBVIOUS
<1>4. /\ Resolve(x) /\ UNCHANGED counters
      /\ code' = IF Visible(x) = {} THEN GlobalAccess(x, FALSE)
                 ELSE Access(i, locals'[i].is_link, FALSE)
  BY <1>3 DEF Use
<1>5. Visible(x) # {}
  BY <1>4 DEF Local, GlobalAccess
<1>6. i \in 1 .. LocalCount
  BY <1>1, <1>3, <1>5, ResolvedVisible
<1>7. /\ Relinked
      /\ Outer(i) => /\ FunDepth \in DOMAIN closures'
                     /\ \E k \in DOMAIN closures'[FunDepth] : closures'[FunDepth][k].local = i
  BY <1>1, <1>2, <1>3, <1>4, <1>5, ResolveKeeps
<1>8. /\ LocalCount' = LocalCount /\ FunDepth' = FunDepth
      /\ locals'[i].compiled_function = locals[i].compiled_function
      /\ locals'[i].ofsetted = locals[i].ofsetted
  BY <1>4, <1>6, <1>7 DEF Relinked, FunDepth
<1>9. Outer(i)' = Outer(i)
  BY <1>8 DEF Outer
<1>10. code' = Access(i, locals'[i].is_link, FALSE)
  BY <1>4, <1>5
<1>11. /\ code'.local = i
       /\ ~Outer(i) => code'.op # "CLOSURE" /\ code'.arg = locals[i].ofsetted + Priv
       /\ Outer(i) => code'.op = "CLOSURE" /\ code'.arg = locals'[i].is_link - 1
  BY <1>10 DEF Access
<1>12. Emitted(i)'
  BY <1>6, <1>7, <1>8, <1>9, <1>11 DEF Emitted
<1> QED
  BY <1>12

LEMMA AssignEmits ==
  ASSUME Limits, IInv, EndAssign, Local'
  PROVE  \E i : Emitted(i)'
<1>1. Shape /\ Registers /\ Captures
  BY DEF IInv
<1>2. PICK own : Placed(own) /\ Assigned(own)
  BY DEF IInv
<1>3. /\ open # <<>> /\ Top.kind = "assign" /\ Top = open[Len(open)]
      /\ UNCHANGED <<locals, counters, closures>>
      /\ code' = IF "global" \in DOMAIN Top THEN GlobalAccess(Top.global, TRUE)
                 ELSE Access(Top.local, locals[Top.local].is_link, TRUE)
  BY DEF EndAssign, Within, Top
<1>4. "global" \notin DOMAIN Top
  BY <1>3 DEF Local, GlobalAccess
<1>5. Len(open) \in DOMAIN open /\ Top \in Constructs
  <2>1. Len(open) \in DOMAIN open /\ open \in Seq(Constructs)
    BY <1>1, <1>3, Popping, Numbers, EmptySeq DEF Shape
  <2> QED
    BY <1>3, <2>1, ElementOfSeq
<1>6. "local" \in DOMAIN Top
  BY <1>3, <1>4, <1>5 DEF Constructs, ScopeKinds
<1>7. PICK i \in 1 .. LocalCount :
        /\ i = Top.local
        /\ locals[i].compiled_function < FunDepth =>
             \E k \in DOMAIN closures[FunDepth] : closures[FunDepth][k].local = i
  <2>1. Funs(Len(open)) = FunDepth
    BY <1>1 DEF Shape
  <2> QED
    BY <1>2, <1>3, <1>5, <1>6, <2>1 DEF Assigned
<1>8. Outer(i) => FunDepth \in DOMAIN closures /\ locals[i].compiled_function < FunDepth
  <2>1. locals[i].compiled_function \in 1 .. FunDepth /\ FunDepth \in Nat
    BY <1>1, <1>2, OfOpenFunction, Numbers
  <2> QED
    BY <1>1, <2>1, Numbers DEF Outer
<1>9. code' = Access(i, locals[i].is_link, TRUE)
  BY <1>3, <1>4, <1>7
<1>10. /\ code'.local = i
       /\ ~Outer(i) => code'.op # "CLOSURE" /\ code'.arg = locals[i].ofsetted + Priv
       /\ Outer(i) => code'.op = "CLOSURE" /\ code'.arg = locals[i].is_link - 1
  BY <1>9 DEF Access
<1>11. LocalCount' = LocalCount /\ FunDepth' = FunDepth /\ Outer(i)' = Outer(i)
  BY <1>3 DEF LocalCount, FunDepth, Outer
<1>12. Emitted(i)'
  BY <1>3, <1>7, <1>8, <1>10, <1>11 DEF Emitted
<1> QED
  BY <1>12

Accesses == Local => \E i : Emitted(i)

LEMMA AccessesStep == Limits /\ IInv /\ Accesses /\ [Next]_vars => Accesses'
<1> SUFFICES ASSUME Limits, IInv, Accesses, [Next]_vars, Local' PROVE \E i : Emitted(i)'
  BY DEF Accesses
<1>1. CASE code' = NONE
  BY <1>1 DEF Local
<1>2. CASE UNCHANGED vars
  <2>1. UNCHANGED <<locals, counters, closures, code>>
    BY <1>2 DEF vars
  <2>2. PICK i : Emitted(i)
    BY <2>1 DEF Accesses, Local
  <2>3. Emitted(i)'
    BY <2>1, <2>2 DEF Emitted, Outer, LocalCount, FunDepth
  <2> QED
    BY <2>3
<1>3. ASSUME NEW x \in Names, Use(x) PROVE \E i : Emitted(i)'
  BY <1>3, UseEmits
<1>4. CASE EndAssign
  BY <1>4, AssignEmits
<1>5. ASSUME NEW x \in Names, UseThis(x) PROVE FALSE
  BY <1>5 DEF UseThis, Local
<1> QED
  BY <1>1, <1>2, <1>3, <1>4, <1>5
     DEF Next, BeginBlock, BeginFun, EndParams, EndBlock, EndFun, EndDecl, BeginDecl, Param,
         BeginAssign, AssignThis

LEMMA ScopesAccesses == Limits => (Spec => []Accesses)
<1>1. Init => Accesses
  BY DEF Init, Accesses, Local
<1>2. CASE Limits
  BY <1>1, <1>2, ScopesInvariant, AccessesStep, PTL DEF Spec
<1> QED
  BY <1>2

-----------------------------------------------------------------------------
(* Types, registers and accesses. *)

\* Every index and register fits its byte, however long the program and deep its functions
\* (struct comp_loc, __loc_var_decl, __end_scope), while all locals are in functions.
THEOREM ScopesTypes == Limits => (Spec => []TypeOK)
<1>1. CASE Limits
  BY <1>1, InvTypes, ScopesInvariant, PTL
<1> QED
  BY <1>1

\* Two live locals of a function never share a register, and no later declaration
\* takes one of theirs (__loc_var_decl, whose counter no block's end takes back).
THEOREM ScopesRegistersApart == Limits => (Spec => []RegistersApart)
<1>1. CASE Limits
  BY <1>1, InvRegistersApart, ScopesInvariant, PTL
<1> QED
  BY <1>1

LEMMA EmittedLoads == IInv /\ Accesses => LoadsWhatWasStored
<1> SUFFICES ASSUME IInv, Accesses, Local, code.op # "CLOSURE"
             PROVE  code.arg = locals[code.local].put
  BY DEF LoadsWhatWasStored
<1>1. PICK i : Emitted(i)
  BY DEF Accesses
<1>2. code.local = i /\ i \in 1 .. LocalCount /\ code.arg = locals[i].ofsetted + Priv
  BY <1>1 DEF Emitted
<1> QED
  BY <1>2 DEF IInv, Registers

\* A load or a store of the running function's own variable names the register that
\* its declaration stored to (__comp_identifier, __loc_var_decl).
THEOREM ScopesLoadStored == Limits => (Spec => []LoadsWhatWasStored)
<1>1. CASE Limits
  BY <1>1, EmittedLoads, ScopesInvariant, ScopesAccesses, PTL
<1> QED
  BY <1>1

LEMMA EmittedSlot == MaxFuns <= 2 /\ IInv /\ Accesses => SlotOfOwnList
<1> SUFFICES ASSUME MaxFuns <= 2, IInv, Accesses, Local, code.op = "CLOSURE"
             PROVE  /\ code.arg + 1 \in DOMAIN closures[FunDepth]
                    /\ closures[FunDepth][code.arg + 1].local = code.local
  BY DEF SlotOfOwnList
<1>1. PICK i : Emitted(i)
  BY DEF Accesses
<1>2. /\ i \in 1 .. LocalCount /\ code.local = i /\ code.arg = locals[i].is_link - 1
      /\ FunDepth \in DOMAIN closures
  BY <1>1 DEF Emitted
<1>3. PICK k \in DOMAIN closures[FunDepth] : closures[FunDepth][k].local = i
  BY <1>1 DEF Emitted
<1>4. locals[i].is_link = k
  BY <1>2, <1>3 DEF IInv, Captures
<1>5. locals[i].is_link \in Nat
  <2>1. locals \in Seq(LocalRecords) /\ DOMAIN locals = 1 .. LocalCount
    BY Numbers DEF IInv, Shape
  <2>2. locals[i] \in LocalRecords
    BY <1>2, <2>1, ElementOfSeq DEF LocalCount
  <2> QED
    BY <2>2 DEF LocalRecords
<1>6. code.arg + 1 = k
  BY <1>2, <1>4, <1>5
<1> QED
  BY <1>2, <1>3, <1>6

\* With functions two deep, an access to a captured variable names its place in the
\* list of the function that runs (resolve_local, __comp_identifier).  Deeper, is_link
\* may be what another function's capture left there.
THEOREM ScopesSlotOfOwnList == Limits /\ MaxFuns <= 2 => (Spec => []SlotOfOwnList)
<1>1. CASE Limits /\ MaxFuns <= 2
  BY <1>1, EmittedSlot, ScopesInvariant, ScopesAccesses, PTL
<1> QED
  BY <1>1

\* While no block of the outermost function has ended, its locals have registers
\* 0, 1, 2, ... in the order of the array.
LEMMA RegistersInOrder ==
  ASSUME IInv, NoBlockEnded, 1 \in DOMAIN counters,
         NEW i \in 1 .. LocalCount, locals[i].compiled_function = 1
  PROVE  locals[i].ofsetted = i - 1
<1> DEFINE S == {j \in 1 .. LocalCount : locals[j].compiled_function = 1}
<1>1. Shape /\ Registers
  BY DEF IInv
<1>2. PICK own : Placed(own)
  BY DEF IInv
<1>3. PICK n \in Nat : n = LocalCount /\ DOMAIN locals = 1 .. n
  BY <1>1, Numbers
<1>4. PICK b : b \in S /\ \A j \in S : j <= b
  <2>1. S \in SUBSET (0 .. n) /\ S # {}
    BY <1>3
  <2> HIDE DEF S
  <2> QED
    BY <2>1, Maximum
<1>5. S = 1 .. b /\ b \in 1 .. n
  <2>1. b \in 1 .. n
    BY <1>3, <1>4
  <2>2. ASSUME NEW j \in 1 .. b PROVE j \in S
    <3>1. j \in 1 .. LocalCount /\ b \in 1 .. LocalCount /\ j <= b
      BY <1>3, <2>1
    <3>2. locals[j].compiled_function <= locals[b].compiled_function
      BY <1>1, <1>2, <3>1, FunctionsInOrder
    <3>3. locals[j].compiled_function \in 1 .. FunDepth /\ FunDepth \in Nat
      BY <1>1, <1>2, <3>1, OfOpenFunction, Numbers
    <3> QED
      BY <1>4, <3>1, <3>2, <3>3
  <2>3. ASSUME NEW j \in S PROVE j \in 1 .. b
    BY <1>3, <1>4, <2>1
  <2> QED
    BY <2>1, <2>2, <2>3
<1>6. counters[1] = b
  <2>1. Cardinality(1 .. b) = b
    BY <1>3, <1>5, FS_Interval
  <2>2. counters[1] = Cardinality(S)
    BY <1>3 DEF NoBlockEnded
  <2> QED
    BY <1>5, <2>1, <2>2
<1>7. \A j \in 1 .. n : locals[j].ofsetted \in Nat
  <2>1. locals \in Seq(LocalRecords)
    BY <1>1 DEF Shape
  <2>2. \A j \in 1 .. n : locals[j] \in LocalRecords
    BY <1>3, <2>1, ElementOfSeq DEF LocalCount
  <2> QED
    BY <2>2 DEF LocalRecords
<1>8. i \in S /\ i \in 1 .. b /\ 1 \in S
  <2>1. i \in S
    OBVIOUS
  <2> QED
    BY <1>3, <1>5, <2>1
<1>9. \A j, k \in S : j < k => locals[j].ofsetted + (k - j) <= locals[k].ofsetted
  BY <1>1 DEF Registers
<1>10. locals[b].ofsetted < b
  BY <1>1, <1>4, <1>6 DEF Registers
<1>11. locals[i].ofsetted >= i - 1
  <2>1. CASE i = 1
    BY <1>3, <1>5, <1>7, <1>8, <2>1
  <2>2. CASE i # 1
    <3>1. 1 < i
      BY <1>3, <1>5, <1>8, <2>2
    <3>2. locals[1].ofsetted + (i - 1) <= locals[i].ofsetted
      BY <1>8, <1>9, <3>1
    <3> QED
      BY <1>3, <1>5, <1>7, <1>8, <3>2
  <2> QED
    BY <2>1, <2>2
<1>12. locals[i].ofsetted <= i - 1
  <2>1. CASE i = b
    BY <1>3, <1>5, <1>7, <1>10, <2>1
  <2>2. CASE i # b
    <3>1. i < b
      BY <1>3, <1>5, <1>8, <2>2
    <3>2. locals[i].ofsetted + (b - i) <= locals[b].ofsetted
      BY <1>4, <1>8, <1>9, <3>1
    <3> QED
      BY <1>3, <1>5, <1>7, <1>8, <1>10, <3>2
  <2> QED
    BY <2>1, <2>2
<1> QED
  BY <1>3, <1>5, <1>7, <1>8, <1>11, <1>12

LEMMA InvCaptures == MaxFuns <= 2 /\ IInv => CapturesItsRegister
<1> SUFFICES ASSUME MaxFuns <= 2, IInv, NoBlockEnded,
                    NEW h \in DOMAIN closures, NEW k \in DOMAIN closures[h]
             PROVE  closures[h][k].place = HomeRegister(closures[h][k].local)
  BY DEF CapturesItsRegister
<1>1. Shape /\ Registers /\ Captures
  BY DEF IInv
<1>2. PICK own : Placed(own)
  BY DEF IInv
<1>3. PICK i \in 1 .. LocalCount :
        /\ i = closures[h][k].local /\ locals[i].compiled_function < h
        /\ closures[h][k].place = i - 1 + Priv * h
  BY <1>1 DEF Captures
<1>4. /\ FunDepth \in Nat /\ DOMAIN closures = 1 .. FunDepth /\ DOMAIN counters = 1 .. FunDepth
      /\ FunDepth <= 2 /\ LocalCount \in Nat /\ DOMAIN locals = 1 .. LocalCount
  <2>1. FunDepth <= MaxFuns
    BY <1>1 DEF Shape
  <2> QED
    BY <1>1, <2>1, Numbers
<1>5. \A j \in 1 .. LocalCount : locals[j].compiled_function \in 1 .. FunDepth
  BY <1>1, <1>2, OfOpenFunction
<1>6. h = 2 /\ locals[i].compiled_function = 1 /\ 1 \in DOMAIN counters
  BY <1>3, <1>4, <1>5
<1>7. locals[i].ofsetted = i - 1
  BY <1>6, RegistersInOrder
<1>8. locals[i].put = i - 1 + Priv
  BY <1>1, <1>7 DEF Registers
<1>9. Around(1) = 0
  <2>1. {j \in DOMAIN locals : locals[j].compiled_function < 1} = {}
    BY <1>4, <1>5
  <2> QED
    BY <2>1, FS_EmptySet DEF Around
<1>10. HomeRegister(i) = Priv * 1 + 0 + (i - 1 + Priv)
  BY <1>6, <1>8, <1>9 DEF HomeRegister
<1> QED
  BY <1>3, <1>4, <1>6, <1>10 DEF Priv

\* With functions two deep and no block ended, what is moved to the heap is the register
\* of the captured variable (resolve_local), for any number of locals and captures.
THEOREM ScopesCapturesItsRegister == Limits /\ MaxFuns <= 2 => (Spec => []CapturesItsRegister)
<1>1. CASE Limits /\ MaxFuns <= 2
  BY <1>1, InvCaptures, ScopesInvariant, PTL
<1> QED
  BY <1>1
-----------------------------------------------------------------------------
(* What a reader expects of names. *)

Image == [d \in 1 .. scope_depth |-> ScopeImage(d)]

LEMMA ImageSeq ==
  ASSUME scope_depth \in Nat
  PROVE  /\ Image \in Seq({ScopeImage(d) : d \in 1 .. scope_depth})
         /\ Len(Image) = scope_depth /\ DOMAIN Image = 1 .. scope_depth
         /\ \A d \in 1 .. scope_depth : Image[d] = ScopeImage(d)
<1> DEFINE S == {ScopeImage(d) : d \in 1 .. scope_depth}
<1>1. /\ Image \in [1 .. scope_depth -> S] /\ DOMAIN Image = 1 .. scope_depth
      /\ \A d \in 1 .. scope_depth : Image[d] = ScopeImage(d)
  BY DEF Image
<1> HIDE DEF S
<1>2. Image \in Seq(S)
  BY <1>1, SeqDef
<1>3. Len(Image) = scope_depth
  BY <1>1, <1>2, LenProperties
<1> QED
  BY <1>1, <1>2, <1>3 DEF S

\* Scopes whose variables stay as they are.
LEMMA SameScope ==
  ASSUME NEW d,
         \A i \in DOMAIN locals : locals[i].depth = d =>
           /\ i \in DOMAIN locals' /\ locals'[i].depth = d
           /\ locals'[i].name = locals[i].name /\ locals'[i].is_const = locals[i].is_const,
         \A i \in DOMAIN locals' : locals'[i].depth = d =>
           i \in DOMAIN locals /\ locals[i].depth = d
  PROVE  ScopeImage(d)' = ScopeImage(d)
<1>1. PICK A : A = {i \in DOMAIN locals : locals[i].depth = d}
  OBVIOUS
<1>2. {i \in DOMAIN locals' : locals'[i].depth = d} = A
  BY <1>1
<1>3. \A i \in A : locals'[i].name = locals[i].name /\ locals'[i].is_const = locals[i].is_const
  BY <1>1
<1>4. {locals'[i].name : i \in A} = {locals[i].name : i \in A}
  BY <1>3
<1>5. \A x : (\E i \in A : locals'[i].name = x /\ locals'[i].is_const = 1)
               <=> (\E i \in A : locals[i].name = x /\ locals[i].is_const = 1)
  BY <1>3
<1> QED
  BY <1>1, <1>2, <1>4, <1>5 DEF ScopeImage

\* A variable that is new in its scope.
LEMMA NewInScope ==
  ASSUME NEW d, NEW k \in DOMAIN locals', locals'[k].depth = d,
         k \in DOMAIN locals => locals[k].depth # d,
         \A i : i # k => (i \in DOMAIN locals <=> i \in DOMAIN locals'),
         \A i \in DOMAIN locals : i # k =>
           /\ locals'[i].depth = locals[i].depth
           /\ locals'[i].name = locals[i].name /\ locals'[i].is_const = locals[i].is_const,
         \A i \in DOMAIN locals : locals[i].depth = d => locals[i].name # locals'[k].name
  PROVE  LET x == locals'[k].name IN
           /\ x \notin DOMAIN ScopeImage(d)
           /\ ScopeImage(d)' =
                [y \in DOMAIN ScopeImage(d) \cup {x} |->
                   IF y = x THEN locals'[k].is_const = 1 ELSE ScopeImage(d)[y]]
<1>1. PICK A : A = {i \in DOMAIN locals : locals[i].depth = d}
  OBVIOUS
<1>2. PICK x : x = locals'[k].name
  OBVIOUS
<1>3. k \notin A /\ {i \in DOMAIN locals' : locals'[i].depth = d} = A \cup {k}
  BY <1>1
<1>4. \A i \in A : /\ locals'[i].name = locals[i].name /\ locals'[i].is_const = locals[i].is_const
                   /\ locals[i].name # x
  BY <1>1, <1>2, <1>3
<1>5. /\ DOMAIN ScopeImage(d) = {locals[i].name : i \in A}
      /\ \A y \in {locals[i].name : i \in A} :
           ScopeImage(d)[y] = (\E i \in A : locals[i].name = y /\ locals[i].is_const = 1)
  BY <1>1 DEF ScopeImage
<1>6. ScopeImage(d)' = [y \in {locals'[i].name : i \in A \cup {k}} |->
                          \E i \in A \cup {k} : locals'[i].name = y /\ locals'[i].is_const = 1]
  BY <1>3 DEF ScopeImage
<1>7. {locals'[i].name : i \in A \cup {k}} = {locals[i].name : i \in A} \cup {x}
  BY <1>2, <1>4
<1>8. \A y \in {locals[i].name : i \in A} : y # x /\
        ((\E i \in A \cup {k} : locals'[i].name = y /\ locals'[i].is_const = 1)
           <=> (\E i \in A : locals[i].name = y /\ locals[i].is_const = 1))
  BY <1>2, <1>4
<1>9. (\E i \in A \cup {k} : locals'[i].name = x /\ locals'[i].is_const = 1) <=> locals'[k].is_const = 1
  BY <1>2, <1>4
<1>10. x \notin DOMAIN ScopeImage(d)
  BY <1>5, <1>8
<1>11. ScopeImage(d)' = [y \in DOMAIN ScopeImage(d) \cup {x} |->
                           IF y = x THEN locals'[k].is_const = 1 ELSE ScopeImage(d)[y]]
  <2> DEFINE f == [y \in DOMAIN ScopeImage(d) \cup {x} |->
                     IF y = x THEN locals'[k].is_const = 1 ELSE ScopeImage(d)[y]]
             g == [y \in {locals'[i].name : i \in A \cup {k}} |->
                     \E i \in A \cup {k} : locals'[i].name = y /\ locals'[i].is_const = 1]
  <2>1. DOMAIN f = {locals[i].name : i \in A} \cup {x} /\ DOMAIN g = DOMAIN f
    BY <1>5, <1>7
  <2>2. \A y \in DOMAIN f : f[y] = g[y]
    <3> TAKE y \in DOMAIN f
    <3>1. CASE y = x
      <4>1. f[y] = (locals'[k].is_const = 1)
        BY <3>1
      <4>2. g[y] = (\E i \in A \cup {k} : locals'[i].name = y /\ locals'[i].is_const = 1)
        BY <2>1
      <4> QED
        BY <1>9, <3>1, <4>1, <4>2
    <3>2. CASE y # x
      <4>1. y \in {locals[i].name : i \in A} /\ f[y] = ScopeImage(d)[y]
        BY <2>1, <3>2
      <4>2. g[y] = (\E i \in A \cup {k} : locals'[i].name = y /\ locals'[i].is_const = 1)
        BY <2>1
      <4> QED
        BY <1>5, <1>8, <4>1, <4>2
    <3> QED
      BY <3>1, <3>2
  <2>3. f = g
    BY <2>1, <2>2
  <2> QED
    BY <1>6, <2>3
<1> QED
  BY <1>2, <1>10, <1>11

\* A variable declared twice, which is an error, leaves the scope as it is.
LEMMA TwiceInScope ==
  ASSUME NEW d, NEW k \in DOMAIN locals', locals'[k].depth = d, locals'[k].is_const = 0,
         k \notin DOMAIN locals,
         \A i : i # k => (i \in DOMAIN locals <=> i \in DOMAIN locals'),
         \A i \in DOMAIN locals : locals'[i] = locals[i],
         \E i \in DOMAIN locals : locals[i].depth = d /\ locals[i].name = locals'[k].name
  PROVE  ScopeImage(d)' = ScopeImage(d)
<1>1. PICK A : A = {i \in DOMAIN locals : locals[i].depth = d}
  OBVIOUS
<1>2. {i \in DOMAIN locals' : locals'[i].depth = d} = A \cup {k}
  BY <1>1
<1>3. \A i \in A : locals'[i] = locals[i]
  BY <1>1
<1>4. \E i \in A : locals[i].name = locals'[k].name
  BY <1>1
<1>5. {locals'[i].name : i \in A \cup {k}} = {locals[i].name : i \in A}
  BY <1>3, <1>4
<1>6. \A x : (\E i \in A \cup {k} : locals'[i].name = x /\ locals'[i].is_const = 1)
               <=> (\E i \in A : locals[i].name = x /\ locals[i].is_const = 1)
  BY <1>3
<1> QED
  BY <1>1, <1>2, <1>5, <1>6 DEF ScopeImage

LEMMA Introduced ==
  ASSUME scope_depth \in Nat \ {0}, UNCHANGED scope_depth, code' = NONE,
         NEW k \in DOMAIN locals', locals'[k].depth = scope_depth,
         k \in DOMAIN locals => locals[k].depth = 0,
         \A i : i # k => (i \in DOMAIN locals <=> i \in DOMAIN locals'),
         \A i \in DOMAIN locals : i # k => locals'[i] = locals[i],
         \A i \in DOMAIN locals : locals[i].depth = scope_depth => locals[i].name # locals'[k].name
  PROVE  Lexical!Introduce(locals'[k].name, locals'[k].is_const = 1)
<1>1. PICK n \in Nat \ {0} : n = scope_depth
  OBVIOUS
<1>2. PICK x : x = locals'[k].name
  OBVIOUS
<1> DEFINE new == [y \in DOMAIN ScopeImage(n) \cup {x} |->
                     IF y = x THEN locals'[k].is_const = 1 ELSE ScopeImage(n)[y]]
<1>3. x \notin DOMAIN ScopeImage(n) /\ ScopeImage(n)' = new
  <2>1. k \in DOMAIN locals => locals[k].depth # n
    BY <1>1, <1>2
  <2>2. \A i \in DOMAIN locals : i # k =>
          /\ locals'[i].depth = locals[i].depth
          /\ locals'[i].name = locals[i].name /\ locals'[i].is_const = locals[i].is_const
    OBVIOUS
  <2>3. /\ locals'[k].depth = n
        /\ \A i \in DOMAIN locals : locals[i].depth = n => locals[i].name # locals'[k].name
    BY <1>1, <1>2
  <2>4. LET z == locals'[k].name IN
          /\ z \notin DOMAIN ScopeImage(n)
          /\ ScopeImage(n)' = [y \in DOMAIN ScopeImage(n) \cup {z} |->
                                 IF y = z THEN locals'[k].is_const = 1 ELSE ScopeImage(n)[y]]
    BY <2>1, <2>2, <2>3, NewInScope
  <2> QED
    BY <1>1, <1>2, <2>4
<1>4. \A d \in 1 .. n : d # n => ScopeImage(d)' = ScopeImage(d)
  <2> SUFFICES ASSUME NEW d \in 1 .. n, d # n PROVE ScopeImage(d)' = ScopeImage(d)
    OBVIOUS
  <2>1. d # 0
    OBVIOUS
  <2>2. \A i \in DOMAIN locals : locals[i].depth = d => i # k /\ i \in DOMAIN locals' /\ locals'[i] = locals[i]
    BY <2>1
  <2>3. \A i \in DOMAIN locals' : locals'[i].depth = d => i # k /\ i \in DOMAIN locals /\ locals[i].depth = d
    BY <1>1, <1>2
  <2> QED
    BY <2>2, <2>3, SameScope
<1>5. /\ Len(Image) = n /\ DOMAIN Image = 1 .. n /\ Image # <<>> /\ n \in 1 .. n
      /\ \A d \in 1 .. n : Image[d] = ScopeImage(d)
  <2>1. /\ Len(Image) = n /\ DOMAIN Image = 1 .. n
        /\ \A d \in 1 .. n : Image[d] = ScopeImage(d)
    BY <1>1, ImageSeq
  <2> QED
    BY <2>1
<1> HIDE DEF new
<1>6. Image' = [Image EXCEPT ![n] = new]
  <2>1. Image' = [d \in 1 .. n |-> ScopeImage(d)']
    BY <1>1 DEF Image
  <2> QED
    BY <1>3, <1>4, <1>5, <2>1
<1>7. Image[n] = ScopeImage(n)
  BY <1>5
<1>8. /\ Image # <<>> /\ x \notin DOMAIN Image[Len(Image)]
      /\ Image' = [Image EXCEPT ![Len(Image)] =
                     [y \in DOMAIN @ \cup {x} |->
                        IF y = x THEN locals'[k].is_const = 1 ELSE @[y]]]
  BY <1>3, <1>5, <1>6, <1>7 DEF new
<1>9. AccessImage' = NONE
  BY DEF AccessImage
<1>10. Lexical!Introduce(x, locals'[k].is_const = 1)
  BY <1>8, <1>9 DEF Lexical!Introduce, Image
<1> QED
  BY <1>1, <1>2, <1>10

\* BeginBlock and BeginFun open a scope with no variables.
LEMMA EnterScope ==
  ASSUME Limits, IInv, BeginBlock \/ BeginFun
  PROVE  Lexical!Enter
<1>1. PICK own : Shape /\ Placed(own)
  BY DEF IInv
<1>2. /\ locals' = locals /\ scope_depth' = scope_depth + 1 /\ code' = NONE
      /\ scope_depth \in Nat /\ DOMAIN locals = 1 .. LocalCount
  BY <1>1, Numbers DEF BeginBlock, BeginFun
<1> DEFINE n == scope_depth
           none == [x \in {} |-> FALSE]
           S == {ScopeImage(d) : d \in 1 .. n} \cup {none}
<1>3. \A d : ScopeImage(d)' = ScopeImage(d)
  BY <1>2 DEF ScopeImage
<1>4. ScopeImage(n + 1) = none
  <2>1. \A i \in DOMAIN locals : locals[i].depth # n + 1
    BY <1>1, <1>2, OfOpenFunction
  <2>2. {i \in DOMAIN locals : locals[i].depth = n + 1} = {}
    BY <2>1
  <2> QED
    BY <2>2 DEF ScopeImage
<1>5. Image \in Seq(S) /\ Len(Image) = n /\ \A d \in 1 .. n : Image[d] = ScopeImage(d)
  <2>1. /\ Image \in Seq({ScopeImage(d) : d \in 1 .. n}) /\ Len(Image) = n
        /\ \A d \in 1 .. n : Image[d] = ScopeImage(d)
    BY <1>2, ImageSeq
  <2> QED
    BY <2>1
<1>6. none \in S
  OBVIOUS
<1> HIDE DEF none, S
<1>7. /\ Append(Image, none) \in [1 .. n + 1 -> S]
      /\ \A d \in 1 .. n : Append(Image, none)[d] = ScopeImage(d)
      /\ Append(Image, none)[n + 1] = none
  <2>1. /\ Append(Image, none) \in Seq(S) /\ Len(Append(Image, none)) = n + 1
        /\ \A d \in 1 .. n : Append(Image, none)[d] = Image[d]
        /\ Append(Image, none)[n + 1] = none
    BY <1>5, <1>6, AppendProperties
  <2> QED
    BY <1>5, <2>1, LenProperties
<1>8. Image' = [d \in 1 .. n + 1 |-> ScopeImage(d)]
  BY <1>2, <1>3 DEF Image
<1>9. Image' = Append(Image, none)
  <2>1. \A d \in 1 .. n + 1 : Append(Image, none)[d] = ScopeImage(d)
    <3>1. \A d \in 1 .. n + 1 : d \in 1 .. n \/ d = n + 1
      BY <1>2
    <3> QED
      BY <1>4, <1>7, <3>1
  <2> QED
    BY <1>7, <1>8, <2>1
<1>10. AccessImage' = NONE
  BY <1>2 DEF AccessImage
<1> QED
  BY <1>9, <1>10 DEF Lexical!Enter, Image, none

\* EndBlock and EndFun take the variables of the innermost scope, and no others.
LEMMA LeaveScope ==
  ASSUME Limits, IInv, NEW line \in Lines, EndBlock(line) \/ EndFun(line)
  PROVE  Lexical!Leave
<1>1. PICK own : Shape /\ Placed(own)
  BY DEF IInv
<1>2. open # <<>> /\ Top.kind \in {"block", "fun"} /\ EndScope(line) /\ code' = NONE
  BY DEF EndBlock, EndFun, Within
<1>3. /\ LocalCount' = ScopeFloor /\ LocalCount' \in 0 .. LocalCount
      /\ \A i \in 1 .. LocalCount' : locals'[i] = locals[i]
      /\ locals' \in Seq(LocalRecords)
  BY <1>1, <1>2, EndScopeKeeps
<1>4. /\ LocalCount \in Nat /\ DOMAIN locals = 1 .. LocalCount
      /\ DOMAIN locals' = 1 .. LocalCount' /\ scope_depth \in Nat
  BY <1>1, <1>3, Numbers DEF LocalCount
<1>5. PICK n \in Nat : scope_depth = n + 1 /\ scope_depth' = n
  <2>1. scope_depth = Depth(Len(open) - 1) + 1 /\ Depth(Len(open) - 1) \in Nat
    <3>1. Len(open) \in Nat \ {0}
      <4>1. open \in Seq(Constructs) /\ Len(open) \in Nat
        BY <1>1, Numbers DEF Shape
      <4> QED
        BY <1>2, <4>1, EmptySeq
    <3>2. PICK p \in Nat : p = Len(open) - 1 /\ Len(open) = p + 1
      BY <3>1
    <3>3. open[p + 1].kind \in ScopeKinds
      BY <1>2, <3>2 DEF Top, ScopeKinds
    <3> QED
      BY <1>1, <3>2, <3>3, Counting DEF Shape, Depth
  <2>2. scope_depth' = scope_depth - 1
    BY <1>2 DEF EndScope
  <2> QED
    BY <2>1, <2>2
<1>6. ASSUME NEW d \in 1 .. n PROVE ScopeImage(d)' = ScopeImage(d)
  <2>1. \A i \in 1 .. LocalCount : locals[i].depth = d => i \in 1 .. LocalCount'
    <3> TAKE i \in 1 .. LocalCount
    <3> HAVE locals[i].depth = d
    <3>1. locals[i].depth # scope_depth
      BY <1>5
    <3> DEFINE T == {0} \cup {j \in DOMAIN locals : locals[j].depth # scope_depth}
    <3>2. i \in T /\ T \in SUBSET (0 .. LocalCount) /\ T # {} /\ ScopeFloor = Max(T)
      BY <1>4, <3>1 DEF ScopeFloor
    <3> HIDE DEF T
    <3>3. i <= ScopeFloor
      BY <1>4, <3>2, Maximum
    <3> QED
      BY <1>3, <1>4, <3>3
  <2>2. \A i \in 1 .. LocalCount' : i \in 1 .. LocalCount /\ locals'[i] = locals[i]
    BY <1>3, <1>4
  <2> QED
    BY <1>4, <2>1, <2>2, SameScope
<1> DEFINE S == {ScopeImage(d) : d \in 1 .. scope_depth}
<1>7. /\ Image \in Seq(S) /\ Len(Image) = n + 1 /\ DOMAIN Image = 1 .. n + 1
      /\ \A d \in 1 .. n + 1 : Image[d] = ScopeImage(d)
  BY <1>4, <1>5, ImageSeq
<1> HIDE DEF S
<1>8. Image' = [d \in 1 .. n |-> ScopeImage(d)]
  BY <1>5, <1>6 DEF Image
<1>9. Image # <<>> /\ Len(Image) - 1 = n
  BY <1>7
<1>10. Image' = SubSeq(Image, 1, n)
  <2>1. /\ SubSeq(Image, 1, n) \in [1 .. n -> S]
        /\ \A d \in 1 .. n : SubSeq(Image, 1, n)[d] = Image[d]
    <3>1. /\ SubSeq(Image, 1, n) \in Seq(S) /\ Len(SubSeq(Image, 1, n)) = n
          /\ \A d \in 1 .. n : SubSeq(Image, 1, n)[d] = Image[d]
      BY <1>7
    <3> QED
      BY <3>1, LenProperties
  <2>2. \A d \in 1 .. n : Image[d] = ScopeImage(d)
    BY <1>7
  <2> QED
    BY <1>8, <2>1, <2>2
<1>11. Image # <<>> /\ Image' = SubSeq(Image, 1, Len(Image) - 1)
  BY <1>9, <1>10
<1>12. AccessImage' = NONE
  BY <1>2 DEF AccessImage
<1> QED
  BY <1>11, <1>12 DEF Lexical!Leave, Image

LEMMA InScope ==
  ASSUME Shape, NEW m \in DOMAIN open, open[m].kind \in ScopeKinds
  PROVE  scope_depth \in Nat \ {0}
<1>1. Len(open) \in Nat /\ m \in 1 .. Len(open)
  BY Numbers
<1>2. PICK p \in Nat : m = p + 1 /\ m \in 0 .. Len(open)
  <2>1. m - 1 \in Nat /\ m = (m - 1) + 1 /\ m \in 0 .. Len(open)
    BY <1>1
  <2> QED
    BY <2>1
<1>3. Count(open, p + 1, ScopeKinds) = Count(open, p, ScopeKinds) + 1 /\ Count(open, p, ScopeKinds) \in Nat
  BY <1>2, Counting
<1>4. Count(open, p + 1, ScopeKinds) <= scope_depth /\ scope_depth \in Nat
  BY <1>1, <1>2, CountMonotone, Numbers DEF Shape, Depth
<1> QED
  BY <1>3, <1>4

\* A local whose declaration is complete has the depth of its scope.
LEMMA CompleteDepth ==
  ASSUME Shape, NEW own, Placed(own), NEW i \in 1 .. LocalCount, locals[i].depth # 0
  PROVE  locals[i].depth = Depth(own[i])
BY DEF Placed

\* EndDecl brings in the variable that BeginDecl took a register for.
LEMMA DeclIntroduces ==
  ASSUME Limits, IInv, NEW const \in 0 .. 1, EndDecl(const)
  PROVE  Lexical!Next
<1>1. PICK own : Shape /\ Placed(own) /\ (~rotten => Distinct(own))
  BY DEF IInv, Meant
<1>2. /\ ~rotten /\ open # <<>> /\ Top.kind = "decl" /\ code' = NONE /\ UNCHANGED scope_depth
      /\ locals' = [locals EXCEPT ![LocalCount].depth = scope_depth,
                                  ![LocalCount].is_const = const]
  BY DEF EndDecl, Within
<1>3. LocalCount \in 1 .. LocalCount /\ own[LocalCount] = Len(open)
  BY <1>1, <1>2, LastDeclared
<1>4. PICK k : /\ k = LocalCount /\ k \in DOMAIN locals /\ locals[k] \in LocalRecords
               /\ DOMAIN locals = 1 .. k
  BY <1>1, <1>3, Numbers, ElementOfSeq DEF Shape, LocalCount
<1>5. scope_depth \in Nat \ {0} /\ Len(open) \in DOMAIN open
  <2>1. Len(open) \in Nat \ {0} /\ DOMAIN open = 1 .. Len(open)
    <3>1. open \in Seq(Constructs) /\ DOMAIN open = 1 .. Len(open) /\ Len(open) \in Nat
      BY <1>1, Numbers DEF Shape
    <3> QED
      BY <1>2, <3>1, EmptySeq
  <2>2. Len(open) > 1 /\ open[Len(open) - 1].kind = "block" /\ Len(open) \in DOMAIN open
    <3>1. Len(open) \in DOMAIN open /\ open[Len(open)].kind = "decl"
      BY <1>2, <2>1 DEF Top
    <3> QED
      BY <1>1, <3>1 DEF Shape
  <2>3. Len(open) - 1 \in DOMAIN open
    BY <2>1, <2>2
  <2> QED
    BY <1>1, <2>2, <2>3, InScope DEF ScopeKinds
<1>6. locals[k].depth = 0
  BY <1>1, <1>2, <1>3, <1>4 DEF Placed, Top
<1>7. /\ DOMAIN locals' = DOMAIN locals
      /\ \A i \in DOMAIN locals : i # k => locals'[i] = locals[i]
      /\ locals'[k].depth = scope_depth /\ locals'[k].is_const = const
      /\ locals'[k].name = locals[k].name
  <2>1. PICK v : v = [locals[k] EXCEPT !.depth = scope_depth]
    OBVIOUS
  <2>2. PICK w : w = [v EXCEPT !.is_const = const]
    OBVIOUS
  <2>3. w.depth = scope_depth /\ w.is_const = const /\ w.name = locals[k].name
    BY <1>4, <2>1, <2>2 DEF LocalRecords
  <2>4. /\ DOMAIN locals' = DOMAIN locals /\ locals'[k] = w
        /\ \A i \in DOMAIN locals : i # k => locals'[i] = locals[i]
    BY <1>2, <1>4, <2>1, <2>2
  <2> QED
    BY <2>3, <2>4
<1>8. locals[k].name \in Names
  BY <1>1, <1>2, <1>4 DEF Distinct
<1>9. \A i \in DOMAIN locals : locals[i].depth = scope_depth => locals[i].name # locals'[k].name
  <2> SUFFICES ASSUME NEW i \in 1 .. LocalCount, locals[i].depth = scope_depth
               PROVE  locals[i].name # locals[k].name
    BY <1>4, <1>7
  <2>1. i # k /\ locals[i].depth = Depth(own[i])
    BY <1>1, <1>5, <1>6, CompleteDepth
  <2>2. Depth(own[i]) = Depth(own[k])
    BY <1>1, <1>3, <1>4, <2>1 DEF Shape
  <2> QED
    BY <1>1, <1>2, <1>3, <1>4, <2>1, <2>2 DEF Distinct
<1>10. Lexical!Introduce(locals'[k].name, locals'[k].is_const = 1)
  BY <1>2, <1>4, <1>5, <1>6, <1>7, <1>9, Introduced
<1>11. locals'[k].name \in Names /\ (locals'[k].is_const = 1) \in BOOLEAN
  BY <1>7, <1>8
<1> QED
  BY <1>10, <1>11 DEF Lexical!Next

\* Param brings in a variable; one declared already is an error and changes no scope.
LEMMA ParamIntroduces ==
  ASSUME Limits, IInv, NEW x \in Names, Param(x)
  PROVE  Lexical!Next
<1>1. PICK own : Shape /\ Placed(own)
  BY DEF IInv
<1>2. /\ open # <<>> /\ Top.kind = "params" /\ rotten' = Declared(x)
      /\ code' = NONE /\ UNCHANGED scope_depth
      /\ MayDeclare /\ Decl(x, scope_depth) /\ UNCHANGED <<closures, open>>
  BY DEF Param, Within
<1>3. /\ LocalCount \in Nat /\ DOMAIN locals = 1 .. LocalCount
      /\ open \in Seq(Constructs) /\ Len(open) \in Nat /\ DOMAIN open = 1 .. Len(open)
  BY <1>1, Numbers DEF Shape
<1>4. Len(open) \in DOMAIN open /\ scope_depth \in Nat \ {0}
  <2>1. Len(open) \in 1 .. Len(open)
    BY <1>2, <1>3, EmptySeq
  <2> QED
    BY <1>1, <1>2, <1>3, <2>1, InScope DEF Top, ScopeKinds
<1>5. counters # <<>>
  BY <1>1, <1>2, <1>4, InFunction DEF Top, FunKinds
<1>6. PICK k : k = LocalCount + 1 /\ k \notin DOMAIN locals
  BY <1>3
<1>7. /\ \A i \in 1 .. LocalCount : locals'[i] = locals[i]
      /\ k \in DOMAIN locals' /\ DOMAIN locals' = 1 .. k
      /\ locals'[k].depth = scope_depth /\ locals'[k].name = x /\ locals'[k].is_const = 0
  <2>1. /\ locals' \in Seq(LocalRecords) /\ LocalCount' = LocalCount + 1
        /\ \A i \in 1 .. LocalCount : locals'[i] = locals[i]
        /\ locals'[LocalCount + 1].depth = scope_depth
        /\ locals'[LocalCount + 1].name = x /\ locals'[LocalCount + 1].is_const = 0
    BY <1>1, <1>2, <1>4, <1>5, DeclKeeps DEF IInv
  <2>2. DOMAIN locals' = 1 .. LocalCount'
    BY <2>1, LenProperties DEF LocalCount
  <2> QED
    BY <1>3, <1>6, <2>1, <2>2
<1>8. \A i : i # k => (i \in DOMAIN locals <=> i \in DOMAIN locals')
  BY <1>3, <1>6, <1>7
<1>9. CASE ~Declared(x)
  <2>1. \A i \in DOMAIN locals : locals[i].depth = scope_depth => locals[i].name # locals'[k].name
    <3> SUFFICES ASSUME NEW i \in 1 .. LocalCount, locals[i].depth = scope_depth
                 PROVE  locals[i].name # x
      BY <1>3, <1>7
    <3>1. Depth(own[i]) = scope_depth
      BY <1>1, <1>4, CompleteDepth
    <3> QED
      BY <1>1, <1>2, <1>9, <3>1, NotDeclared
  <2>2. Lexical!Introduce(locals'[k].name, locals'[k].is_const = 1)
    BY <1>2, <1>3, <1>4, <1>6, <1>7, <1>8, <2>1, Introduced
  <2> QED
    BY <1>7, <2>2 DEF Lexical!Next
<1>10. CASE Declared(x)
  <2>1. PICK n \in Nat \ {0} : n = scope_depth
    BY <1>4
  <2>2. PICK i \in 1 .. LocalCount : locals[i].name = x /\ locals[i].depth = n
    <3>1. PICK i \in 1 .. LocalCount :
            locals[i].name = x /\ \A j \in i .. LocalCount : locals[j].depth >= scope_depth
      BY <1>3, <1>10 DEF Declared
    <3>2. locals[i].depth \in 0 .. scope_depth /\ i \in i .. LocalCount
      BY <1>1, <1>3, OfOpenFunction
    <3> QED
      BY <2>1, <3>1, <3>2
  <2>3. ScopeImage(n)' = ScopeImage(n)
    BY <1>3, <1>6, <1>7, <1>8, <2>1, <2>2, TwiceInScope
  <2>4. ASSUME NEW d \in 1 .. n, d # n PROVE ScopeImage(d)' = ScopeImage(d)
    <3>1. \A j \in DOMAIN locals' : locals'[j].depth = d => j \in DOMAIN locals
      BY <1>7, <1>8, <2>1, <2>4
    <3>2. \A j \in DOMAIN locals : j \in DOMAIN locals' /\ locals'[j] = locals[j]
      BY <1>3, <1>6, <1>7, <1>8
    <3> QED
      BY <3>1, <3>2, SameScope
  <2>5. Image' = Image
    BY <1>2, <2>1, <2>3, <2>4 DEF Image
  <2>6. AccessImage' = NONE
    BY <1>2 DEF AccessImage
  <2> QED
    BY <2>5, <2>6 DEF Lexical!Next, Lexical!Other, Image
<1> QED
  BY <1>9, <1>10

\* The steps that are about no scope and no access.
LEMMA OtherSteps ==
  ASSUME Limits, IInv, NEW x, EndParams \/ (x \in Names /\ (BeginDecl(x) \/ BeginAssign(x)))
  PROVE  Lexical!Next
<1>1. PICK own : Shape /\ Placed(own)
  BY DEF IInv
<1>2. scope_depth \in Nat /\ LocalCount \in Nat /\ DOMAIN locals = 1 .. LocalCount
  BY <1>1, Numbers
<1>3. UNCHANGED scope_depth /\ code' = NONE
  BY DEF EndParams, BeginDecl, BeginAssign
<1>4. ASSUME NEW d \in 1 .. scope_depth PROVE ScopeImage(d)' = ScopeImage(d)
  <2>1. CASE EndParams
    BY <2>1 DEF EndParams, ScopeImage
  <2>2. CASE x \in Names /\ BeginDecl(x)
    <3>1. /\ locals' \in Seq(LocalRecords) /\ LocalCount' = LocalCount + 1
          /\ \A i \in 1 .. LocalCount : locals'[i] = locals[i]
          /\ locals'[LocalCount + 1].depth = 0
      <4>1. MayDeclare /\ counters # <<>> /\ Decl(x, 0) /\ UNCHANGED closures
        BY <2>2 DEF BeginDecl, Limits
      <4> QED
        BY <1>1, <2>2, <4>1, DeclKeeps DEF IInv
    <3>2. DOMAIN locals' = 1 .. LocalCount + 1
      BY <3>1, LenProperties DEF LocalCount
    <3>3. \A i \in DOMAIN locals : i \in DOMAIN locals' /\ locals'[i] = locals[i]
      BY <1>2, <3>1, <3>2
    <3>4. \A i \in DOMAIN locals' : locals'[i].depth = d => i \in DOMAIN locals
      BY <1>2, <3>1, <3>2
    <3> QED
      BY <3>3, <3>4, SameScope
  <2>3. CASE x \in Names /\ BeginAssign(x)
    <3>1. Relinked /\ locals' \in Seq(LocalRecords)
      <4>1. Resolve(x) /\ UNCHANGED counters
        BY <2>3 DEF BeginAssign
      <4> QED
        BY <1>1, <4>1, ResolveKeeps DEF IInv
    <3>2. DOMAIN locals' = 1 .. LocalCount
      BY <3>1, LenProperties DEF LocalCount, Relinked
    <3> QED
      BY <1>2, <3>1, <3>2, SameScope DEF Relinked
  <2> QED
    BY <2>1, <2>2, <2>3
<1>5. Image' = Image
  BY <1>3, <1>4 DEF Image
<1>6. AccessImage' = NONE
  BY <1>3 DEF AccessImage
<1> QED
  BY <1>5, <1>6 DEF Lexical!Next, Lexical!Other, Image

LEMMA HavingLocals ==
  ASSUME Shape, NEW own, Placed(own), NEW x
  PROVE  /\ Lexical!Having(x) =
              {locals[j].depth : j \in {j \in 1 .. LocalCount : locals[j].depth # 0 /\ locals[j].name = x}}
         /\ Lexical!Having(x) \in SUBSET (0 .. scope_depth)
<1>1. scope_depth \in Nat /\ DOMAIN locals = 1 .. LocalCount
  BY Numbers
<1>2. /\ DOMAIN Image = 1 .. scope_depth
      /\ \A d \in 1 .. scope_depth : Image[d] = ScopeImage(d)
  BY <1>1, ImageSeq
<1>3. \A d : DOMAIN ScopeImage(d) = {locals[i].name : i \in {i \in DOMAIN locals : locals[i].depth = d}}
  BY DEF ScopeImage
<1>4. \A d \in 1 .. scope_depth : x \in DOMAIN Image[d] <=>
        \E j \in 1 .. LocalCount : locals[j].depth = d /\ locals[j].name = x
  <2> TAKE d \in 1 .. scope_depth
  <2>1. DOMAIN Image[d] = {locals[i].name : i \in {i \in 1 .. LocalCount : locals[i].depth = d}}
    BY <1>1, <1>2, <1>3
  <2> QED
    BY <2>1
<1>5. \A j \in 1 .. LocalCount : locals[j].depth # 0 <=> locals[j].depth \in 1 .. scope_depth
  BY <1>1, OfOpenFunction
<1>6. Lexical!Having(x) = {d \in DOMAIN Image : x \in DOMAIN Image[d]}
  BY DEF Lexical!Having, Image
<1> QED
  BY <1>1, <1>2, <1>4, <1>5, <1>6

\* Complete locals stand in the order of their scopes.
LEMMA DepthsInOrder ==
  ASSUME Shape, NEW own, Placed(own),
         NEW i \in 1 .. LocalCount, NEW j \in 1 .. LocalCount, i <= j,
         locals[i].depth # 0, locals[j].depth # 0
  PROVE  locals[i].depth <= locals[j].depth
<1>1. own[i] \in 0 .. own[j] /\ own[j] \in Nat
  <2>1. own[i] <= own[j] /\ own[i] \in 1 .. Len(open) /\ own[j] \in 1 .. Len(open)
    BY DEF Placed
  <2> QED
    BY <2>1, Numbers
<1>2. Depth(own[i]) <= Depth(own[j])
  BY <1>1, CountMonotone DEF Depth
<1> QED
  BY <1>2, CompleteDepth

\* The last complete local with its name is the innermost variable that has it.
LEMMA LastIsInnermost ==
  ASSUME Shape, NEW own, Placed(own), Distinct(own),
         NEW i \in 1 .. LocalCount, locals[i].depth # 0, NEW x, x = locals[i].name,
         \A j \in 1 .. LocalCount : i < j /\ locals[j].depth # 0 => locals[j].name # x
  PROVE  /\ Lexical!Having(x) # {} /\ Lexical!Scope(x) = locals[i].depth
         /\ Image[locals[i].depth][x] <=> locals[i].is_const = 1
<1>1. PICK n \in Nat, d \in Nat : d \in 1 .. n /\ n = scope_depth /\ d = locals[i].depth
  <2>1. locals[i].depth \in 1 .. scope_depth /\ scope_depth \in Nat
    BY OfOpenFunction, Numbers
  <2> QED
    BY <2>1
<1>2. PICK H : H = Lexical!Having(x)
  OBVIOUS
<1>3. LocalCount \in Nat /\ DOMAIN locals = 1 .. LocalCount
  BY Numbers
<1>4. /\ H = {locals[j].depth : j \in {j \in 1 .. LocalCount : locals[j].depth # 0 /\ locals[j].name = x}}
      /\ H \in SUBSET (0 .. n)
  BY <1>1, <1>2, HavingLocals
<1>5. d \in H
  BY <1>1, <1>4
<1>6. \A e \in H : e <= d
  <2> TAKE e \in H
  <2>1. PICK j \in 1 .. LocalCount : e = locals[j].depth /\ locals[j].depth # 0 /\ locals[j].name = x
    BY <1>4
  <2>2. j <= i
    BY <1>3, <2>1
  <2> QED
    BY <1>1, <2>1, <2>2, DepthsInOrder
<1>7. Max(H) = d
  <2>1. Max(H) \in H /\ \A e \in H : e <= Max(H)
    BY <1>4, <1>5, Maximum
  <2> QED
    BY <1>4, <1>5, <1>6, <2>1
<1>8. Lexical!Scope(x) = d
  BY <1>1, <1>2, <1>5, <1>7 DEF Lexical!Scope, Lexical!Max, Max
<1>9. Image[d][x] <=> locals[i].is_const = 1
  <2>1. Image[d] = ScopeImage(d)
    BY <1>1, ImageSeq
  <2>2. PICK A : A = {j \in DOMAIN locals : locals[j].depth = d}
    OBVIOUS
  <2>3. i \in A
    BY <1>1, <1>3, <2>2
  <2>4. ScopeImage(d)[x] <=> \E j \in A : locals[j].name = x /\ locals[j].is_const = 1
    BY <2>2, <2>3 DEF ScopeImage
  <2>5. ASSUME NEW j \in A, locals[j].name = x PROVE j = i
    <3>1. j \in 1 .. LocalCount /\ locals[j].depth = d /\ d # 0
      BY <1>1, <1>3, <2>2
    <3>2. Depth(own[j]) = Depth(own[i])
      BY <1>1, <3>1, CompleteDepth
    <3> QED
      BY <2>5, <3>1, <3>2 DEF Distinct
  <2> QED
    BY <2>1, <2>3, <2>4, <2>5
<1> QED
  BY <1>1, <1>2, <1>5, <1>8, <1>9

\* An access to local i, which is what its name means.
LEMMA AccessToLocal ==
  ASSUME Shape, NEW own, Placed(own), Distinct(own),
         NEW i \in 1 .. LocalCount, locals[i].depth # 0, locals[i].name \notin ThisNames,
         \A j \in 1 .. LocalCount : i < j /\ locals[j].depth # 0 => locals[j].name # locals[i].name,
         NEW assign \in BOOLEAN, assign => locals[i].is_const # 1,
         Relinked, UNCHANGED scope_depth, locals' \in Seq(LocalRecords),
         "local" \in DOMAIN code', "this" \notin DOMAIN code', code'.local = i, code'.assign = assign
  PROVE  Lexical!Next
<1>1. PICK x \in Names, d \in Nat : x = locals[i].name /\ d = locals[i].depth
  <2>1. locals[i].depth \in 0 .. scope_depth
    BY OfOpenFunction
  <2> QED
    BY <2>1 DEF Distinct
<1>2. Lexical!Having(x) # {} /\ Lexical!Scope(x) = d /\ (Image[d][x] <=> locals[i].is_const = 1)
  BY <1>1, LastIsInnermost
<1>3. Image' = Image
  <2>1. /\ DOMAIN locals = 1 .. LocalCount /\ DOMAIN locals' = 1 .. LocalCount
        /\ scope_depth \in Nat
    BY Numbers, LenProperties DEF Relinked, LocalCount
  <2>2. \A e : ScopeImage(e)' = ScopeImage(e)
    BY <2>1, SameScope DEF Relinked
  <2> QED
    BY <2>2 DEF Image
<1>4. CASE code' = NONE
  <2>1. AccessImage' = NONE
    BY <1>4 DEF AccessImage
  <2> QED
    BY <1>3, <2>1 DEF Lexical!Next, Lexical!Other, Image
<1>5. CASE code' # NONE
  <2>1. locals'[i].name = x /\ locals'[i].depth = d
    BY <1>1 DEF Relinked
  <2>2. AccessImage' = [name |-> x, scope |-> d, assign |-> assign]
    BY <1>5, <2>1 DEF AccessImage, Local
  <2>3. assign /\ Lexical!Having(x) # {} => ~Image[Lexical!Scope(x)][x]
    BY <1>2
  <2>4. Lexical!Access(x, assign)
    BY <1>1, <1>2, <1>3, <2>2, <2>3 DEF Lexical!Access, Image
  <2> QED
    BY <2>4 DEF Lexical!Next
<1> QED
  BY <1>4, <1>5

\* An access to a name that no scope has.
LEMMA AccessToGlobal ==
  ASSUME Shape, NEW own, Placed(own), NEW x \in Names, x \notin ThisNames,
         \A j \in 1 .. LocalCount : locals[j].depth # 0 => locals[j].name # x,
         NEW assign \in BOOLEAN, UNCHANGED <<locals, scope_depth>>,
         code' = GlobalAccess(x, assign)
  PROVE  Lexical!Next
<1>1. Lexical!Having(x) = {} /\ Lexical!Scope(x) = 0
  BY HavingLocals DEF Lexical!Scope
<1>2. Image' = Image
  BY DEF Image, ScopeImage
<1>3. CASE code' = NONE
  <2>1. AccessImage' = NONE
    BY <1>3 DEF AccessImage
  <2> QED
    BY <1>2, <2>1 DEF Lexical!Next, Lexical!Other, Image
<1>4. CASE code' # NONE
  <2>1. DOMAIN code' \cap {"local", "this"} = {} /\ code'.global = x /\ code'.assign = assign
    BY DEF GlobalAccess
  <2>2. AccessImage' = [name |-> x, scope |-> 0, assign |-> assign]
    BY <1>4, <2>1 DEF AccessImage, Local
  <2>3. Lexical!Access(x, assign)
    BY <1>1, <1>2, <2>2 DEF Lexical!Access, Image
  <2> QED
    BY <2>3 DEF Lexical!Next
<1> QED
  BY <1>3, <1>4

\* Use and EndAssign name the innermost variable of the name, or a global.
LEMMA UseAccesses ==
  ASSUME Limits, IInv, NEW x \in Names, Use(x)
  PROVE  Lexical!Next
<1>1. PICK own : Shape /\ Placed(own) /\ (~rotten => Distinct(own))
  BY DEF IInv, Meant
<1>2. /\ ~rotten /\ Resolve(x) /\ x \notin ThisNames /\ UNCHANGED <<scope_depth, counters>>
      /\ code' = IF Visible(x) = {} THEN GlobalAccess(x, FALSE)
                 ELSE Access(Resolved(x), locals'[Resolved(x)].is_link, FALSE)
  BY DEF Use, Expression
<1>3. DOMAIN locals = 1 .. LocalCount
  BY <1>1, Numbers
<1>4. CASE Visible(x) = {}
  <2>1. UNCHANGED locals /\ code' = GlobalAccess(x, FALSE)
    BY <1>2, <1>4 DEF Resolve
  <2>2. \A j \in 1 .. LocalCount : locals[j].depth # 0 => locals[j].name # x
    BY <1>3, <1>4 DEF Visible
  <2> QED
    BY <1>1, <1>2, <2>1, <2>2, AccessToGlobal
<1>5. CASE Visible(x) # {}
  <2>1. PICK i \in 1 .. LocalCount :
          /\ i = Resolved(x) /\ locals[i].depth # 0 /\ locals[i].name = x
          /\ \A j \in Visible(x) : j <= i
    BY <1>1, <1>5, ResolvedVisible
  <2>2. \A j \in 1 .. LocalCount : i < j /\ locals[j].depth # 0 => locals[j].name # locals[i].name
    <3>1. \A j \in 1 .. LocalCount : i < j => ~(j <= i)
      BY <1>1, Numbers
    <3> QED
      BY <1>3, <2>1, <3>1 DEF Visible
  <2>3. Relinked /\ locals' \in Seq(LocalRecords)
    BY <1>1, <1>2, ResolveKeeps DEF IInv
  <2>4. code' = Access(i, locals'[i].is_link, FALSE)
    BY <1>2, <1>5, <2>1
  <2>5. /\ "local" \in DOMAIN code' /\ "this" \notin DOMAIN code'
        /\ code'.local = i /\ code'.assign = FALSE
    BY <2>4 DEF Access
  <2> QED
    BY <1>1, <1>2, <2>1, <2>2, <2>3, <2>5, AccessToLocal
<1> QED
  BY <1>4, <1>5

LEMMA AssignAccesses ==
  ASSUME Limits, IInv, EndAssign
  PROVE  Lexical!Next
<1>1. PICK own : /\ Shape /\ Placed(own) /\ Assigned(own)
                 /\ ~rotten => Distinct(own) /\ \A n \in DOMAIN open : Means(own, n)
  BY DEF IInv, Meant
<1>2. /\ ~rotten /\ open # <<>> /\ Top.kind = "assign" /\ Top = open[Len(open)]
      /\ UNCHANGED <<locals, scope_depth, counters, closures>>
      /\ code' = IF "global" \in DOMAIN Top THEN GlobalAccess(Top.global, TRUE)
                 ELSE Access(Top.local, locals[Top.local].is_link, TRUE)
  BY DEF EndAssign, Within, Top
<1>3. /\ locals \in Seq(LocalRecords) /\ open \in Seq(Constructs)
      /\ Len(open) \in Nat /\ DOMAIN open = 1 .. Len(open)
  BY <1>1, Numbers DEF Shape
<1>4. Len(open) \in DOMAIN open /\ Top \in Constructs
  <2>1. Len(open) \in 1 .. Len(open)
    BY <1>2, <1>3, EmptySeq
  <2> QED
    BY <1>2, <1>3, <2>1, ElementOfSeq
<1>5. Means(own, Len(open))
  BY <1>1, <1>2, <1>4
<1>6. \A j \in 1 .. LocalCount : own[j] < Len(open)
  <2> TAKE j \in 1 .. LocalCount
  <2>1. own[j] \in 1 .. Len(open) /\ open[own[j]].kind # "assign"
    BY <1>1 DEF Placed
  <2>2. own[j] # Len(open)
    BY <1>2, <2>1
  <2> QED
    BY <1>3, <2>1, <2>2
<1>7. CASE "global" \in DOMAIN Top
  <2>1. PICK x \in Names : x = Top.global /\ x \notin ThisNames
    BY <1>4, <1>7 DEF Constructs
  <2>2. \A j \in 1 .. LocalCount : locals[j].depth # 0 => locals[j].name # x
    BY <1>2, <1>5, <1>6, <1>7, <2>1 DEF Means
  <2>3. code' = GlobalAccess(x, TRUE)
    BY <1>2, <1>7, <2>1
  <2> QED
    BY <1>1, <1>2, <2>1, <2>2, <2>3, AccessToGlobal
<1>8. CASE "global" \notin DOMAIN Top
  <2>1. "local" \in DOMAIN Top
    BY <1>2, <1>4, <1>8 DEF Constructs, ScopeKinds
  <2>2. PICK i \in 1 .. LocalCount : i = Top.local
    BY <1>1, <1>2, <1>4, <2>1 DEF Assigned
  <2>3. /\ locals[i].depth # 0 /\ locals[i].is_const # 1 /\ locals[i].name \notin ThisNames
        /\ \A j \in 1 .. LocalCount : i < j /\ locals[j].depth # 0 => locals[j].name # locals[i].name
    BY <1>2, <1>5, <1>6, <2>1, <2>2 DEF Means
  <2>4. code' = Access(i, locals[i].is_link, TRUE)
    BY <1>2, <1>8, <2>2
  <2>5. /\ "local" \in DOMAIN code' /\ "this" \notin DOMAIN code'
        /\ code'.local = i /\ code'.assign = TRUE
    BY <2>4 DEF Access
  <2>6. Relinked
    BY <1>2 DEF Relinked, LocalCount
  <2> QED
    BY <1>1, <1>2, <1>3, <2>2, <2>3, <2>5, <2>6, AccessToLocal
<1> QED
  BY <1>7, <1>8

\* A name that begins with "this": the receiver, or an error.
LEMMA ThisAccesses ==
  ASSUME NEW x \in Names, UseThis(x) \/ AssignThis(x)
  PROVE  Lexical!Next
<1>1. Image' = Image
  BY DEF UseThis, AssignThis, Image, ScopeImage
<1>2. CASE code' = NONE
  <2>1. AccessImage' = NONE
    BY <1>2 DEF AccessImage
  <2> QED
    BY <1>1, <2>1 DEF Lexical!Next, Lexical!Other, Image
<1>3. CASE code' # NONE
  <2>1. x \in ThisNames /\ code' = [this |-> x]
    BY <1>3 DEF UseThis, AssignThis
  <2>2. AccessImage' = [receiver |-> x]
    BY <1>3, <2>1 DEF AccessImage
  <2>3. Lexical!Receive(x)
    BY <1>1, <2>2 DEF Lexical!Receive, Image
  <2> QED
    BY <2>1, <2>3 DEF Lexical!Next
<1> QED
  BY <1>2, <1>3

LEMMA LexicalInit == Init => Lexical!Init
<1> SUFFICES ASSUME Init PROVE Lexical!Init
  OBVIOUS
<1>1. scope_depth = 0 /\ code = NONE
  BY DEF Init
<1>2. Image = <<>>
  BY <1>1, ImageSeq, EmptySeq
<1>3. AccessImage = NONE
  BY <1>1 DEF AccessImage
<1> QED
  BY <1>2, <1>3 DEF Lexical!Init, Image

LEMMA LexicalStep == Limits /\ IInv /\ [Next]_vars => [Lexical!Next]_(Lexical!vars)
<1> SUFFICES ASSUME Limits, IInv, [Next]_vars PROVE Lexical!Next \/ UNCHANGED Lexical!vars
  OBVIOUS
<1>1. CASE BeginBlock \/ BeginFun
  BY <1>1, EnterScope DEF Lexical!Next
<1>2. ASSUME NEW line \in Lines, EndBlock(line) \/ EndFun(line) PROVE Lexical!Next
  BY <1>2, LeaveScope DEF Lexical!Next
<1>3. CASE EndParams
  BY <1>3, OtherSteps
<1>4. CASE EndAssign
  BY <1>4, AssignAccesses
<1>5. ASSUME NEW const \in 0 .. 1, EndDecl(const) PROVE Lexical!Next
  BY <1>5, DeclIntroduces
<1>6. ASSUME NEW x \in Names, BeginDecl(x) \/ Param(x) \/ Use(x) \/ BeginAssign(x) PROVE Lexical!Next
  BY <1>6, OtherSteps, ParamIntroduces, UseAccesses
<1>7. ASSUME NEW x \in Names, UseThis(x) \/ AssignThis(x) PROVE Lexical!Next
  BY <1>7, ThisAccesses
<1>8. CASE UNCHANGED vars
  <2>1. UNCHANGED <<locals, scope_depth, code>>
    BY <1>8 DEF vars
  <2>2. Image' = Image /\ AccessImage' = AccessImage
    BY <2>1 DEF Image, ScopeImage, AccessImage, Local
  <2> QED
    BY <2>2 DEF Lexical!vars, Image
<1> QED
  BY <1>1, <1>2, <1>3, <1>4, <1>5, <1>6, <1>7, <1>8 DEF Next

\* A name that begins with "this" means the receiver even where it is declared, and is never
\* assigned; every other name means the innermost variable of that name whose declaration is
\* complete.  A scope takes its own variables with it and no others, and no constant is
\* assigned, for programs of any size (__comp_identifier, resolve_local, __loc_var_decl,
\* __loc_var_init, __end_scope).
THEOREM ScopesImplementLexicalScope == Limits => (Spec => ImplementsLexicalScope)
<1>1. CASE Limits
  BY <1>1, LexicalInit, LexicalStep, ScopesInvariant, PTL
     DEF Spec, ImplementsLexicalScope, Lexical!Spec
<1> QED
  BY <1>1

=============================================================================
