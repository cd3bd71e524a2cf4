--------------------------- MODULE HashMapProofs ---------------------------
(***************************************************************************)
(* HashMap for every hash function, set of keys and capacity.               *)
(***************************************************************************)
EXTENDS HashMap, SequenceTheorems, FiniteSetTheorems, TLAPS

\* A slot that holds a key holds a value too.
KeySlot == {s \in Slot : s.key \in Keys => s.val \in Vals}

SearchFrames(c) == [op : {"get", "unset"}, key : Keys, i : 0 .. c - 1]

SetFrames(c) ==
  [op : {"set"}, key : Keys, val : Vals, i : 0 .. c - 1,
   at : {"probe", "write", "next"}]

RehashFrames ==
  [op : {"rehash"}, old : UNION {[0 .. c - 1 -> KeySlot] : c \in Nat}, j : Nat,
   at : {"loop", "moved"}]

\* What a call under way can be while the table has c slots.
FramesAt(c) == SearchFrames(c) \cup SetFrames(c) \cup RehashFrames

Shape ==
  /\ cap \in Nat \ {0}
  /\ len \in Nat
  /\ slots \in [0 .. cap - 1 -> KeySlot]
  /\ stack \in Seq(FramesAt(cap))
  /\ ret = <<>> \/ ret \in Keys \X (Vals \cup {NONE})

\* The slots a search for an absent key would not stop at.
Used == {i \in 0 .. cap - 1 : slots[i].key # FREE}

\* The calls, by their height in the stack, that have counted an entry they
\* have yet to write.
Writes(f) == f.op = "set" /\ f.at = "write"

Pending(s) == {n \in 0 .. Len(s) - 1 : Writes(s[Len(s) - n])}

\* Each slot in use and each entry to come has been counted.
Counted == Cardinality(Used) + Cardinality(Pending(stack)) <= len

-----------------------------------------------------------------------------
(* Stacks. *)

LEMMA Push ==
  ASSUME NEW S, NEW s \in Seq(S), NEW f \in S
  PROVE  /\ <<f>> \o s \in Seq(S)
         /\ Len(<<f>> \o s) = Len(s) + 1
         /\ (<<f>> \o s)[1] = f
         /\ \A n \in 1 .. Len(s) : (<<f>> \o s)[n + 1] = s[n]
         /\ Tail(<<f>> \o s) = s
         /\ <<f>> \o s # <<>>
OBVIOUS

LEMMA TopAndRest ==
  ASSUME NEW S, NEW s \in Seq(S), s # <<>>
  PROVE  /\ s[1] \in S
         /\ Tail(s) \in Seq(S)
         /\ s = <<s[1]>> \o Tail(s)
OBVIOUS

LEMMA PushTwo ==
  ASSUME NEW S, NEW s \in Seq(S), NEW f \in S, NEW g \in S
  PROVE  <<f, g>> \o s = <<f>> \o (<<g>> \o s)
<1>2. <<f>> \in Seq(S) /\ <<g>> \in Seq(S) /\ <<f, g>> \in Seq(S)
  OBVIOUS
<1>1. <<f, g>> = <<f>> \o <<g>>
  <2>1. /\ <<f>> \o <<g>> \in Seq(S)
        /\ Len(<<f>> \o <<g>>) = 2 /\ Len(<<f, g>>) = 2
        /\ (<<f>> \o <<g>>)[1] = f /\ (<<f>> \o <<g>>)[2] = g
    BY <1>2
  <2>2. <<f, g>>[1] = f /\ <<f, g>>[2] = g
    OBVIOUS
  <2>3. \A n \in 1 .. 2 : (<<f>> \o <<g>>)[n] = <<f, g>>[n]
    <3>1. \A n \in 1 .. 2 : n = 1 \/ n = 2
      OBVIOUS
    <3> QED
      BY <2>1, <2>2, <3>1
  <2> QED
    BY <1>2, <2>1, <2>3, SeqEqual
<1> QED
  BY <1>1, <1>2, ConcatAssociative

\* A call entered above the others adds itself to the pending ones or nothing.
LEMMA PendingPush ==
  ASSUME NEW S, NEW s \in Seq(S), NEW f \in S
  PROVE  /\ IsFiniteSet(Pending(s)) /\ Cardinality(Pending(s)) \in Nat
         /\ Cardinality(Pending(<<f>> \o s)) =
              Cardinality(Pending(s)) + (IF Writes(f) THEN 1 ELSE 0)
<1> DEFINE t == <<f>> \o s
<1>1. IsFiniteSet(Pending(s))
  <2>1. IsFiniteSet(0 .. Len(s) - 1)
    BY FS_Interval
  <2> QED
    BY <2>1, FS_Subset DEF Pending
<1>2. Len(s) \notin Pending(s)
  BY DEF Pending
<1>3. Pending(t) = IF Writes(f) THEN Pending(s) \cup {Len(s)} ELSE Pending(s)
  <2>1. Len(t) = Len(s) + 1 /\ t[1] = f /\ Len(s) \in Nat
    BY Push
  <2>2. \A n \in 0 .. Len(s) - 1 : t[Len(t) - n] = s[Len(s) - n]
    <3> TAKE n \in 0 .. Len(s) - 1
    <3>1. Len(s) - n \in 1 .. Len(s) /\ Len(t) - n = (Len(s) - n) + 1
      BY <2>1
    <3> QED
      BY <3>1, Push
  <2>3. t[Len(t) - Len(s)] = f
    BY <2>1
  <2>4. \A n : n \in 0 .. Len(t) - 1 <=> n \in 0 .. Len(s) - 1 \/ n = Len(s)
    BY <2>1
  <2> HIDE DEF t
  <2> QED
    BY <2>2, <2>3, <2>4 DEF Pending
<1>4. Cardinality(Pending(s) \cup {Len(s)}) = Cardinality(Pending(s)) + 1
  BY <1>1, <1>2, FS_AddElement
<1>5. Cardinality(Pending(s)) \in Nat
  BY <1>1, FS_CardinalityType
<1> QED
  BY <1>1, <1>3, <1>4, <1>5

\* The innermost call goes on, returns, or enters another call.
LEMMA StackSteps ==
  ASSUME Shape, stack # <<>>
  PROVE  /\ Top \in FramesAt(cap)
         /\ Tail(stack) \in Seq(FramesAt(cap))
         /\ stack = <<Top>> \o Tail(stack)
         /\ Cardinality(Pending(Tail(stack))) \in Nat
         /\ Cardinality(Pending(stack)) =
              Cardinality(Pending(Tail(stack))) + (IF Writes(Top) THEN 1 ELSE 0)
<1>1. /\ Top \in FramesAt(cap)
      /\ Tail(stack) \in Seq(FramesAt(cap))
      /\ stack = <<Top>> \o Tail(stack)
  BY TopAndRest DEF Shape, Top
<1>2. /\ Cardinality(Pending(Tail(stack))) \in Nat
      /\ Cardinality(Pending(<<Top>> \o Tail(stack))) =
           Cardinality(Pending(Tail(stack))) + (IF Writes(Top) THEN 1 ELSE 0)
  BY <1>1, PendingPush
<1> QED
  BY <1>1, <1>2

\* The calls under way outlive a rehash: an index into the old table is one
\* into the new.
LEMMA FramesGrow ==
  ASSUME NEW c \in Nat
  PROVE  /\ FramesAt(c) \subseteq FramesAt(2 * c)
         /\ Seq(FramesAt(c)) \subseteq Seq(FramesAt(2 * c))
<1>1. FramesAt(c) \subseteq FramesAt(2 * c)
  <2>1. 0 .. c - 1 \subseteq 0 .. 2 * c - 1
    OBVIOUS
  <2>2. SearchFrames(c) \subseteq SearchFrames(2 * c)
    BY <2>1 DEF SearchFrames
  <2>3. SetFrames(c) \subseteq SetFrames(2 * c)
    BY <2>1 DEF SetFrames
  <2> QED
    BY <2>2, <2>3 DEF FramesAt
<1> QED
  BY <1>1, SeqMonotonic

LEMMA Slots ==
  ASSUME NEW c \in Nat
  PROVE  Entries(c) \in [0 .. c - 1 -> KeySlot]
BY MapAssumption DEF Entries, KeySlot, Slot

LEMMA UsedFinite ==
  ASSUME Shape
  PROVE  IsFiniteSet(Used) /\ Cardinality(Used) \in Nat
<1>1. IsFiniteSet(0 .. cap - 1)
  BY FS_Interval DEF Shape
<1>2. Used \subseteq 0 .. cap - 1
  BY DEF Used
<1> QED
  BY <1>1, <1>2, FS_Subset, FS_CardinalityType

LEMMA HomeIn ==
  ASSUME Shape, NEW k \in Keys
  PROVE  Home(k) \in 0 .. cap - 1
<1>1. Hash[k] \in Nat /\ cap \in Nat \ {0}
  BY MapAssumption DEF Shape
<1> QED
  BY <1>1 DEF Home
-----------------------------------------------------------------------------
(* The steps. *)

\* A call that reads the table only.
LEMMA ReadSteps ==
  ASSUME Shape, Counted,
         \/ GetMiss \/ GetHit \/ UnsetMiss \/ SearchNext
         \/ SetPass \/ SetResume \/ RehashSkip \/ RehashDone
  PROVE  Shape' /\ Counted'
<1> DEFINE S == FramesAt(cap)
<1>1. stack # <<>> /\ UNCHANGED <<cap, len, slots>>
  BY DEF GetMiss, GetHit, UnsetMiss, SearchNext, SetPass, SetResume, RehashSkip,
     RehashDone, Searching, Setting, Rehashing
<1>2. Top \in S /\ Tail(stack) \in Seq(S) /\ stack = <<Top>> \o Tail(stack)
  BY <1>1, StackSteps
<1>3. Cardinality(Used)' = Cardinality(Used) /\ Cardinality(Used) \in Nat /\ len \in Nat
  BY <1>1, UsedFinite DEF Used, Shape
<1>p. /\ Cardinality(Pending(Tail(stack))) \in Nat
      /\ Cardinality(Pending(stack)) =
           Cardinality(Pending(Tail(stack))) + (IF Writes(Top) THEN 1 ELSE 0)
  BY <1>1, StackSteps
<1>4. cap \in Nat \ {0} /\ slots \in [0 .. cap - 1 -> KeySlot]
  BY DEF Shape
<1>5. CASE GetMiss \/ GetHit \/ UnsetMiss \/ RehashDone
  <2>1. stack' = Tail(stack)
    BY <1>5 DEF GetMiss, GetHit, UnsetMiss, RehashDone, Return
  <2>2. Counted'
    BY <1>1, <1>3, <1>p, <2>1 DEF Counted
  <2>3. ret' = <<>> \/ ret' \in Keys \X (Vals \cup {NONE})
    <3>1. CASE GetMiss \/ GetHit
      <4>1. Top \in SearchFrames(cap)
        BY <1>2, <3>1 DEF GetMiss, GetHit, Searching, FramesAt, SetFrames, RehashFrames
      <4>2. Top.key \in Keys /\ slots[Top.i] \in KeySlot
        BY <1>4, <4>1 DEF SearchFrames
      <4> QED
        BY <3>1, <4>2 DEF GetMiss, GetHit, KeySlot, Slot
    <3>2. CASE UnsetMiss \/ RehashDone
      BY <3>2 DEF UnsetMiss, RehashDone, Shape
    <3> QED
      BY <1>5, <3>1, <3>2
  <2> QED
    BY <1>1, <1>2, <2>1, <2>2, <2>3 DEF Shape
<1>6. CASE SearchNext \/ SetPass \/ SetResume \/ RehashSkip
  <2>1. PICK f \in S : stack' = <<f>> \o Tail(stack) /\ ~Writes(f)
    <3>1. CASE SearchNext
      <4>1. Top \in SearchFrames(cap)
        BY <1>2, <3>1 DEF SearchNext, Searching, FramesAt, SetFrames, RehashFrames
      <4>2. Probe(Top) \in SearchFrames(cap)
        BY <1>4, <4>1 DEF SearchFrames, Probe
      <4>3. Probe(Top) \in S /\ ~Writes(Probe(Top))
        BY <4>2 DEF FramesAt, SearchFrames, Writes
      <4> QED
        BY <4>3, <3>1 DEF SearchNext, GoOn
    <3>2. CASE SetPass
      <4>1. Top \in SetFrames(cap) /\ Top.at = "probe"
        BY <1>2, <3>2 DEF SetPass, Setting, FramesAt, SearchFrames, RehashFrames
      <4>2. Probe(Top) \in SetFrames(cap) /\ Probe(Top).at = "probe"
        BY <1>4, <4>1 DEF SetFrames, Probe
      <4>3. Probe(Top) \in S /\ ~Writes(Probe(Top))
        BY <4>2 DEF FramesAt, Writes
      <4> QED
        BY <4>3, <3>2 DEF SetPass, GoOn
    <3>3. CASE SetResume
      <4> DEFINE f == [Probe(Top) EXCEPT !.at = "probe"]
      <4>1. Top \in SetFrames(cap)
        BY <1>2, <3>3 DEF SetResume, Setting, FramesAt, SearchFrames, RehashFrames
      <4>a. Probe(Top) \in SetFrames(cap)
        BY <1>4, <4>1 DEF SetFrames, Probe
      <4>2. f \in SetFrames(cap) /\ f.at = "probe"
        BY <4>a DEF SetFrames
      <4>3. f \in S /\ ~Writes(f)
        BY <4>2 DEF FramesAt, Writes
      <4> QED
        BY <4>3, <3>3 DEF SetResume, GoOn
    <3>4. CASE RehashSkip
      <4> DEFINE f == [Top EXCEPT !.j = @ + 1]
      <4>1. Top \in RehashFrames
        BY <1>2, <3>4 DEF RehashSkip, Rehashing, FramesAt, SearchFrames, SetFrames
      <4>2. f \in RehashFrames /\ f.op = "rehash"
        BY <4>1 DEF RehashFrames
      <4>3. f \in S /\ ~Writes(f)
        BY <4>2 DEF FramesAt, Writes
      <4> QED
        BY <4>3, <3>4 DEF RehashSkip, GoOn
    <3> QED
      BY <1>6, <3>1, <3>2, <3>3, <3>4
  <2>2. stack' \in Seq(S)
    BY <1>2, <2>1, Push
  <2>3. Counted'
    <3>1. Cardinality(Pending(<<f>> \o Tail(stack))) = Cardinality(Pending(Tail(stack)))
      <4>1. Tail(stack) \in Seq(S) /\ f \in S /\ ~Writes(f)
        BY <1>2, <2>1
      <4> HIDE DEF S
      <4>2. Cardinality(Pending(<<f>> \o Tail(stack))) =
              Cardinality(Pending(Tail(stack))) + (IF Writes(f) THEN 1 ELSE 0)
        BY <4>1, PendingPush
      <4> QED
        BY <1>p, <4>1, <4>2
    <3> QED
      BY <1>1, <1>3, <1>p, <2>1, <3>1 DEF Counted
  <2>4. ret' = ret
    BY <1>6 DEF SearchNext, SetPass, SetResume, RehashSkip
  <2> QED
    BY <1>1, <2>2, <2>3, <2>4 DEF Shape
<1> QED
  BY <1>5, <1>6

\* A client's call.
LEMMA CallSteps ==
  ASSUME Shape, Counted, Client
  PROVE  Shape' /\ Counted'
<1> DEFINE S == FramesAt(cap)
<1>1. stack = <<>> /\ UNCHANGED <<cap, len, slots, ret>>
  BY DEF Client, CallGet, CallSet, CallUnset
<1>2. PICK f \in S : stack' = <<f>> /\ ~Writes(f)
  <2>1. CASE \E k \in Keys : \E v \in Vals : CallSet(k, v)
    <3>1. PICK k \in Keys, v \in Vals : CallSet(k, v)
      BY <2>1
    <3>2. SetFrame(k, v) \in SetFrames(cap) /\ ~Writes(SetFrame(k, v))
      BY HomeIn DEF SetFrame, SetFrames, Writes
    <3> QED
      BY <3>1, <3>2 DEF CallSet, FramesAt
  <2>2. CASE \E k \in Keys : CallGet(k) \/ CallUnset(k)
    <3>1. PICK k \in Keys : CallGet(k) \/ CallUnset(k)
      BY <2>2
    <3>2. PICK o \in {"get", "unset"} :
            stack' = <<[op |-> o, key |-> k, i |-> Home(k)]>>
      BY <3>1 DEF CallGet, CallUnset
    <3>3. [op |-> o, key |-> k, i |-> Home(k)] \in SearchFrames(cap)
      BY HomeIn DEF SearchFrames
    <3>4. ~Writes([op |-> o, key |-> k, i |-> Home(k)])
      BY DEF Writes
    <3> QED
      BY <3>2, <3>3, <3>4 DEF FramesAt
  <2> QED
    BY <2>1, <2>2, MapAssumption DEF Client
<1>3. <<>> \in Seq(S) /\ stack' = <<f>> \o <<>>
  BY <1>2
<1>4. /\ stack' \in Seq(S)
      /\ Cardinality(Pending(stack')) = Cardinality(Pending(stack))
      /\ Cardinality(Pending(stack)) \in Nat
  <2> HIDE DEF S
  <2>1. /\ Cardinality(Pending(<<>>)) \in Nat
        /\ Cardinality(Pending(<<f>> \o <<>>)) =
             Cardinality(Pending(<<>>)) + (IF Writes(f) THEN 1 ELSE 0)
    BY <1>3, PendingPush
  <2>2. <<f>> \in Seq(S)
    OBVIOUS
  <2> QED
    BY <1>1, <1>2, <1>3, <2>1, <2>2
<1> QED
  BY <1>1, <1>4 DEF Shape, Counted, Used

\* Writing one slot uses one more slot at most.
LEMMA WriteSlot ==
  ASSUME Shape, NEW n \in 0 .. cap - 1, NEW s \in KeySlot,
         slots' = [slots EXCEPT ![n] = s], cap' = cap
  PROVE  /\ slots' \in [0 .. cap - 1 -> KeySlot]
         /\ Cardinality(Used') \in Nat
         /\ Cardinality(Used') <= Cardinality(Used) + 1
         /\ slots[n].key # FREE => Cardinality(Used') <= Cardinality(Used)
<1>1. slots \in [0 .. cap - 1 -> KeySlot]
  BY DEF Shape
<1>2. Used' \subseteq Used \cup {n} /\ (n \in Used => Used' \subseteq Used)
  BY <1>1 DEF Used
<1>3. /\ IsFiniteSet(Used) /\ Cardinality(Used) \in Nat
      /\ IsFiniteSet(Used \cup {n})
      /\ Cardinality(Used \cup {n}) <= Cardinality(Used) + 1
  <2>1. IsFiniteSet(Used) /\ Cardinality(Used) \in Nat
    BY UsedFinite
  <2>2. /\ IsFiniteSet(Used \cup {n})
        /\ \/ Cardinality(Used \cup {n}) = Cardinality(Used)
           \/ Cardinality(Used \cup {n}) = Cardinality(Used) + 1
    BY <2>1, FS_AddElement
  <2> QED
    BY <2>1, <2>2
<1>4. /\ Cardinality(Used') \in Nat
      /\ Cardinality(Used') <= Cardinality(Used \cup {n})
      /\ n \in Used => Cardinality(Used') <= Cardinality(Used)
  BY <1>2, <1>3, FS_Subset, FS_CardinalityType
<1>5. Cardinality(Used \cup {n}) \in Nat
  BY <1>3, FS_CardinalityType
<1> QED
  BY <1>1, <1>3, <1>4, <1>5 DEF Used

\* A call that writes a slot and returns.
LEMMA WriteSteps ==
  ASSUME Shape, Counted, SetVacant \/ SetWrite \/ SetOverwrite \/ UnsetHit
  PROVE  Shape' /\ Counted'
<1> DEFINE S == FramesAt(cap)
<1>1. stack # <<>> /\ UNCHANGED <<cap, ret>> /\ stack' = Tail(stack)
  BY DEF SetVacant, SetWrite, SetOverwrite, UnsetHit, Searching, Setting, Return
<1>2. /\ Top \in S /\ Tail(stack) \in Seq(S)
      /\ Cardinality(Pending(Tail(stack))) \in Nat
      /\ Cardinality(Pending(stack)) =
           Cardinality(Pending(Tail(stack))) + (IF Writes(Top) THEN 1 ELSE 0)
  BY <1>1, StackSteps
<1>3. Top.op # "rehash"
  BY DEF SetVacant, SetWrite, SetOverwrite, UnsetHit, Searching, Setting
<1>4. Top \in SearchFrames(cap) \cup SetFrames(cap) /\ Top.i \in 0 .. cap - 1
  BY <1>2, <1>3 DEF FramesAt, RehashFrames, SearchFrames, SetFrames
<1>5. slots \in [0 .. cap - 1 -> KeySlot] /\ slots[Top.i] \in KeySlot /\ len \in Nat
  BY <1>4 DEF Shape
<1>6. Cardinality(Used) \in Nat
  BY UsedFinite
<1>7. CASE SetVacant \/ SetWrite
  <2> DEFINE s == [key |-> Top.key, val |-> Top.val]
  <2>1. slots' = [slots EXCEPT ![Top.i] = s] /\ Top.op = "set"
    BY <1>7 DEF SetVacant, SetWrite, Write, Setting
  <2>2. Top \in SetFrames(cap)
    BY <1>4, <2>1 DEF SearchFrames
  <2>3. s \in KeySlot
    BY <2>2 DEF SetFrames, KeySlot, Slot
  <2>4. /\ slots' \in [0 .. cap - 1 -> KeySlot]
        /\ Cardinality(Used') \in Nat
        /\ Cardinality(Used') <= Cardinality(Used) + 1
    <3> HIDE DEF s
    <3> QED
      BY <1>1, <1>4, <2>1, <2>3, WriteSlot
  <2>5. \/ len' = len + 1
        \/ len' = len /\ Writes(Top)
    BY <1>7 DEF SetVacant, SetWrite, Setting, Writes
  <2>6. len' \in Nat
    BY <1>5, <2>5
  <2>7. Counted'
    BY <1>1, <1>2, <1>5, <1>6, <2>4, <2>5 DEF Counted
  <2> QED
    BY <1>1, <1>2, <2>4, <2>6, <2>7 DEF Shape
<1>8. CASE SetOverwrite \/ UnsetHit
  <2>1. len' = len /\ slots[Top.i].key # FREE
    BY <1>8, MapAssumption DEF SetOverwrite, UnsetHit, Hit, Stored
  <2>2. PICK s \in KeySlot : slots' = [slots EXCEPT ![Top.i] = s]
    <3>1. CASE SetOverwrite
      <4>1. Top \in SetFrames(cap)
        BY <1>4, <3>1 DEF SetOverwrite, Setting, SearchFrames
      <4>2. [slots[Top.i] EXCEPT !.val = Top.val] \in KeySlot
        BY <1>5, <4>1 DEF SetFrames, KeySlot, Slot
      <4>3. slots' = [slots EXCEPT ![Top.i] = [slots[Top.i] EXCEPT !.val = Top.val]]
        BY <1>5, <3>1 DEF SetOverwrite
      <4> QED
        BY <4>2, <4>3
    <3>2. CASE UnsetHit
      <4>1. [slots[Top.i] EXCEPT !.key = TOMB] \in KeySlot
        BY <1>5, MapAssumption DEF KeySlot, Slot
      <4>2. slots' = [slots EXCEPT ![Top.i] = [slots[Top.i] EXCEPT !.key = TOMB]]
        BY <1>5, <3>2 DEF UnsetHit
      <4> QED
        BY <4>1, <4>2
    <3> QED
      BY <1>8, <3>1, <3>2
  <2>3. /\ slots' \in [0 .. cap - 1 -> KeySlot]
        /\ Cardinality(Used') \in Nat
        /\ Cardinality(Used') <= Cardinality(Used)
    BY <1>1, <1>4, <2>1, <2>2, WriteSlot
  <2>4. Counted'
    BY <1>1, <1>2, <1>5, <1>6, <2>1, <2>3 DEF Counted
  <2> QED
    BY <1>1, <1>2, <1>5, <2>1, <2>3, <2>4 DEF Shape
<1> QED
  BY <1>7, <1>8

\* Entering __rehash: the new table is empty, so only what is pending counts.
LEMMA GrowSteps ==
  ASSUME Shape, Counted, SetVacantRehash \/ SetPassRehash
  PROVE  Shape' /\ Counted'
<1> DEFINE S == FramesAt(cap)
           S2 == FramesAt(2 * cap)
           at == IF SetVacantRehash THEN "write" ELSE "next"
           f == [Top EXCEPT !.at = at]
           g == [op |-> "rehash", old |-> slots, j |-> 0, at |-> "loop"]
<1>1. /\ stack # <<>> /\ Top.op = "set" /\ Top.at = "probe"
      /\ ret' = ret
      /\ cap' = 2 * cap /\ slots' = Entries(2 * cap)
      /\ stack' = <<g, f>> \o Tail(stack)
  BY DEF SetVacantRehash, SetPassRehash, EnterRehash, Setting, Vacant
<1>2. /\ Top \in S /\ Tail(stack) \in Seq(S)
      /\ Cardinality(Pending(Tail(stack))) \in Nat
      /\ Cardinality(Pending(stack)) = Cardinality(Pending(Tail(stack)))
  BY <1>1, StackSteps DEF Writes
<1>3. cap \in Nat \ {0} /\ slots \in [0 .. cap - 1 -> KeySlot] /\ len \in Nat
  BY DEF Shape
<1>4. Top \in SetFrames(cap)
  BY <1>1, <1>2 DEF FramesAt, RehashFrames, SearchFrames
<1>5. f \in SetFrames(cap) /\ f.op = "set" /\ f.at = at
  BY <1>4 DEF SetFrames
<1>6. f \in S2 /\ Tail(stack) \in Seq(S2)
  BY <1>2, <1>3, <1>5, FramesGrow DEF FramesAt
<1>7. g \in S2 /\ ~Writes(g)
  BY <1>3 DEF FramesAt, RehashFrames, Writes
<1>8. len' \in Nat /\ len' = len + (IF Writes(f) THEN 1 ELSE 0)
  BY <1>3, <1>5 DEF SetVacantRehash, SetPassRehash, Writes, Setting, Vacant
<1>9. /\ stack' \in Seq(S2)
      /\ Cardinality(Pending(stack')) =
           Cardinality(Pending(stack)) + (IF Writes(f) THEN 1 ELSE 0)
  <2> HIDE DEF S2, f, g
  <2>1. stack' = <<g>> \o (<<f>> \o Tail(stack))
    BY <1>1, <1>6, <1>7, PushTwo
  <2>2. <<f>> \o Tail(stack) \in Seq(S2) /\ stack' \in Seq(S2)
    BY <1>6, <1>7, <2>1, Push
  <2>3. Cardinality(Pending(<<f>> \o Tail(stack))) =
          Cardinality(Pending(Tail(stack))) + (IF Writes(f) THEN 1 ELSE 0)
    BY <1>6, PendingPush
  <2>4. /\ Cardinality(Pending(stack')) =
             Cardinality(Pending(<<f>> \o Tail(stack))) + (IF Writes(g) THEN 1 ELSE 0)
        /\ Cardinality(Pending(<<f>> \o Tail(stack))) \in Nat
    BY <1>7, <2>1, <2>2, PendingPush
  <2> QED
    BY <1>2, <1>7, <2>2, <2>3, <2>4
<1>10. Cardinality(Used') = 0
  <2>1. Used' = {}
    BY <1>1, <1>3 DEF Used, Entries
  <2> QED
    BY <2>1, FS_EmptySet
<1>11. Counted'
  <2> HIDE DEF f
  <2> QED
    BY <1>2, <1>3, <1>8, <1>9, <1>10, UsedFinite DEF Counted
<1>12. slots' \in [0 .. 2 * cap - 1 -> KeySlot] /\ 2 * cap \in Nat \ {0}
  BY <1>1, <1>3, Slots
<1> QED
  BY <1>1, <1>8, <1>9, <1>11, <1>12 DEF Shape

\* __rehash hands an old entry to set_val and counts it afterwards.
LEMMA RehashSteps ==
  ASSUME Shape, Counted, RehashMove \/ RehashMoved
  PROVE  Shape' /\ Counted'
<1> DEFINE S == FramesAt(cap)
<1>1. /\ stack # <<>> /\ Top.op = "rehash" /\ UNCHANGED <<cap, slots, ret>>
  BY DEF RehashMove, RehashMoved, Rehashing
<1>2. /\ Top \in S /\ Tail(stack) \in Seq(S)
      /\ Cardinality(Pending(Tail(stack))) \in Nat
      /\ Cardinality(Pending(stack)) = Cardinality(Pending(Tail(stack)))
  BY <1>1, StackSteps DEF Writes
<1>3. Top \in RehashFrames
  BY <1>1, <1>2 DEF FramesAt, SearchFrames, SetFrames
<1>4. Cardinality(Used') = Cardinality(Used) /\ Cardinality(Used) \in Nat /\ len \in Nat
  BY <1>1, UsedFinite DEF Used, Shape
<1>5. CASE RehashMove
  <2> DEFINE f == SetFrame(OldSlot.key, OldSlot.val)
             g == [Top EXCEPT !.at = "moved"]
  <2>1. stack' = <<f, g>> \o Tail(stack) /\ len' = len
    BY <1>5 DEF RehashMove
  <2>2. OldSlot \in KeySlot /\ OldSlot.key \in Keys
    BY <1>3, <1>5 DEF RehashMove, RehashFrames, OldSlot
  <2>3. f \in S /\ ~Writes(f)
    BY <2>2, HomeIn DEF SetFrame, FramesAt, SetFrames, Writes, KeySlot
  <2>4. g \in S /\ ~Writes(g)
    BY <1>3 DEF FramesAt, RehashFrames, Writes
  <2> HIDE DEF S, f, g
  <2>5. stack' = <<f>> \o (<<g>> \o Tail(stack))
    BY <1>2, <2>1, <2>3, <2>4, PushTwo
  <2>6. <<g>> \o Tail(stack) \in Seq(S) /\ stack' \in Seq(S)
    BY <1>2, <2>3, <2>4, <2>5, Push
  <2>7. Cardinality(Pending(<<g>> \o Tail(stack))) =
          Cardinality(Pending(Tail(stack))) + (IF Writes(g) THEN 1 ELSE 0)
    BY <1>2, <2>4, PendingPush
  <2>8. Cardinality(Pending(stack')) =
          Cardinality(Pending(<<g>> \o Tail(stack))) + (IF Writes(f) THEN 1 ELSE 0)
    BY <2>3, <2>5, <2>6, PendingPush
  <2>9. Counted'
    BY <1>2, <1>4, <2>1, <2>3, <2>4, <2>7, <2>8 DEF Counted
  <2> QED
    BY <1>1, <1>4, <2>1, <2>6, <2>9 DEF Shape, S
<1>6. CASE RehashMoved
  <2> DEFINE f == [Top EXCEPT !.j = @ + 1, !.at = "loop"]
  <2>1. stack' = <<f>> \o Tail(stack) /\ len' = len + 1
    BY <1>6 DEF RehashMoved, GoOn
  <2>2. f \in S /\ ~Writes(f)
    <3>1. [Top EXCEPT !.j = @ + 1] \in RehashFrames
      BY <1>3 DEF RehashFrames
    <3>2. f \in RehashFrames
      BY <3>1 DEF RehashFrames
    <3>3. f.op = "rehash"
      BY <3>2 DEF RehashFrames
    <3> QED
      BY <3>2, <3>3 DEF FramesAt, Writes
  <2> HIDE DEF S, f
  <2>3. stack' \in Seq(S)
    BY <1>2, <2>1, <2>2, Push
  <2>4. Cardinality(Pending(stack')) = Cardinality(Pending(Tail(stack)))
    <3>1. Cardinality(Pending(<<f>> \o Tail(stack))) =
            Cardinality(Pending(Tail(stack))) + (IF Writes(f) THEN 1 ELSE 0)
      BY <1>2, <2>2, PendingPush
    <3> QED
      BY <1>2, <2>1, <2>2, <3>1
  <2>5. Counted'
    BY <1>2, <1>4, <2>1, <2>4 DEF Counted
  <2> QED
    BY <1>1, <1>4, <2>1, <2>3, <2>5 DEF Shape, S
<1> QED
  BY <1>5, <1>6
-----------------------------------------------------------------------------
LEMMA ShapeInit == Init => Shape /\ Counted
<1> SUFFICES ASSUME Init PROVE Shape /\ Counted
  OBVIOUS
<1>1. InitialCap \in Nat \ {0}
  BY MapAssumption
<1>2. Shape
  BY <1>1, Slots DEF Init, Shape
<1>3. Used = {} /\ Pending(stack) = {}
  BY <1>1 DEF Init, Used, Entries, Pending
<1> QED
  BY <1>2, <1>3, FS_EmptySet DEF Init, Counted

LEMMA ShapeStep == Shape /\ Counted /\ [Next]_vars => Shape' /\ Counted'
<1> SUFFICES ASSUME Shape, Counted, [Next]_vars PROVE Shape' /\ Counted'
  OBVIOUS
<1>1. CASE UNCHANGED vars
  BY <1>1 DEF vars, Shape, Counted, Used, Pending, Writes
<1>2. CASE Client
  BY <1>2, CallSteps
<1>3. CASE \/ GetMiss \/ GetHit \/ UnsetMiss \/ SearchNext
           \/ SetPass \/ SetResume \/ RehashSkip \/ RehashDone
  BY <1>3, ReadSteps
<1>4. CASE SetVacant \/ SetWrite \/ SetOverwrite \/ UnsetHit
  BY <1>4, WriteSteps
<1>5. CASE SetVacantRehash \/ SetPassRehash
  BY <1>5, GrowSteps
<1>6. CASE RehashMove \/ RehashMoved
  BY <1>6, RehashSteps
<1> QED
  BY <1>1, <1>2, <1>3, <1>4, <1>5, <1>6 DEF Next, Work

THEOREM MapInvariant == Spec => [](Shape /\ Counted)
<1> QED
  BY ShapeInit, ShapeStep, PTL DEF Spec

\* However calls of set_val and __rehash nest (hashmap.c:21-34, 89-105), the
\* index that a suspended call holds stays inside the table it comes back to.
THEOREM MapTypes == Spec => []TypeOK
<1>1. Shape => TypeOK
  <2> SUFFICES ASSUME Shape PROVE TypeOK
    OBVIOUS
  <2>1. /\ cap \in Nat \ {0} /\ len \in Nat
        /\ slots \in [0 .. cap - 1 -> Slot]
        /\ ret = <<>> \/ ret \in Keys \X (Vals \cup {NONE})
    BY DEF Shape, KeySlot
  <2>2. ASSUME NEW n \in DOMAIN stack PROVE stack[n] \in FramesAt(cap)
    BY DEF Shape
  <2>3. ASSUME NEW c \in Nat, NEW f \in [0 .. c - 1 -> KeySlot]
        PROVE  f \in [DOMAIN f -> Slot]
    BY DEF KeySlot
  <2>4. ASSUME NEW f \in FramesAt(cap)
        PROVE  /\ f.op \in {"get", "unset", "set", "rehash"}
               /\ f.op # "rehash" => f.i \in 0 .. cap - 1 /\ f.key \in Keys
               /\ f.op = "set" =>
                    f.val \in Vals /\ f.at \in {"probe", "write", "next"}
               /\ f.op = "rehash" =>
                    /\ f.at \in {"loop", "moved"}
                    /\ f.old \in [DOMAIN f.old -> Slot]
                    /\ f.j \in Nat
    BY <2>3 DEF FramesAt, SearchFrames, SetFrames, RehashFrames
  <2> QED
    BY <2>1, <2>2, <2>4 DEF TypeOK
<1> QED
  BY <1>1, MapInvariant, PTL

\* hm->len never falls behind the slots in use, whichever entries are unset,
\* moved or counted twice (hashmap.c:30-31, 92-99).
THEOREM MapLenCoversUsed == Spec => []LenCoversUsed
<1>1. Shape /\ Counted => LenCoversUsed
  <2> SUFFICES ASSUME Shape, Counted PROVE LenCoversUsed
    OBVIOUS
  <2>1. Cardinality(Used) \in Nat /\ len \in Nat
    BY UsedFinite DEF Shape
  <2>2. Cardinality(Pending(stack)) \in Nat
    <3>1. stack \in Seq(FramesAt(cap))
      BY DEF Shape
    <3>3. IsFiniteSet(Pending(stack))
      <4>1. Len(stack) \in Nat
        BY <3>1
      <4>2. IsFiniteSet(0 .. Len(stack) - 1)
        BY <4>1, FS_Interval
      <4> QED
        BY <4>2, FS_Subset DEF Pending
    <3> QED
      BY <3>3, FS_CardinalityType
  <2> QED
    BY <2>1, <2>2 DEF Counted, LenCoversUsed, Used
<1> QED
  BY <1>1, MapInvariant, PTL

-----------------------------------------------------------------------------
(* Below the load at which the map grows, with no key unset: the interpreter's *)
(* tables of globals, methods and fields.                                     *)

Steady == MaxCap <= InitialCap /\ Extends = {} /\ UnsetKeys = {}

\* What % means.
LEMMA DivMod ==
  ASSUME NEW a \in Nat, NEW c \in Nat \ {0}
  PROVE  a = c * (a \div c) + (a % c) /\ a % c \in 0 .. c - 1 /\ a \div c \in Nat
OBVIOUS

\* A number has one remainder.
LEMMA ModUnique ==
  ASSUME NEW c \in Nat \ {0}, NEW p \in Int, NEW q \in Int,
         NEW r \in 0 .. c - 1, NEW s \in 0 .. c - 1,
         c * p + r = c * q + s
  PROVE  r = s
<1>1. CASE p = q
  BY <1>1
<1>2. CASE p > q
  <2>1. p - q >= 1 /\ p - q \in Nat
    BY <1>2
  <2>2. c * (p - q) >= c
    BY <2>1
  <2>3. c * (p - q) = c * p - c * q
    OBVIOUS
  <2> QED BY <2>2, <2>3
<1>3. CASE p < q
  <2>1. q - p >= 1 /\ q - p \in Nat
    BY <1>3
  <2>2. c * (q - p) >= c
    BY <2>1
  <2>3. c * (q - p) = c * q - c * p
    OBVIOUS
  <2> QED BY <2>2, <2>3
<1> QED BY <1>1, <1>2, <1>3

\* A probe path: d steps on from a, once round at most.
LEMMA ModAdd ==
  ASSUME NEW a \in Nat, NEW c \in Nat \ {0}, NEW d \in 0 .. c - 1
  PROVE  (a + d) % c = IF (a % c) + d < c THEN (a % c) + d ELSE (a % c) + d - c
<1>1. PICK p \in Nat : a = c * p + (a % c)
  BY DivMod
<1>2. a % c \in 0 .. c - 1
  BY DivMod
<1>3. a + d \in Nat
  OBVIOUS
<1>4. PICK q \in Nat : a + d = c * q + ((a + d) % c)
  BY <1>3, DivMod
<1>5. (a + d) % c \in 0 .. c - 1
  BY <1>3, DivMod
<1>6. ASSUME NEW h \in 0 .. c - 1, NEW r \in 0 .. c - 1,
             a = c * p + h, a + d = c * q + r
      PROVE  r = IF h + d < c THEN h + d ELSE h + d - c
  <2>1. CASE h + d < c
    <3>1. h + d \in 0 .. c - 1 /\ c * p + (h + d) = c * q + r
      BY <1>6, <2>1
    <3> QED
      BY <3>1, <2>1, ModUnique
  <2>2. CASE h + d >= c
    <3>1. h + d - c \in 0 .. c - 1
      BY <1>6, <2>2
    <3>2. PICK u : u = p + 1
      OBVIOUS
    <3>3. u \in Int /\ c * u + (h + d - c) = c * q + r
      BY <1>6, <3>2
    <3>4. h + d - c = r
      BY <3>1, <3>3, ModUnique
    <3> QED
      BY <3>4, <2>2
  <2> QED
    BY <2>1, <2>2
<1> QED
  BY <1>1, <1>2, <1>4, <1>5, <1>6

\* The first d slots on the path of k hold other keys.
Passed(k, d) == \A e \in 0 .. d - 1 : slots[Path(k, e)].key \in Keys \ {k}

\* Slot i is where a search for k arrives, past other keys only.
Reached(k, i) ==
  \E d \in 0 .. cap - 1 : Path(k, d) = i /\ Passed(k, d)

\* Every key is where a search for it arrives, and so is the call under way.
Probing ==
  /\ MaxCap <= cap
  /\ 2 * len < cap
  /\ \A i \in 0 .. cap - 1 :
       /\ slots[i].key # TOMB
       /\ \A k \in Keys : slots[i].key = k => Reached(k, i)
  /\ stack # <<>> =>
       /\ Tail(stack) = <<>>
       /\ \/ Top.op = "get"
          \/ Top.op = "set" /\ Top.at = "probe" /\ 2 * (len + 1) < cap
       /\ \A k, i : k = Top.key /\ i = Top.i => Reached(k, i)

MInv == Shape /\ Counted /\ Probing

LEMMA PathIs ==
  ASSUME Shape, NEW k \in Keys
  PROVE  /\ Home(k) \in 0 .. cap - 1
         /\ \A d \in 0 .. cap - 1 :
              /\ Path(k, d) = IF Home(k) + d < cap THEN Home(k) + d
                              ELSE Home(k) + d - cap
              /\ Path(k, d) \in 0 .. cap - 1
<1>1. Hash[k] \in Nat /\ cap \in Nat \ {0}
  BY MapAssumption DEF Shape
<1>2. Home(k) \in 0 .. cap - 1
  BY HomeIn
<1>3. \A d \in 0 .. cap - 1 :
        Path(k, d) = IF Home(k) + d < cap THEN Home(k) + d ELSE Home(k) + d - cap
  BY <1>1, ModAdd DEF Path, Home
<1> QED
  BY <1>1, <1>2, <1>3

\* The path of a key starts at its home, goes on by one slot at a time and meets
\* every slot.
LEMMA PathSteps ==
  ASSUME Shape, NEW k \in Keys
  PROVE  /\ Path(k, 0) = Home(k)
         /\ \A d \in 0 .. cap - 2 : (Path(k, d) + 1) % cap = Path(k, d + 1)
         /\ \A i \in 0 .. cap - 1 : \E d \in 0 .. cap - 1 : Path(k, d) = i
<1>1. cap \in Nat \ {0} /\ Home(k) \in 0 .. cap - 1
  BY PathIs DEF Shape
<1>2. \A d \in 0 .. cap - 1 :
        Path(k, d) = IF Home(k) + d < cap THEN Home(k) + d ELSE Home(k) + d - cap
  BY PathIs
<1>3. Path(k, 0) = Home(k)
  BY <1>1, <1>2
<1>4. ASSUME NEW d \in 0 .. cap - 2
      PROVE  (Path(k, d) + 1) % cap = Path(k, d + 1)
  <2>1. d \in 0 .. cap - 1 /\ d + 1 \in 0 .. cap - 1
    BY <1>1
  <2>2. /\ Path(k, d) \in 0 .. cap - 1
        /\ Path(k, d + 1) = IF Path(k, d) + 1 < cap THEN Path(k, d) + 1 ELSE 0
    BY <1>1, <1>2, <2>1
  <2>3. \A x \in 0 .. cap - 1 : (x + 1) % cap = IF x + 1 < cap THEN x + 1 ELSE 0
    <3> TAKE x \in 0 .. cap - 1
    <3>1. CASE x + 1 < cap
      BY <1>1, <3>1
    <3>2. CASE x + 1 = cap
      BY <1>1, <3>2
    <3> QED
      BY <1>1, <3>1, <3>2
  <2> QED
    BY <2>2, <2>3
<1>5. ASSUME NEW i \in 0 .. cap - 1
      PROVE  \E d \in 0 .. cap - 1 : Path(k, d) = i
  <2>1. CASE i >= Home(k)
    <3>1. i - Home(k) \in 0 .. cap - 1 /\ Path(k, i - Home(k)) = i
      BY <1>1, <1>2, <2>1
    <3> QED
      BY <3>1
  <2>2. CASE i < Home(k)
    <3>1. i + cap - Home(k) \in 0 .. cap - 1 /\ Path(k, i + cap - Home(k)) = i
      BY <1>1, <1>2, <2>2
    <3> QED
      BY <3>1
  <2> QED
    BY <1>1, <2>1, <2>2
<1> QED
  BY <1>3, <1>4, <1>5

\* The count leaves a slot free.
LEMMA FreeSlot ==
  ASSUME Shape, Counted, Probing
  PROVE  \E i \in 0 .. cap - 1 : slots[i].key = FREE
<1>1. SUFFICES ASSUME \A i \in 0 .. cap - 1 : slots[i].key # FREE PROVE FALSE
  OBVIOUS
<1>2. cap \in Nat \ {0} /\ len \in Nat /\ 2 * len < cap
  BY DEF Shape, Probing
<1>3. Used = 0 .. cap - 1
  BY <1>1 DEF Used
<1>4. Cardinality(0 .. cap - 1) = cap
  <2>1. 0 \in Int /\ cap - 1 \in Int /\ ~(0 > cap - 1)
    BY <1>2
  <2>2. Cardinality(0 .. cap - 1) = (cap - 1) - 0 + 1
    BY <2>1, FS_Interval
  <2> QED
    BY <1>2, <2>2
<1>5. Cardinality(Pending(stack)) \in Nat
  BY PendingPush DEF Shape
<1> QED
  BY <1>2, <1>3, <1>4, <1>5 DEF Counted

\* A search that has passed another key arrives at the next slot of its path.
LEMMA ProbeOn ==
  ASSUME Shape, Counted, Probing, NEW k \in Keys, NEW i \in 0 .. cap - 1,
         Reached(k, i), slots[i].key \in Keys \ {k}
  PROVE  Reached(k, (i + 1) % cap)
<1>1. PICK d \in 0 .. cap - 1 : Path(k, d) = i /\ Passed(k, d)
  BY DEF Reached
<1>2. cap \in Nat \ {0}
  BY DEF Shape
<1>3. Passed(k, d + 1)
  <2>1. \A e \in 0 .. (d + 1) - 1 : e \in 0 .. d - 1 \/ e = d
    BY <1>2
  <2> QED
    BY <1>1, <2>1 DEF Passed
<1>4. d \in 0 .. cap - 2
  <2>1. SUFFICES ASSUME d = cap - 1 PROVE FALSE
    BY <1>2
  <2>2. PICK f \in 0 .. cap - 1 : slots[Path(k, f)].key = FREE
    BY FreeSlot, PathSteps
  <2>3. f \in 0 .. (d + 1) - 1
    BY <1>2, <2>1
  <2> QED
    BY <1>3, <2>2, <2>3, MapAssumption DEF Passed
<1>5. Path(k, d + 1) = (i + 1) % cap
  BY <1>1, <1>4, PathSteps
<1> QED
  BY <1>2, <1>3, <1>4, <1>5 DEF Reached

\* A key has one slot, and no search for it arrives at another one's end.
LEMMA OneSlot ==
  ASSUME Shape, Probing, NEW k \in Keys, NEW i \in 0 .. cap - 1,
         NEW j \in 0 .. cap - 1, Reached(k, i), slots[j].key = k,
         slots[i].key \in {k, FREE}
  PROVE  i = j
<1>1. PICK d \in 0 .. cap - 1 : Path(k, d) = i /\ Passed(k, d)
  BY DEF Reached
<1>2. PICK e \in 0 .. cap - 1 : Path(k, e) = j /\ Passed(k, e)
  BY DEF Probing, Reached
<1>3. ~(d < e)
  <2>1. d < e => d \in 0 .. e - 1
    BY DEF Shape
  <2> QED
    BY <1>1, <1>2, <2>1, MapAssumption DEF Passed
<1>4. ~(e < d)
  <2>1. e < d => e \in 0 .. d - 1
    BY DEF Shape
  <2> QED
    BY <1>1, <1>2, <2>1 DEF Passed
<1>5. d = e
  BY <1>3, <1>4 DEF Shape
<1> QED
  BY <1>1, <1>2, <1>5

\* The one call under way.
LEMMA OneCall ==
  ASSUME Steady, MInv, stack # <<>>
  PROVE  /\ Top.key \in Keys /\ Top.i \in 0 .. cap - 1
         /\ Top.op = "set" => Top \in SetFrames(cap) /\ Top.at = "probe"
         /\ Top.op = "get" => Top \in SearchFrames(cap)
         /\ Top.op \in {"get", "set"}
         /\ Tail(stack) = <<>> /\ stack = <<Top>>
         /\ Reached(Top.key, Top.i)
         /\ Stored \in Keys \cup {FREE} /\ Stored # TOMB
         /\ Hit <=> Stored = Top.key
<1>1. /\ Top \in FramesAt(cap)
      /\ stack = <<Top>> \o Tail(stack)
  BY StackSteps DEF MInv
<1>2. /\ Tail(stack) = <<>> /\ Top.op \in {"get", "set"}
      /\ Top.op = "set" => Top.at = "probe"
      /\ Reached(Top.key, Top.i)
  BY DEF MInv, Probing
<1>3. /\ Top.op = "set" => Top \in SetFrames(cap)
      /\ Top.op = "get" => Top \in SearchFrames(cap)
  BY <1>1, <1>2 DEF FramesAt, SetFrames, SearchFrames, RehashFrames
<1>4. Top.key \in Keys /\ Top.i \in 0 .. cap - 1
  BY <1>2, <1>3 DEF SetFrames, SearchFrames
<1>5. stack = <<Top>>
  <2>1. <<Top>> \o <<>> = <<Top>>
    OBVIOUS
  <2> QED
    BY <1>1, <1>2, <2>1
<1>6. Stored \in Keys \cup {FREE} /\ Stored # TOMB
  BY <1>4 DEF MInv, Shape, Probing, Stored, KeySlot, Slot
<1>7. Hit <=> Stored = Top.key
  BY <1>4 DEF Hit, Matches, Steady
<1> QED
  BY <1>2, <1>3, <1>4, <1>5, <1>6, <1>7

\* The steps that are left, and what each does to the call under way.
LEMMA SteadySteps ==
  ASSUME Steady, MInv, Next
  PROVE  \/ Client /\ stack = <<>> /\ UNCHANGED <<cap, len, slots, ret>>
         \/ /\ stack # <<>> /\ stack' = <<>> /\ cap' = cap
            /\ GetMiss \/ GetHit \/ SetVacant \/ SetOverwrite
         \/ /\ stack # <<>> /\ stack' = <<Probe(Top)>>
            /\ UNCHANGED <<cap, len, slots, ret>>
            /\ Stored \in Keys \ {Top.key}
<1>1. CASE Client
  BY <1>1 DEF Client, CallSet, CallGet, CallUnset
<1>2. CASE Work
  <2>1. stack # <<>>
    BY <1>2 DEF Work, GetMiss, GetHit, UnsetMiss, UnsetHit, SearchNext, SetVacant,
       SetVacantRehash, SetWrite, SetOverwrite, SetPass, SetPassRehash, SetResume,
       RehashSkip, RehashMove, RehashMoved, RehashDone, Searching, Setting, Rehashing
  <2>2. /\ Top.op \in {"get", "set"}
        /\ Top.op = "set" => Top.at = "probe"
        /\ Tail(stack) = <<>> /\ stack = <<Top>>
        /\ Stored \in Keys \cup {FREE}
        /\ Hit <=> Stored = Top.key
    BY <2>1, OneCall
  <2>3. ~SetPassRehash
    <3>1. len \in Nat /\ cap \in Nat /\ 2 * len < cap
      BY DEF MInv, Probing, Shape
    <3> QED
      BY <3>1 DEF SetPassRehash, AtLoad
  <2>4. ~SetVacantRehash
    <3>1. SUFFICES ASSUME SetVacantRehash PROVE FALSE
      OBVIOUS
    <3>2. Top.op = "set" /\ AtLoad(len + 1, cap)
      BY <3>1 DEF SetVacantRehash, Setting
    <3>3. 2 * (len + 1) < cap
      BY <2>1, <3>2 DEF MInv, Probing
    <3>4. len \in Nat /\ cap \in Nat
      BY DEF MInv, Shape
    <3> QED
      BY <3>2, <3>3, <3>4 DEF AtLoad
  <2>5. GetMiss \/ GetHit \/ SetVacant \/ SetOverwrite \/ SearchNext \/ SetPass
    <3>1. ~UnsetMiss /\ ~UnsetHit
      BY <2>2 DEF UnsetMiss, UnsetHit, Searching
    <3>2. ~SetWrite /\ ~SetResume
      BY <2>2 DEF SetWrite, SetResume, Setting
    <3>3. ~RehashSkip /\ ~RehashMove /\ ~RehashMoved /\ ~RehashDone
      BY <2>2 DEF RehashSkip, RehashMove, RehashMoved, RehashDone, Rehashing
    <3> QED
      BY <1>2, <2>3, <2>4, <3>1, <3>2, <3>3 DEF Work
  <2>6. CASE SearchNext \/ SetPass
    <3>1. Stored # FREE /\ ~Hit
      BY <2>6 DEF SearchNext, SetPass, Miss, Vacant
    <3>2. stack' = <<Probe(Top)>> \o <<>> /\ UNCHANGED <<cap, len, slots, ret>>
      BY <2>2, <2>6 DEF SearchNext, SetPass, GoOn
    <3>3. <<Probe(Top)>> \o <<>> = <<Probe(Top)>>
      OBVIOUS
    <3> QED
      BY <2>1, <2>2, <3>1, <3>2, <3>3
  <2>7. CASE GetMiss \/ GetHit \/ SetVacant \/ SetOverwrite
    BY <2>1, <2>2, <2>7 DEF GetMiss, GetHit, SetVacant, SetOverwrite, Return
  <2> QED
    BY <2>5, <2>6, <2>7
<1> QED
  BY <1>1, <1>2 DEF Next

\* A table with the same keys has the same paths.
LEMMA SameKeys ==
  ASSUME NEW k, NEW i, cap' = cap, Shape,
         \A n \in 0 .. cap - 1 : slots'[n].key = slots[n].key,
         k \in Keys
  PROVE  Reached(k, i)' <=> Reached(k, i)
<1>1. \A d : Path(k, d)' = Path(k, d)
  BY DEF Path
<1>2. \A d \in 0 .. cap - 1 : Passed(k, d)' <=> Passed(k, d)
  <2> TAKE d \in 0 .. cap - 1
  <2>1. \A e \in 0 .. d - 1 : Path(k, e) \in 0 .. cap - 1
    <3>1. \A e \in 0 .. d - 1 : e \in 0 .. cap - 1
      BY DEF Shape
    <3> QED
      BY <3>1, PathIs
  <2> QED
    BY <1>1, <2>1 DEF Passed
<1> QED
  BY <1>1, <1>2 DEF Reached

\* Filling a free slot leaves every path up to a key as it was.
LEMMA FillFree ==
  ASSUME Shape, NEW n \in 0 .. cap - 1, slots[n].key = FREE, cap' = cap,
         \A x \in (0 .. cap - 1) \ {n} : slots'[x] = slots[x],
         NEW k \in Keys, NEW i, Reached(k, i)
  PROVE  Reached(k, i)'
<1>1. PICK d \in 0 .. cap - 1 : Path(k, d) = i /\ Passed(k, d)
  BY DEF Reached
<1>2. \A e : Path(k, e)' = Path(k, e)
  BY DEF Path
<1>3. \A e \in 0 .. d - 1 : Path(k, e) \in (0 .. cap - 1) \ {n}
  <2> TAKE e \in 0 .. d - 1
  <2>1. Path(k, e) \in 0 .. cap - 1
    <3>1. e \in 0 .. cap - 1
      BY DEF Shape
    <3> QED
      BY <3>1, PathIs
  <2>2. slots[Path(k, e)].key # FREE
    BY <1>1, MapAssumption DEF Passed
  <2> QED
    BY <2>1, <2>2
<1>4. Passed(k, d)'
  BY <1>1, <1>2, <1>3 DEF Passed
<1> QED
  BY <1>1, <1>2, <1>4 DEF Reached

\* A call begins at the home of its key.
LEMMA HomeReached ==
  ASSUME Shape, NEW k \in Keys
  PROVE  Reached(k, Home(k))
<1>1. 0 \in 0 .. cap - 1
  BY DEF Shape
<1>2. Path(k, 0) = Home(k)
  BY PathSteps
<1>3. Passed(k, 0)
  BY DEF Passed
<1> QED
  BY <1>1, <1>2, <1>3 DEF Reached

LEMMA ProbingStep ==
  ASSUME Steady, MInv, [Next]_vars
  PROVE  Probing'
<1>0. Shape /\ Counted /\ Probing /\ cap \in Nat \ {0} /\ len \in Nat
  BY DEF MInv, Shape
<1>1. CASE UNCHANGED vars
  BY <1>0, <1>1 DEF vars, Probing, Reached, Passed, Path, Top
<1>2. CASE Client /\ stack = <<>> /\ UNCHANGED <<cap, len, slots, ret>>
  <2>a. PICK k \in Keys : \E f :
          /\ stack' = <<f>> /\ f.key = k /\ f.i = Home(k)
          /\ \/ f.op = "get"
             \/ f.op = "set" /\ f.at = "probe" /\ ~AtLoad(len + 1, cap)
    <3>1. CASE \E k \in Keys : CallGet(k)
      BY <3>1 DEF CallGet
    <3>2. CASE \E k \in Keys : \E v \in Vals : CallSet(k, v)
      <4>1. PICK k \in Keys, v \in Vals : CallSet(k, v)
        BY <3>2
      <4>2. cap < MaxCap => FALSE
        BY <1>0, MapAssumption DEF Probing
      <4> QED
        BY <4>1, <4>2 DEF CallSet, SetFrame
    <3> QED
      BY <1>2, <3>1, <3>2 DEF Client, Steady
  <2>1. PICK f :
          /\ stack' = <<f>> /\ f.key = k /\ f.i = Home(k)
          /\ \/ f.op = "get"
             \/ f.op = "set" /\ f.at = "probe" /\ ~AtLoad(len + 1, cap)
    BY <2>a
  <2>2. Tail(stack') = <<>> /\ Top' = f
    BY <2>1 DEF Top
  <2>3. \A x \in Keys : \A i : Reached(x, i)' <=> Reached(x, i)
    BY <1>0, <1>2, SameKeys
  <2>4. \A i : i = f.i => Reached(k, i)'
    BY <1>0, <2>1, <2>3, HomeReached
  <2>5. f.op = "set" => 2 * (len + 1) < cap
    BY <1>0, <2>1 DEF AtLoad
  <2>6. /\ Top'.op = "get" \/ (Top'.op = "set" /\ Top'.at = "probe" /\ 2 * (len' + 1) < cap')
        /\ \A x, i : x = Top'.key /\ i = Top'.i => Reached(x, i)'
    BY <1>2, <2>1, <2>2, <2>4, <2>5
  <2>7. \A i \in 0 .. cap - 1 :
          /\ slots'[i].key # TOMB
          /\ \A x \in Keys : slots'[i].key = x => Reached(x, i)'
    BY <1>0, <1>2, <2>3 DEF Probing
  <2> QED
    BY <1>0, <1>2, <2>2, <2>6, <2>7 DEF Probing
<1>3. CASE /\ stack # <<>> /\ stack' = <<Probe(Top)>>
           /\ UNCHANGED <<cap, len, slots, ret>>
           /\ Stored \in Keys \ {Top.key}
  <2>1. /\ Top.key \in Keys /\ Top.i \in 0 .. cap - 1 /\ Reached(Top.key, Top.i)
        /\ Top.op = "set" => Top \in SetFrames(cap) /\ Top.at = "probe"
        /\ Top.op = "get" => Top \in SearchFrames(cap)
        /\ Top.op \in {"get", "set"}
    BY <1>3, OneCall
  <2>2. Reached(Top.key, (Top.i + 1) % cap)
    BY <1>0, <1>3, <2>1, ProbeOn DEF Stored
  <2>3. /\ Top' = Probe(Top) /\ Tail(stack') = <<>>
    BY <1>3 DEF Top
  <2>4. /\ Top'.key = Top.key /\ Top'.i = (Top.i + 1) % cap /\ Top'.op = Top.op
        /\ Top.op = "set" => Top'.at = Top.at
    BY <2>1, <2>3 DEF Probe, SetFrames, SearchFrames
  <2>5. \A x \in Keys : \A i : Reached(x, i)' <=> Reached(x, i)
    BY <1>0, <1>3, SameKeys
  <2>6. \A x, i : x = Top'.key /\ i = Top'.i => Reached(x, i)'
    BY <2>1, <2>2, <2>4, <2>5
  <2>7. Top.op = "set" => 2 * (len + 1) < cap
    BY <1>0, <1>3 DEF Probing
  <2>8. \A i \in 0 .. cap - 1 :
          /\ slots'[i].key # TOMB
          /\ \A x \in Keys : slots'[i].key = x => Reached(x, i)'
    BY <1>0, <1>3, <2>5 DEF Probing
  <2>9. Top'.op = "get" \/ (Top'.op = "set" /\ Top'.at = "probe" /\ 2 * (len' + 1) < cap')
    BY <1>3, <2>1, <2>4, <2>7
  <2> QED
    BY <1>0, <1>3, <2>3, <2>6, <2>8, <2>9 DEF Probing
<1>4. CASE /\ stack # <<>> /\ stack' = <<>> /\ cap' = cap
           /\ GetMiss \/ GetHit \/ SetOverwrite
  <2>1. len' = len /\ (\A n \in 0 .. cap - 1 : slots'[n].key = slots[n].key)
    <3>1. Top.i \in 0 .. cap - 1
      BY <1>4, OneCall
    <3>2. slots \in [0 .. cap - 1 -> KeySlot]
      BY <1>0 DEF Shape
    <3>3. CASE SetOverwrite
      BY <3>1, <3>2, <3>3 DEF SetOverwrite, KeySlot, Slot
    <3>4. CASE GetMiss \/ GetHit
      BY <3>4 DEF GetMiss, GetHit
    <3> QED
      BY <1>4, <3>3, <3>4
  <2>2. \A x \in Keys : \A i : Reached(x, i)' <=> Reached(x, i)
    BY <1>0, <1>4, <2>1, SameKeys
  <2>3. \A i \in 0 .. cap - 1 :
          /\ slots'[i].key # TOMB
          /\ \A x \in Keys : slots'[i].key = x => Reached(x, i)'
    BY <1>0, <2>1, <2>2 DEF Probing
  <2> QED
    BY <1>0, <1>4, <2>1, <2>3 DEF Probing
<1>5. CASE /\ stack # <<>> /\ stack' = <<>> /\ cap' = cap /\ SetVacant
  <2>1. /\ Top.key \in Keys /\ Top.i \in 0 .. cap - 1 /\ Reached(Top.key, Top.i)
        /\ Stored = FREE
    BY <1>5, OneCall DEF SetVacant, Vacant
  <2>2. /\ slots' = [slots EXCEPT ![Top.i] = [key |-> Top.key, val |-> Top.val]]
        /\ len' = len + 1 /\ 2 * (len + 1) < cap
    <3>1. ~AtLoad(len + 1, cap) /\ len' = len + 1 /\ Write
      BY <1>5 DEF SetVacant
    <3>2. len + 1 \in Nat
      BY <1>0
    <3> QED
      BY <1>0, <3>1, <3>2 DEF Write, AtLoad
  <2>3. /\ slots'[Top.i].key = Top.key
        /\ \A x \in (0 .. cap - 1) \ {Top.i} : slots'[x] = slots[x]
    BY <1>0, <2>1, <2>2 DEF Shape
  <2>4. \A x \in Keys : \A i : Reached(x, i) => Reached(x, i)'
    BY <1>0, <1>5, <2>1, <2>3, FillFree DEF Stored
  <2>6. \A x, i : x = Top.key /\ i = Top.i => Reached(x, i)'
    BY <2>1, <2>4
  <2>5. ASSUME NEW i \in 0 .. cap - 1
        PROVE  /\ slots'[i].key # TOMB
               /\ \A x \in Keys : slots'[i].key = x => Reached(x, i)'
    <3>1. CASE i = Top.i
      BY <2>1, <2>3, <2>6, <3>1, MapAssumption
    <3>2. CASE i # Top.i
      BY <1>0, <2>3, <2>4, <3>2 DEF Probing
    <3> QED
      BY <3>1, <3>2
  <2> QED
    BY <1>0, <1>5, <2>2, <2>5 DEF Probing
<1> QED
  BY <1>1, <1>2, <1>3, <1>4, <1>5, SteadySteps

LEMMA SteadyInvariant == Steady => (Spec => []MInv)
<1>1. Init /\ Steady => MInv
  <2> SUFFICES ASSUME Init, Steady PROVE MInv
    OBVIOUS
  <2>1. Shape /\ Counted
    BY ShapeInit
  <2>2. Probing
    BY MapAssumption DEF Init, Steady, Probing, Entries
  <2> QED
    BY <2>1, <2>2 DEF MInv
<1>2. Steady /\ MInv /\ [Next]_vars => MInv'
  BY ShapeStep, ProbingStep DEF MInv
<1>3. CASE Steady
  BY <1>1, <1>2, <1>3, PTL DEF Spec
<1> QED
  BY <1>3

\* Below the load at which the map grows and without unset, what set_val has
\* written is what get_val finds, whatever keys collide and wherever their paths
\* wrap (hashmap.c:89-123).
THEOREM MapFindable == Steady => (Spec => []Findable)
<1>1. Steady /\ MInv => Findable
  <2> SUFFICES ASSUME Steady, MInv, NEW i \in 0 .. cap - 1, NEW k \in Keys,
                      slots[i].key = k
               PROVE  Lookup(k) = slots[i].val
    BY DEF Findable
  <2>1. PICK d \in 0 .. cap - 1 : Path(k, d) = i /\ Passed(k, d)
    BY DEF MInv, Probing, Reached
  <2>2. ASSUME NEW e \in 0 .. cap - 1
        PROVE  (/\ Stops(k, slots[Path(k, e)].key)
                /\ \A f \in 0 .. e - 1 : ~Stops(k, slots[Path(k, f)].key)) <=> e = d
    <3>1. Stops(k, slots[Path(k, d)].key)
      BY <2>1 DEF Stops, Matches
    <3>2. \A f \in 0 .. d - 1 : ~Stops(k, slots[Path(k, f)].key)
      BY <2>1, MapAssumption DEF Passed, Stops, Matches, Steady
    <3>3. e < d \/ e = d \/ d < e
      BY DEF MInv, Shape
    <3>4. e < d => e \in 0 .. d - 1
      BY DEF MInv, Shape
    <3>5. d < e => d \in 0 .. e - 1
      BY DEF MInv, Shape
    <3> QED
      BY <3>1, <3>2, <3>3, <3>4, <3>5
  <2>3. (CHOOSE e \in 0 .. cap - 1 :
           /\ Stops(k, slots[Path(k, e)].key)
           /\ \A f \in 0 .. e - 1 : ~Stops(k, slots[Path(k, f)].key)) = d
    BY <2>2
  <2>4. \E e \in 0 .. cap - 1 : Stops(k, slots[Path(k, e)].key)
    BY <2>2
  <2>5. slots[Path(k, d)].key # FREE
    BY <2>1, MapAssumption
  <2> QED
    BY <2>1, <2>3, <2>4, <2>5 DEF Lookup
<1>2. CASE Steady
  BY <1>1, <1>2, SteadyInvariant, PTL
<1> QED
  BY <1>2

-----------------------------------------------------------------------------
(* The map implements KeyMap. *)

Image == [k \in Keys |-> IF Holds(k) = {} THEN NONE
                         ELSE slots[CHOOSE i \in Holds(k) : TRUE].val]

CallImage == IF stack = <<>> THEN <<>> ELSE Request(stack[Len(stack)])

\* A slot that holds a key has its value; a search that ends at a free slot has
\* found that there is none.
LEMMA ImageOf ==
  ASSUME MInv, NEW k \in Keys, NEW i \in 0 .. cap - 1
  PROVE  /\ slots[i].key = k => Holds(k) = {i} /\ Image[k] = slots[i].val
         /\ slots[i].key = FREE /\ Reached(k, i) => Holds(k) = {} /\ Image[k] = NONE
<1>0. Shape /\ Probing
  BY DEF MInv
<1>1. ASSUME slots[i].key = k PROVE Holds(k) = {i} /\ Image[k] = slots[i].val
  <2>1. Reached(k, i)
    BY <1>0, <1>1 DEF Probing
  <2>2. Holds(k) = {i}
    BY <1>0, <1>1, <2>1, OneSlot DEF Holds
  <2> QED
    BY <2>2 DEF Image
<1>2. ASSUME slots[i].key = FREE, Reached(k, i)
      PROVE  Holds(k) = {} /\ Image[k] = NONE
  <2>1. Holds(k) = {}
    BY <1>0, <1>2, OneSlot, MapAssumption DEF Holds
  <2> QED
    BY <2>1 DEF Image
<1> QED
  BY <1>1, <1>2

LEMMA MapStep ==
  ASSUME Steady, MInv, [Next]_vars
  PROVE  [Map!Next]_<<Image, CallImage, ret>>
<1>0. Shape /\ Counted /\ Probing
  BY DEF MInv
<1>1. CASE UNCHANGED vars
  BY <1>1 DEF vars, Image, CallImage, Holds, Request
<1>2. CASE Client /\ stack = <<>> /\ UNCHANGED <<cap, len, slots, ret>>
  <2>1. Image' = Image /\ CallImage = <<>>
    BY <1>2 DEF Image, Holds, CallImage
  <2>2. CASE \E k \in Keys : CallGet(k)
    <3>1. PICK k \in Keys : CallGet(k)
      BY <2>2
    <3>2. CallImage' = <<"get", k>>
      BY <3>1 DEF CallGet, CallImage, Request
    <3> QED
      BY <1>2, <2>1, <3>2 DEF Map!Next, Map!Call, Image, CallImage
  <2>3. CASE \E k \in Keys : \E v \in Vals : CallSet(k, v)
    <3>1. PICK k \in Keys, v \in Vals : CallSet(k, v)
      BY <2>3
    <3>2. CallImage' = <<"set", k, v>>
      BY <3>1 DEF CallSet, CallImage, Request, SetFrame
    <3> QED
      BY <1>2, <2>1, <3>2 DEF Map!Next, Map!Call, Image, CallImage
  <2> QED
    BY <1>2, <2>2, <2>3 DEF Client, Steady
<1>3. CASE /\ stack # <<>> /\ stack' = <<Probe(Top)>>
           /\ UNCHANGED <<cap, len, slots, ret>>
  <2>1. Image' = Image
    BY <1>3 DEF Image, Holds
  <2>2. /\ Top.op = "set" => Top \in SetFrames(cap)
        /\ Top.op = "get" => Top \in SearchFrames(cap)
        /\ Top.op \in {"get", "set"}
        /\ stack = <<Top>>
    BY <1>3, OneCall
  <2>3. Request(Probe(Top)) = Request(Top)
    BY <2>2 DEF Request, Probe, SetFrames, SearchFrames
  <2>4. CallImage = Request(Top) /\ CallImage' = Request(Probe(Top))
    <3>1. Len(<<Top>>) = 1 /\ <<Top>>[1] = Top /\ <<Top>> # <<>>
      OBVIOUS
    <3>2. Len(<<Probe(Top)>>) = 1 /\ <<Probe(Top)>>[1] = Probe(Top)
          /\ <<Probe(Top)>> # <<>>
      OBVIOUS
    <3>3. CallImage = Request(Top)
      BY <2>2, <3>1 DEF CallImage
    <3>4. CallImage' = Request(Probe(Top))
      BY <1>3, <3>2 DEF CallImage, Request
    <3> QED
      BY <3>3, <3>4
  <2> QED
    BY <1>3, <2>1, <2>3, <2>4
<1>4. CASE /\ stack # <<>> /\ stack' = <<>> /\ cap' = cap
           /\ GetMiss \/ GetHit \/ SetVacant \/ SetOverwrite
  <2>1. /\ Top.key \in Keys /\ Top.i \in 0 .. cap - 1
        /\ Top.op = "set" => Top \in SetFrames(cap)
        /\ stack = <<Top>>
        /\ Reached(Top.key, Top.i)
        /\ Stored \in Keys \cup {FREE}
        /\ Hit <=> Stored = Top.key
    BY <1>4, OneCall
  <2>2. CallImage = Request(Top) /\ CallImage' = <<>>
    <3>1. Len(<<Top>>) = 1 /\ <<Top>>[1] = Top /\ <<Top>> # <<>>
      OBVIOUS
    <3> QED
      BY <1>4, <2>1, <3>1 DEF CallImage
  <2>3. PICK k \in Keys, i \in 0 .. cap - 1 : k = Top.key /\ i = Top.i
    BY <2>1
  <2>4. /\ slots[i].key = k => Holds(k) = {i} /\ Image[k] = slots[i].val
        /\ slots[i].key = FREE => Holds(k) = {} /\ Image[k] = NONE
    BY <2>1, <2>3, ImageOf
  <2>5. slots \in [0 .. cap - 1 -> KeySlot] /\ slots[i] \in KeySlot
    BY <1>0 DEF Shape
  <2>6. CASE GetMiss \/ GetHit
    <3>1. Image' = Image /\ CallImage = <<"get", k>>
      <4>1. Top.op = "get" /\ UNCHANGED <<cap, slots>>
        BY <2>6 DEF GetMiss, GetHit, Searching
      <4>2. Image' = Image
        BY <4>1 DEF Image, Holds
      <4> QED
        BY <2>2, <2>3, <4>1, <4>2 DEF Request
    <3>2. ret' = <<k, Image[k]>>
      BY <2>1, <2>3, <2>4, <2>6 DEF GetMiss, GetHit, Miss, Stored
    <3>3. Map!Get(k)
      BY <3>1, <3>2 DEF Map!Get, Image, CallImage
    <3> QED
      BY <2>2, <3>3 DEF Map!Next, Map!Answer, CallImage
  <2>7. CASE SetVacant \/ SetOverwrite
    <3>1. PICK v \in Vals : v = Top.val
      BY <2>1, <2>7 DEF SetVacant, SetOverwrite, Setting, SetFrames
    <3>2. CallImage = <<"set", k, v>> /\ ret' = ret
      BY <2>2, <2>3, <2>7, <3>1 DEF SetVacant, SetOverwrite, Request, Setting
    <3>3. /\ slots[i].key \in {k, FREE}
          /\ slots'[i].key = k /\ slots'[i].val = v
          /\ \A x \in (0 .. cap - 1) \ {i} : slots'[x] = slots[x]
      <4>1. CASE SetVacant
        BY <2>1, <2>3, <2>5, <3>1, <4>1, MapAssumption
           DEF SetVacant, Vacant, Write, Stored
      <4>2. CASE SetOverwrite
        BY <2>1, <2>3, <2>5, <3>1, <4>2 DEF SetOverwrite, Stored, KeySlot, Slot
      <4> QED
        BY <2>7, <4>1, <4>2
    <3>4. Holds(k)' = {i}
      BY <1>4, <2>4, <3>3 DEF Holds
    <3>5. \A x \in Keys \ {k} :
            /\ Holds(x)' = Holds(x)
            /\ \A j \in Holds(x) : slots'[j] = slots[j]
      BY <1>4, <3>3, MapAssumption DEF Holds
    <3>6. Image' = [Image EXCEPT ![k] = v]
      <4>1. Image'[k] = v
        BY <3>3, <3>4 DEF Image
      <4>2. ASSUME NEW x \in Keys \ {k} PROVE Image'[x] = Image[x]
        <5>1. CASE Holds(x) = {}
          BY <3>5, <5>1 DEF Image
        <5>2. CASE Holds(x) # {}
          <6>1. (CHOOSE j \in Holds(x) : TRUE) \in Holds(x)
            BY <5>2
          <6>2. Image[x] = slots[CHOOSE j \in Holds(x) : TRUE].val
            BY <5>2 DEF Image
          <6>3. Image'[x] = slots'[CHOOSE j \in Holds(x)' : TRUE].val
            BY <3>5, <5>2 DEF Image
          <6>4. slots'[CHOOSE j \in Holds(x) : TRUE] = slots[CHOOSE j \in Holds(x) : TRUE]
            BY <3>5, <6>1
          <6> QED
            BY <3>5, <6>2, <6>3, <6>4
        <5> QED
          BY <5>1, <5>2
      <4>3. Image' = [x \in Keys |-> Image'[x]] /\ Image = [x \in Keys |-> Image[x]]
        BY DEF Image
      <4> QED
        BY <4>1, <4>2, <4>3
    <3>7. Map!Set(k, v)
      BY <3>2, <3>6 DEF Map!Set, Image, CallImage
    <3> QED
      BY <2>2, <3>7 DEF Map!Next, Map!Answer, CallImage
  <2> QED
    BY <1>4, <2>6, <2>7
<1> QED
  BY <1>1, <1>2, <1>3, <1>4, SteadySteps

\* In the same use, a set_val changes the entry of its own key only and a
\* get_val answers with it: keys that share a path never disturb one another.
THEOREM MapImplementsKeyMap == Steady => (Spec => ImplementsKeyMap)
<1>1. Init => Map!Init
  <2> SUFFICES ASSUME Init PROVE Map!Init
    OBVIOUS
  <2>1. \A k \in Keys : Holds(k) = {}
    BY MapAssumption DEF Init, Entries, Holds
  <2> QED
    BY <2>1 DEF Init, Map!Init
<1>2. Steady /\ MInv /\ [Next]_vars => [Map!Next]_<<Image, CallImage, ret>>
  BY MapStep
<1>3. CASE Steady
  BY <1>1, <1>2, <1>3, SteadyInvariant, PTL
     DEF Spec, ImplementsKeyMap, Map!Spec, Map!vars, Image, CallImage
<1> QED
  BY <1>3
=============================================================================
