--------------------------- MODULE MethodsProofs ---------------------------
(***************************************************************************)
(* Receivers in Methods, for every set of classes, methods and instances.   *)
(***************************************************************************)
EXTENDS Methods, SequenceTheorems, TLAPS

\* What R_THIS can hold.
Receivers == {Other, NOTHING} \cup {Inst(i) : i \in Made}

Acts ==
  [fun : Cells \cup {<<"top">>, <<"fun">>}, this : Receivers, of : Receivers,
   args : Seq(Values), floor : Nat]

Shape ==
  /\ stack \in Seq(Values)
  /\ running \in BOOLEAN
  /\ frames \in Seq(Acts) /\ Len(frames) > 0
  /\ this \in [Cells -> {NOTHING} \cup {Inst(i) : i \in Made}]
  /\ DOMAIN fields = Insts
  /\ \A i \in Insts : \A n \in DOMAIN fields[i] : n \in Names /\ fields[i][n] \in Values
  /\ cl \in [Insts -> Classes \cup {"none"}]

\* No activation holds operands above those of the activations it called.
Nested ==
  \A n \in DOMAIN frames :
    /\ frames[n].floor <= Len(stack)
    /\ \A m \in DOMAIN frames : m <= n => frames[m].floor <= frames[n].floor

\* A method held as a value was the last to be read under its name: its
\* receiver is the one in the cell.
BoundTo(val) == val.tag = "method" => this[<<val.class, val.name>>] = Inst(val.of)

Bound ==
  /\ \A n \in DOMAIN stack : BoundTo(stack[n])
  /\ \A n \in DOMAIN frames : \A a \in DOMAIN frames[n].args : BoundTo(frames[n].args[a])

\* R_THIS of every activation is the object that its method was read from.
OwnReceiver == \A n \in DOMAIN frames : frames[n].this = frames[n].of

-----------------------------------------------------------------------------
(* Values. *)

LEMMA InstValue ==
  ASSUME NEW val \in Values, val.tag = "inst"
  PROVE  \E i \in Made : val = Inst(i) /\ val.inst = i
BY DEF Values, Other, NOTHING, VOID, Fun, Class, Inst, Method

LEMMA ClassValue ==
  ASSUME NEW val \in Values, val.tag = "class"
  PROVE  \E c \in Classes : val = Class(c) /\ val.class = c
BY DEF Values, Other, NOTHING, VOID, Fun, Class, Inst, Method

LEMMA MethodValue ==
  ASSUME NEW val \in Values, val.tag = "method"
  PROVE  \E k \in Cells : \E i \in Made :
           /\ val = Method(k[1], k[2], i)
           /\ val.class = k[1] /\ val.name = k[2] /\ val.of = i
           /\ <<k[1], k[2]>> = k
BY DEF Values, Other, NOTHING, VOID, Fun, Class, Inst, Method, Cells

\* Receivers are no methods.
LEMMA ReceiverValue ==
  ASSUME NEW val \in Receivers
  PROVE  val \in Values /\ val.tag # "method"
BY DEF Receivers, Values, Other, NOTHING, Inst

\* A class or a field names what exists; a method found is one of the class.
LEMMA FieldValue ==
  ASSUME Shape, NEW i \in Made, NEW n \in Names
  PROVE  /\ Field(i, n) \in Values
         /\ Field(i, n).tag = "method" =>
              <<Field(i, n).class, Field(i, n).name>> \in Cells
         /\ Field(i, n).tag = "method" =>
              Method(Field(i, n).class, Field(i, n).name, i) \in Values
<1>1. Field(i, n) \in Values
  <2>1. CASE n \in DOMAIN fields[i]
    BY <2>1 DEF Field, Shape, Made
  <2>2. CASE n \notin DOMAIN fields[i] /\ <<cl[i], n>> \in Cells
    <3>1. \E k \in Cells : Method(cl[i], n, i) = Method(k[1], k[2], i)
      BY <2>2
    <3> QED
      BY <2>2, <3>1 DEF Field, Values
  <2>3. CASE n \notin DOMAIN fields[i] /\ <<cl[i], n>> \notin Cells
    BY <2>3 DEF Field, Values
  <2> QED
    BY <2>1, <2>2, <2>3
<1>2. ASSUME Field(i, n).tag = "method"
      PROVE  /\ <<Field(i, n).class, Field(i, n).name>> \in Cells
             /\ Method(Field(i, n).class, Field(i, n).name, i) \in Values
  <2>1. PICK k \in Cells : Field(i, n).class = k[1] /\ Field(i, n).name = k[2]
                           /\ <<k[1], k[2]>> = k
    BY <1>1, <1>2, MethodValue
  <2>2. Method(k[1], k[2], i) \in Values
    BY DEF Values
  <2> QED
    BY <2>1, <2>2
<1> QED
  BY <1>1, <1>2

\* Making an instance leaves the values there are.
LEMMA ValuesGrow ==
  ASSUME Made \subseteq Made'
  PROVE  /\ Values \subseteq Values'
         /\ Receivers \subseteq Receivers'
         /\ Seq(Values) \subseteq Seq(Values')
         /\ Acts \subseteq Acts'
         /\ Seq(Acts) \subseteq Seq(Acts')
<1>1. Values \subseteq Values'
  BY DEF Values
<1>2. Receivers \subseteq Receivers'
  BY DEF Receivers
<1>3. Seq(Values) \subseteq Seq(Values')
  BY <1>1, SeqMonotonic
<1>4. Acts \subseteq Acts'
  BY <1>2, <1>3 DEF Acts
<1> QED
  BY <1>1, <1>2, <1>3, <1>4, SeqMonotonic

\* The lower part of a sequence, with or without one more on top.
LEMMA Lower ==
  ASSUME NEW S, NEW s \in Seq(S), NEW p \in 0 .. Len(s)
  PROVE  /\ SubSeq(s, 1, p) \in Seq(S)
         /\ Len(SubSeq(s, 1, p)) = p
         /\ \A n \in 1 .. p : SubSeq(s, 1, p)[n] = s[n]
BY SubSeqProperties

LEMMA Topped ==
  ASSUME NEW S, NEW s \in Seq(S), NEW p \in 0 .. Len(s), NEW v \in S
  PROVE  /\ Append(SubSeq(s, 1, p), v) \in Seq(S)
         /\ Len(Append(SubSeq(s, 1, p), v)) = p + 1
         /\ Append(SubSeq(s, 1, p), v)[p + 1] = v
         /\ \A n \in 1 .. p : Append(SubSeq(s, 1, p), v)[n] = s[n]
<1>1. /\ SubSeq(s, 1, p) \in Seq(S)
      /\ Len(SubSeq(s, 1, p)) = p
      /\ \A n \in 1 .. p : SubSeq(s, 1, p)[n] = s[n]
  BY Lower
<1> QED
  BY <1>1, AppendProperties

-----------------------------------------------------------------------------
(* What the steps do to the stack and to the activations. *)

LEMMA Running ==
  ASSUME Shape, Nested
  PROVE  /\ Len(stack) \in Nat /\ DOMAIN stack = 1 .. Len(stack)
         /\ Len(frames) \in Nat \ {0} /\ DOMAIN frames = 1 .. Len(frames)
         /\ Act = frames[Len(frames)] /\ Act \in Acts
         /\ Act.floor \in 0 .. Len(stack)
         /\ Height \in Nat /\ Height = Len(stack) - Act.floor
         /\ \A n \in 1 .. Len(frames) :
              frames[n] \in Acts /\ frames[n].floor \in 0 .. Act.floor
<1>1. /\ Len(stack) \in Nat /\ DOMAIN stack = 1 .. Len(stack)
      /\ Len(frames) \in Nat \ {0} /\ DOMAIN frames = 1 .. Len(frames)
      /\ Act = frames[Len(frames)]
      /\ \A n \in 1 .. Len(frames) : frames[n] \in Acts
  BY DEF Shape, Act
<1>2. Len(frames) \in 1 .. Len(frames)
  BY <1>1
<1>3. \A n \in 1 .. Len(frames) : frames[n].floor \in Nat
  BY <1>1 DEF Acts
<1>4. \A n \in 1 .. Len(frames) :
        frames[n].floor <= Act.floor /\ frames[n].floor <= Len(stack)
  BY <1>1, <1>2 DEF Nested
<1> QED
  BY <1>1, <1>2, <1>3, <1>4 DEF Height

\* Operands above the floor go and one comes.
LEMMA Replaced ==
  ASSUME Shape, Nested, Made \subseteq Made', frames' = frames,
         NEW p \in Act.floor .. Len(stack), NEW v \in Values',
         stack' = Append(SubSeq(stack, 1, p), v)
  PROVE  /\ stack' \in Seq(Values') /\ frames' \in Seq(Acts') /\ Len(frames') > 0
         /\ Nested'
         /\ Len(stack') = p + 1 /\ stack'[p + 1] = v
         /\ \A n \in 1 .. p : n \in DOMAIN stack /\ stack'[n] = stack[n]
<1>1. /\ Act.floor \in Nat /\ Len(stack) \in Nat /\ p \in 0 .. Len(stack)
      /\ DOMAIN stack = 1 .. Len(stack) /\ DOMAIN frames = 1 .. Len(frames)
      /\ \A n \in 1 .. Len(frames) : frames[n].floor \in 0 .. Act.floor
  BY Running
<1>2. stack \in Seq(Values')
  BY ValuesGrow DEF Shape
<1>3. /\ stack' \in Seq(Values') /\ Len(stack') = p + 1 /\ stack'[p + 1] = v
      /\ \A n \in 1 .. p : stack'[n] = stack[n]
  BY <1>1, <1>2, Topped
<1>4. Nested'
  BY <1>1, <1>3 DEF Nested
<1>5. frames' \in Seq(Acts') /\ Len(frames') > 0
  BY ValuesGrow DEF Shape
<1> QED
  BY <1>1, <1>3, <1>4, <1>5

\* A call: the arguments are operands, and the caller's operands stay below.
LEMMA Entered ==
  ASSUME Shape, Nested, Made \subseteq Made', NEW n \in Nat, Height > n,
         NEW callee \in Cells \cup {<<"fun">>}, NEW name \in Callables,
         NEW recv \in Receivers', NEW of \in Receivers',
         Enter(callee, name, n, recv, of)
  PROVE  /\ stack' \in Seq(Values') /\ frames' \in Seq(Acts') /\ Len(frames') > 0
         /\ Nested'
         /\ \A m \in DOMAIN stack' : m \in DOMAIN stack /\ stack'[m] = stack[m]
         /\ \A m \in DOMAIN frames' :
              \/ m \in DOMAIN frames /\ frames'[m] = frames[m]
              \/ /\ frames'[m].this = recv /\ frames'[m].of = of
                 /\ \A a \in DOMAIN frames'[m].args :
                      \E x \in DOMAIN stack : frames'[m].args[a] = stack[x]
<1> DEFINE p == Len(stack) - n - 1
           ar == Arity[name]
           args == Args(n, ar)
           f == [fun |-> callee, this |-> recv, of |-> of, args |-> args, floor |-> p]
<1>1. /\ Act.floor \in Nat /\ Len(stack) \in Nat /\ p \in 0 .. Len(stack)
      /\ DOMAIN stack = 1 .. Len(stack) /\ DOMAIN frames = 1 .. Len(frames)
      /\ Len(frames) \in Nat /\ Act.floor <= p
      /\ \A m \in 1 .. Len(frames) : frames[m].floor \in 0 .. Act.floor
  BY Running
<1>2. stack \in Seq(Values') /\ frames \in Seq(Acts')
  BY ValuesGrow DEF Shape
<1>3. /\ stack' = SubSeq(stack, 1, p) /\ frames' = Append(frames, f) /\ n >= ar
      /\ ar \in Nat
  <2>1. Len(stack) - (n + 1) = p
    BY <1>1
  <2>2. stack' = Popped(n + 1) /\ frames' = Append(frames, f) /\ n >= ar
    BY DEF Enter
  <2>3. stack' = SubSeq(stack, 1, p)
    BY <2>1, <2>2 DEF Popped
  <2> QED
    BY <2>2, <2>3, MethodAssumption
<1>4. /\ stack' \in Seq(Values') /\ Len(stack') = p
      /\ \A m \in 1 .. p : stack'[m] = stack[m]
  BY <1>1, <1>2, <1>3, Lower
<1>5. /\ args \in Seq(Values')
      /\ \A a \in DOMAIN args : \E x \in DOMAIN stack : args[a] = stack[x]
  <2> DEFINE lo == Len(stack) - n + 1
             hi == Len(stack) - n + ar
  <2>1. /\ lo \in Int /\ hi \in Int /\ lo >= 1 /\ hi <= Len(stack)
        /\ hi - lo + 1 = ar
    BY <1>1, <1>3
  <2>2. \A i \in lo .. hi : i \in DOMAIN stack /\ stack[i] \in Values'
    BY <1>1, <1>2, <2>1
  <2>3. args = SubSeq(stack, lo, hi)
    BY DEF Args
  <2> HIDE DEF lo, hi, args, ar
  <2>4. /\ args \in Seq(Values')
        /\ Len(args) = IF lo <= hi THEN hi - lo + 1 ELSE 0
        /\ \A a \in 1 .. hi - lo + 1 : args[a] = stack[lo + a - 1]
    BY <2>1, <2>2, <2>3, SubSeqProperties
  <2>5. \A a \in DOMAIN args : a \in 1 .. hi - lo + 1 /\ lo + a - 1 \in lo .. hi
    BY <1>3, <2>1, <2>4
  <2> QED
    BY <2>2, <2>4, <2>5
<1>6. f \in Acts'
  BY <1>1, <1>5 DEF Acts, Cells
<1> HIDE DEF f, args, p, ar
<1>7. /\ frames' \in Seq(Acts') /\ Len(frames') = Len(frames) + 1
      /\ DOMAIN frames' = 1 .. Len(frames) + 1
      /\ frames'[Len(frames) + 1] = f
      /\ \A m \in 1 .. Len(frames) : frames'[m] = frames[m]
  BY <1>1, <1>2, <1>3, <1>6, AppendProperties
<1>8. f.floor = p /\ f.this = recv /\ f.of = of /\ f.args = args
  BY DEF f
<1>9. \A m \in DOMAIN frames' : m \in 1 .. Len(frames) \/ m = Len(frames) + 1
  BY <1>1, <1>7
<1>10. Nested'
  <2>1. \A m \in DOMAIN frames' : frames'[m].floor <= p
    BY <1>1, <1>7, <1>8, <1>9
  <2>2. ASSUME NEW k \in DOMAIN frames', NEW m \in DOMAIN frames', m <= k
        PROVE  frames'[m].floor <= frames'[k].floor
    <3>1. CASE k \in 1 .. Len(frames)
      <4>1. m \in 1 .. Len(frames)
        BY <1>1, <1>7, <2>2, <3>1
      <4> QED
        BY <1>1, <1>7, <2>2, <3>1, <4>1 DEF Nested
    <3>2. CASE k = Len(frames) + 1
      BY <1>7, <1>8, <2>1, <3>2
    <3> QED
      BY <1>9, <3>1, <3>2
  <2> QED
    BY <1>4, <2>1, <2>2 DEF Nested
<1> QED
  BY <1>1, <1>4, <1>5, <1>7, <1>8, <1>9, <1>10

\* A return: the callers' activations are as they were, their operands too.
LEMMA Left ==
  ASSUME Shape, Nested, Len(frames) > 1, frames' = SubSeq(frames, 1, Len(frames) - 1)
  PROVE  /\ frames' \in Seq(Acts) /\ Len(frames') > 0
         /\ Len(stack') = Len(stack) => Nested'
         /\ \A m \in DOMAIN frames' : m \in DOMAIN frames /\ frames'[m] = frames[m]
<1>1. /\ Len(frames) \in Nat /\ DOMAIN frames = 1 .. Len(frames)
      /\ Len(frames) - 1 \in 0 .. Len(frames)
  BY Running
<1>2. /\ frames' \in Seq(Acts) /\ Len(frames') = Len(frames) - 1
      /\ \A m \in 1 .. Len(frames) - 1 : frames'[m] = frames[m]
  BY <1>1, Lower DEF Shape
<1>3. DOMAIN frames' = 1 .. Len(frames) - 1
  BY <1>1, <1>2
<1>4. \A m \in DOMAIN frames' : m \in DOMAIN frames /\ frames'[m] = frames[m]
  BY <1>1, <1>2, <1>3
<1> QED
  BY <1>1, <1>2, <1>4 DEF Nested

LEMMA FreshInit == Init => Shape /\ Nested /\ Bound /\ OwnReceiver
<1> SUFFICES ASSUME Init PROVE Shape /\ Nested /\ Bound /\ OwnReceiver
  OBVIOUS
<1>1. Program \in Acts
  BY DEF Program, Acts, Receivers
<1>2. Shape
  BY <1>1 DEF Init, Shape
<1>3. Nested /\ Bound /\ OwnReceiver
  BY DEF Init, Nested, Bound, OwnReceiver, Program
<1> QED
  BY <1>2, <1>3

\* After an error everything is as it was at the start.
LEMMA Failed ==
  ASSUME Fails
  PROVE  Shape' /\ Nested' /\ Bound' /\ OwnReceiver'
<1>1. Program \in Acts'
  BY DEF Program, Acts, Receivers
<1>2. Shape'
  <2>1. stack' \in Seq(Values') /\ running' \in BOOLEAN
    <3>1. stack' = <<>> /\ running' = FALSE
      BY DEF Fails
    <3>2. <<>> \in Seq(Values')
      OBVIOUS
    <3> QED
      BY <3>1, <3>2
  <2>2. frames' \in Seq(Acts') /\ Len(frames') > 0
    BY <1>1 DEF Fails
  <2>3. this' \in [Cells -> {NOTHING} \cup {Inst(i) : i \in Made'}]
    BY DEF Fails
  <2>4. /\ DOMAIN fields' = Insts /\ cl' \in [Insts -> Classes \cup {"none"}]
        /\ \A i \in Insts : DOMAIN fields'[i] = {}
    BY DEF Fails
  <2> QED
    BY <2>1, <2>2, <2>3, <2>4 DEF Shape
<1>3. Nested' /\ Bound' /\ OwnReceiver'
  BY DEF Fails, Nested, Bound, OwnReceiver, Program
<1> QED
  BY <1>2, <1>3

-----------------------------------------------------------------------------
(* The invariant of all programs. *)

TInv == Shape /\ Nested

\* A method given as an operand was one before, or was an argument ...
Kept(v) ==
  v.tag = "method" => \/ \E n \in DOMAIN stack : v = stack[n]
                      \/ \E a \in DOMAIN Act.args : v = Act.args[a]

\* ... or is read now and bound to the instance it is read from.
Read(v) ==
  /\ v.tag = "method"
  /\ Overlaps \/ ~Held(v.class, v.name, v.of)
  /\ Bind(v.class, v.name, v.of)

\* Each instruction that leaves the activations alone takes some operands and
\* gives one that exists.
LEMMA OperandStep ==
  ASSUME TInv,
         LoadLiteral \/ LoadArgument \/ LoadThis \/ Get \/ Set \/ EndConstructor
  PROVE  \E p \in Act.floor .. Len(stack), v \in Values :
           /\ stack' = Append(SubSeq(stack, 1, p), v)
           /\ (this' = this /\ Kept(v)) \/ Read(v)
<1>0. Shape /\ Nested
  BY DEF TInv
<1>1. /\ Len(stack) \in Nat /\ Act.floor \in 0 .. Len(stack)
      /\ Height = Len(stack) - Act.floor /\ Act \in Acts
      /\ stack \in Seq(Values) /\ DOMAIN stack = 1 .. Len(stack)
  BY <1>0, Running DEF Shape
<1>2. CASE LoadLiteral \/ LoadArgument \/ LoadThis
  <2>1. PICK v \in Values : Push(v) /\ Kept(v)
    <3>1. CASE LoadLiteral
      BY <3>1 DEF LoadLiteral, Values, Kept, Fun, Class
    <3>2. CASE LoadArgument
      <4>1. PICK a \in 1 .. Len(Act.args) : Push(Act.args[a])
        BY <3>2 DEF LoadArgument
      <4>2. Act.args \in Seq(Values)
        BY <1>1 DEF Acts
      <4>3. Act.args[a] \in Values /\ Kept(Act.args[a])
        BY <4>2, ElementOfSeq DEF Kept
      <4> QED
        BY <4>1, <4>3
    <3>3. CASE LoadThis
      <4>1. Act.this \in Values /\ Kept(Act.this)
        BY <1>1, ReceiverValue DEF Acts, Kept
      <4> QED
        BY <3>3, <4>1 DEF LoadThis
    <3> QED
      BY <1>2, <3>1, <3>2, <3>3
  <2>2. SubSeq(stack, 1, Len(stack)) = stack
    BY <1>1, SubSeqFull
  <2>3. stack' = Append(SubSeq(stack, 1, Len(stack)), v) /\ this' = this
    BY <2>1, <2>2 DEF Push
  <2>4. Len(stack) \in Act.floor .. Len(stack)
    BY <1>1
  <2> QED
    BY <2>1, <2>3, <2>4
<1>3. CASE Get
  <2>1. Height > 0 /\ Top(0).tag = "inst" /\ Len(stack) - 1 \in Act.floor .. Len(stack)
    BY <1>1, <1>3 DEF Get
  <2>2. Top(0) \in Values
    BY <1>1, <2>1 DEF Top
  <2>3. PICK i \in Made : Top(0).inst = i
    BY <2>1, <2>2, InstValue
  <2>4. PICK n \in Names :
          LET val == Field(i, n)
          IN  IF val.tag = "method"
              THEN /\ Overlaps \/ ~Held(val.class, val.name, i)
                   /\ Bind(val.class, val.name, i)
                   /\ stack' = Append(Popped(1), Method(val.class, val.name, i))
              ELSE this' = this /\ stack' = Append(Popped(1), val)
    BY <1>3, <2>3 DEF Get
  <2>5. /\ Field(i, n) \in Values
        /\ Field(i, n).tag = "method" =>
             Method(Field(i, n).class, Field(i, n).name, i) \in Values
    BY <1>0, FieldValue
  <2>6. PICK v \in Values :
          stack' = Append(Popped(1), v) /\ ((this' = this /\ Kept(v)) \/ Read(v))
    <3>1. CASE Field(i, n).tag = "method"
      <4>1. PICK c, m : c = Field(i, n).class /\ m = Field(i, n).name
        OBVIOUS
      <4>2. /\ Method(c, m, i).tag = "method" /\ Method(c, m, i).class = c
            /\ Method(c, m, i).name = m /\ Method(c, m, i).of = i
        BY DEF Method
      <4>3. Read(Method(c, m, i)) /\ stack' = Append(Popped(1), Method(c, m, i))
        BY <2>4, <3>1, <4>1, <4>2 DEF Read
      <4> QED
        BY <2>5, <3>1, <4>1, <4>3
    <3>2. CASE Field(i, n).tag # "method"
      BY <2>4, <2>5, <3>2 DEF Kept
    <3> QED
      BY <3>1, <3>2
  <2> QED
    BY <2>1, <2>6 DEF Popped
<1>4. CASE Set
  <2>1. Height > 1 /\ Len(stack) - 2 \in Act.floor .. Len(stack)
    BY <1>1, <1>4 DEF Set
  <2>2. Top(0) \in Values /\ Kept(Top(0))
    BY <1>1, <2>1 DEF Top, Kept
  <2>3. stack' = Append(SubSeq(stack, 1, Len(stack) - 2), Top(0)) /\ this' = this
    BY <1>4 DEF Set, Popped
  <2> QED
    BY <2>1, <2>2, <2>3
<1>5. CASE EndConstructor
  <2>1. Len(stack) - 1 \in Act.floor .. Len(stack)
    BY <1>1, <1>5 DEF EndConstructor
  <2>2. Act.this \in Values /\ Kept(Act.this)
    BY <1>1, ReceiverValue DEF Acts, Kept
  <2>3. stack' = Append(SubSeq(stack, 1, Len(stack) - 1), Act.this) /\ this' = this
    BY <1>5 DEF EndConstructor, Leave, Popped
  <2> QED
    BY <2>1, <2>2, <2>3
<1> QED
  BY <1>2, <1>3, <1>4, <1>5

\* What a class called makes of a free instance.
LEMMA Allocated ==
  ASSUME TInv, NEW n \in Nat, CallClass(n)
  PROVE  /\ cl' \in [Insts -> Classes \cup {"none"}]
         /\ Made \subseteq Made'
         /\ \E c \in Classes, i \in Made' :
              /\ Top(n) = Class(c)
              /\ IF Constructor \in Methods[c]
                 THEN Enter(<<c, Constructor>>, Constructor, n, Inst(i), Inst(i))
                 ELSE /\ stack' = Append(Popped(n + 1), Inst(i))
                      /\ frames' = frames
<1> DEFINE c == Top(n).class
           i == CHOOSE j \in Insts : j \notin Made
<1>0. Shape /\ Nested
  BY DEF TInv
<1>1. /\ Len(stack) \in Nat /\ Act.floor \in 0 .. Len(stack)
      /\ Height = Len(stack) - Act.floor
      /\ stack \in Seq(Values) /\ DOMAIN stack = 1 .. Len(stack)
  BY <1>0, Running DEF Shape
<1>2. Height > n /\ Top(n).tag = "class" /\ Insts # Made
  BY DEF CallClass, CanCall
<1>3. Top(n) \in Values
  BY <1>1, <1>2 DEF Top
<1>4. c \in Classes /\ Top(n) = Class(c)
  BY <1>2, <1>3, ClassValue
<1>5. i \in Insts /\ i \notin Made
  BY <1>2 DEF Made
<1>6. cl' = [cl EXCEPT ![i] = c]
  BY DEF CallClass, alloc_instance
<1>7. cl \in [Insts -> Classes \cup {"none"}]
  BY <1>0 DEF Shape
<1>8. /\ IF Constructor \in Methods[c]
         THEN Enter(<<c, Constructor>>, Constructor, n, Inst(i), Inst(i))
         ELSE stack' = Append(Popped(n + 1), Inst(i)) /\ frames' = frames
  BY DEF CallClass
<1> HIDE DEF c, i
<1>9. /\ cl' \in [Insts -> Classes \cup {"none"}]
      /\ Made' = Made \cup {i}
  BY <1>4, <1>5, <1>6, <1>7, MethodAssumption DEF Made
<1> QED
  BY <1>4, <1>8, <1>9

\* A method called is one of the program's.
LEMMA Callee ==
  ASSUME TInv, NEW n \in Nat, CallMethod(n)
  PROVE  \E k \in Cells, i \in Made :
           /\ Top(n) = Method(k[1], k[2], i) /\ Height > n
           /\ Enter(k, k[2], n, this[k], Inst(i))
<1>0. Shape /\ Nested
  BY DEF TInv
<1>1. /\ Len(stack) \in Nat /\ Act.floor \in 0 .. Len(stack)
      /\ Height = Len(stack) - Act.floor
      /\ stack \in Seq(Values) /\ DOMAIN stack = 1 .. Len(stack)
  BY <1>0, Running DEF Shape
<1>2. Height > n /\ Top(n).tag = "method"
  BY DEF CallMethod, CanCall
<1>3. Top(n) \in Values
  BY <1>1, <1>2 DEF Top
<1>4. PICK k \in Cells, i \in Made :
        /\ Top(n) = Method(k[1], k[2], i)
        /\ Top(n).class = k[1] /\ Top(n).name = k[2] /\ Top(n).of = i
        /\ <<k[1], k[2]>> = k
  BY <1>2, <1>3, MethodValue
<1>5. LET c == <<Top(n).class, Top(n).name>>
      IN  Enter(c, c[2], n, this[c], Inst(Top(n).of))
  BY DEF CallMethod
<1> QED
  BY <1>2, <1>4, <1>5

\* A cell holds a receiver.
LEMMA ThisReceiver ==
  ASSUME TInv, NEW k \in Cells
  PROVE  this[k] \in Receivers /\ k[2] \in Callables
BY DEF TInv, Shape, Receivers, Cells, Callables

LEMMA TInvStep == TInv /\ [Next]_vars => TInv'
<1> SUFFICES ASSUME TInv, [Next]_vars PROVE TInv'
  OBVIOUS
<1>0. Shape /\ Nested
  BY DEF TInv
<1>1. CASE UNCHANGED vars
  BY <1>0, <1>1 DEF vars, TInv, Shape, Nested, Acts, Values, Receivers, Made
<1>2. CASE LoadLiteral \/ LoadArgument \/ LoadThis \/ Get \/ Set
  <2>1. UNCHANGED <<frames, cl, running>>
    BY <1>2 DEF LoadLiteral, LoadArgument, LoadThis, Get, Set, Push
  <2>2. Made' = Made /\ Values' = Values
    BY <2>1 DEF Made, Values
  <2>3. PICK p \in Act.floor .. Len(stack), v \in Values :
          stack' = Append(SubSeq(stack, 1, p), v)
    BY <1>2, OperandStep
  <2>4. stack' \in Seq(Values') /\ frames' \in Seq(Acts') /\ Len(frames') > 0 /\ Nested'
    BY <1>0, <2>1, <2>2, <2>3, Replaced
  <2>5. this' \in [Cells -> {NOTHING} \cup {Inst(i) : i \in Made}]
    <3>1. CASE UNCHANGED this
      BY <1>0, <3>1 DEF Shape
    <3>2. CASE Get
      <4>1. /\ Len(stack) \in Nat /\ Height = Len(stack) - Act.floor
            /\ Act.floor \in 0 .. Len(stack) /\ Height > 0 /\ Top(0).tag = "inst"
            /\ stack \in Seq(Values)
        BY <1>0, <3>2, Running DEF Get, Shape
      <4>2. Top(0) \in Values
        BY <4>1 DEF Top
      <4>3. PICK i \in Made : Top(0).inst = i
        BY <4>1, <4>2, InstValue
      <4>4. PICK n \in Names :
              \/ this' = this
              \/ /\ Field(i, n).tag = "method"
                 /\ Bind(Field(i, n).class, Field(i, n).name, i)
        BY <3>2, <4>3 DEF Get
      <4>5. Field(i, n).tag = "method" => <<Field(i, n).class, Field(i, n).name>> \in Cells
        BY <1>0, FieldValue
      <4> QED
        BY <1>0, <4>3, <4>4, <4>5 DEF Bind, Shape
    <3>3. ~UNCHANGED this => Get
      BY <1>2 DEF LoadLiteral, LoadArgument, LoadThis, Set, Push
    <3> QED
      BY <3>1, <3>2, <3>3
  <2>6. /\ DOMAIN fields' = Insts
        /\ \A i \in Insts : \A n \in DOMAIN fields'[i] :
             n \in Names /\ fields'[i][n] \in Values
    <3>1. CASE UNCHANGED fields
      BY <1>0, <3>1 DEF Shape
    <3>2. CASE Set
      <4>1. /\ Len(stack) \in Nat /\ Height = Len(stack) - Act.floor
            /\ Act.floor \in 0 .. Len(stack) /\ Height > 1
            /\ stack \in Seq(Values)
        BY <1>0, <3>2, Running DEF Set, Shape
      <4>2. Top(0) \in Values
        BY <4>1 DEF Top
      <4>3. PICK n \in Names :
              fields' = [fields EXCEPT ![Top(1).inst] =
                           [f \in DOMAIN @ \cup {n} |-> IF f = n THEN Top(0) ELSE @[f]]]
        BY <3>2 DEF Set
      <4> QED
        BY <1>0, <4>2, <4>3 DEF Shape
    <3>3. ~UNCHANGED fields => Set
      BY <1>2 DEF LoadLiteral, LoadArgument, LoadThis, Get, Push
    <3> QED
      BY <3>1, <3>2, <3>3
  <2> QED
    BY <1>0, <2>1, <2>2, <2>4, <2>5, <2>6 DEF TInv, Shape
<1>3. CASE Discard
  <2>1. UNCHANGED <<frames, this, fields, cl, running>>
        /\ stack' = SubSeq(stack, 1, Len(stack) - 1) /\ Height > 0
    BY <1>3 DEF Discard, Popped
  <2>2. /\ Len(stack) \in Nat /\ Act.floor \in 0 .. Len(stack)
        /\ Height = Len(stack) - Act.floor
        /\ DOMAIN frames = 1 .. Len(frames)
        /\ \A n \in 1 .. Len(frames) : frames[n].floor \in 0 .. Act.floor
    BY <1>0, Running
  <2>3. stack' \in Seq(Values) /\ Len(stack') = Len(stack) - 1
    <3>1. Len(stack) - 1 \in 0 .. Len(stack)
      BY <2>1, <2>2
    <3> QED
      BY <1>0, <2>1, <3>1, Lower DEF Shape
  <2>4. Nested'
    BY <1>0, <2>1, <2>2, <2>3 DEF Nested
  <2> QED
    BY <1>0, <2>1, <2>3, <2>4 DEF TInv, Shape, Acts, Values, Receivers, Made
<1>4. CASE GetWide \/ GetFails \/ SetFails \/ \E n \in 0 .. MaxStack : CallFails(n)
  <2>1. Fails
    BY <1>4 DEF GetWide, GetFails, SetFails, CallFails
  <2> QED
    BY <2>1, Failed DEF TInv
<1>5. CASE \E n \in 0 .. MaxStack : CallFunction(n) \/ CallMethod(n)
  <2>1. PICK n \in 0 .. MaxStack : CallFunction(n) \/ CallMethod(n)
    BY <1>5
  <2>2. n \in Nat /\ UNCHANGED <<this, fields, cl, running>> /\ Height > n
    BY <2>1, MethodAssumption DEF CallFunction, CallMethod, CanCall
  <2>3. Made' = Made /\ Values' = Values /\ Receivers' = Receivers
    BY <2>2 DEF Made, Values, Receivers
  <2>4. PICK callee \in Cells \cup {<<"fun">>}, name \in Callables,
             recv \in Receivers, of \in Receivers : Enter(callee, name, n, recv, of)
    <3>1. CASE CallFunction(n)
      BY <3>1 DEF CallFunction, Callables, Receivers
    <3>2. CASE CallMethod(n)
      <4>1. PICK k \in Cells, i \in Made : Enter(k, k[2], n, this[k], Inst(i))
        BY <2>2, <3>2, Callee
      <4>2. Inst(i) \in Receivers
        BY DEF Receivers
      <4> QED
        BY <4>1, <4>2, ThisReceiver
    <3> QED
      BY <2>1, <3>1, <3>2
  <2>5. stack' \in Seq(Values') /\ frames' \in Seq(Acts') /\ Len(frames') > 0 /\ Nested'
    BY <1>0, <2>2, <2>3, <2>4, Entered
  <2> QED
    BY <1>0, <2>2, <2>3, <2>5 DEF TInv, Shape
<1>6. CASE \E n \in 0 .. MaxStack : CallClass(n)
  <2>1. PICK n \in 0 .. MaxStack : CallClass(n)
    BY <1>6
  <2>2. n \in Nat /\ UNCHANGED <<this, fields, running>> /\ Height > n
    BY <2>1, MethodAssumption DEF CallClass, CanCall
  <2>3. /\ cl' \in [Insts -> Classes \cup {"none"}] /\ Made \subseteq Made'
        /\ Values \subseteq Values'
    BY <2>1, <2>2, Allocated, ValuesGrow
  <2>4. PICK c \in Classes, i \in Made' :
          IF Constructor \in Methods[c]
          THEN Enter(<<c, Constructor>>, Constructor, n, Inst(i), Inst(i))
          ELSE stack' = Append(Popped(n + 1), Inst(i)) /\ frames' = frames
    BY <2>1, <2>2, Allocated
  <2>5. Inst(i) \in Receivers' /\ Inst(i) \in Values'
    BY DEF Receivers, Values
  <2>6. stack' \in Seq(Values') /\ frames' \in Seq(Acts') /\ Len(frames') > 0 /\ Nested'
    <3>1. CASE Constructor \in Methods[c]
      <4>1. <<c, Constructor>> \in Cells /\ Constructor \in Callables
        BY <3>1 DEF Cells, Callables
      <4>2. Enter(<<c, Constructor>>, Constructor, n, Inst(i), Inst(i))
        BY <2>4, <3>1
      <4> QED
        BY <1>0, <2>2, <2>3, <2>5, <4>1, <4>2, Entered
    <3>2. CASE Constructor \notin Methods[c]
      <4>1. /\ Len(stack) \in Nat /\ Act.floor \in 0 .. Len(stack)
            /\ Height = Len(stack) - Act.floor
        BY <1>0, Running
      <4>2. Len(stack) - (n + 1) \in Act.floor .. Len(stack)
        BY <2>2, <4>1
      <4>3. stack' = Append(SubSeq(stack, 1, Len(stack) - (n + 1)), Inst(i))
            /\ frames' = frames
        BY <2>4, <3>2 DEF Popped
      <4> QED
        BY <1>0, <2>3, <2>5, <4>2, <4>3, Replaced
    <3> QED
      BY <3>1, <3>2
  <2>7. this' \in [Cells -> {NOTHING} \cup {Inst(j) : j \in Made'}]
    BY <1>0, <2>2, <2>3 DEF Shape
  <2> QED
    BY <1>0, <2>2, <2>3, <2>6, <2>7 DEF TInv, Shape
<1>7. CASE Return \/ EndConstructor
  <2>1. /\ Len(frames) > 1 /\ frames' = SubSeq(frames, 1, Len(frames) - 1)
        /\ UNCHANGED <<this, fields, cl, running>> /\ Height = 1
    BY <1>7 DEF Return, EndConstructor, Leave
  <2>2. stack' \in Seq(Values) /\ Len(stack') = Len(stack)
    <3>1. CASE Return
      BY <1>0, <3>1 DEF Return, Shape
    <3>2. CASE EndConstructor
      <4>1. /\ stack \in Seq(Values) /\ Len(stack) \in Nat
            /\ Len(stack) - 1 \in 0 .. Len(stack)
        BY <1>0, <2>1, Running DEF Shape
      <4>2. PICK v \in Values, p \in 0 .. Len(stack) :
              p = Len(stack) - 1 /\ stack' = Append(SubSeq(stack, 1, p), v)
        <5>1. Act \in Acts
          BY <1>0, Running
        <5>2. Act.this \in Values
          BY <5>1, ReceiverValue DEF Acts
        <5> QED
          BY <3>2, <4>1, <5>2 DEF EndConstructor, Popped
      <4>3. stack' \in Seq(Values) /\ Len(stack') = p + 1
        BY <4>1, <4>2, Topped
      <4> QED
        BY <4>1, <4>2, <4>3
    <3> QED
      BY <1>7, <3>1, <3>2
  <2>3. frames' \in Seq(Acts) /\ Len(frames') > 0 /\ Nested'
    BY <1>0, <2>1, <2>2, Left
  <2>4. Values' = Values /\ Acts' = Acts /\ Made' = Made
    BY <2>1 DEF Values, Acts, Receivers, Made
  <2> QED
    BY <1>0, <2>1, <2>2, <2>3, <2>4 DEF TInv, Shape
<1> QED
  BY <1>1, <1>2, <1>3, <1>4, <1>5, <1>6, <1>7 DEF Next

-----------------------------------------------------------------------------
(* Receivers. *)

BInv == Bound /\ OwnReceiver

\* Operands and activations change, the receivers in the cells do not.
LEMMA BoundKept ==
  ASSUME Bound, OwnReceiver, this' = this,
         \A n \in DOMAIN stack' :
           stack'[n].tag = "method" => \E m \in DOMAIN stack : stack'[n] = stack[m],
         \A n \in DOMAIN frames' :
           \/ n \in DOMAIN frames /\ frames'[n] = frames[n]
           \/ /\ frames'[n].this = frames'[n].of
              /\ \A a \in DOMAIN frames'[n].args :
                   \E m \in DOMAIN stack : frames'[n].args[a] = stack[m]
  PROVE  Bound' /\ OwnReceiver'
<1>1. \A n \in DOMAIN stack' : BoundTo(stack[n])'
  BY DEF Bound, BoundTo
<1>2. \A n \in DOMAIN frames' : \A a \in DOMAIN frames'[n].args :
        BoundTo(frames[n].args[a])'
  BY DEF Bound, BoundTo
<1>3. OwnReceiver'
  BY DEF OwnReceiver
<1> QED
  BY <1>1, <1>2, <1>3 DEF Bound

\* Reading a method moves its receiver, which no value held elsewhere misses.
LEMMA BoundRead ==
  ASSUME ~Overlaps, TInv, Bound, NEW v \in Values, Read(v),
         NEW u \in Values,
         \/ u = v
         \/ \E n \in DOMAIN stack : u = stack[n]
         \/ \E n \in DOMAIN frames : \E a \in DOMAIN frames[n].args : u = frames[n].args[a]
  PROVE  BoundTo(u)'
<1>1. SUFFICES ASSUME u.tag = "method"
               PROVE  this'[<<u.class, u.name>>] = Inst(u.of)
  BY DEF BoundTo
<1>2. PICK k \in Cells, i \in Made :
        /\ v = Method(k[1], k[2], i) /\ <<k[1], k[2]>> = k
        /\ v.class = k[1] /\ v.name = k[2] /\ v.of = i
  BY MethodValue DEF Read
<1>3. PICK l \in Cells, j \in Made :
        /\ u = Method(l[1], l[2], j) /\ <<l[1], l[2]>> = l
        /\ u.class = l[1] /\ u.name = l[2] /\ u.of = j
  BY <1>1, MethodValue
<1>4. this' = [this EXCEPT ![k] = Inst(i)] /\ ~Held(k[1], k[2], i)
  BY <1>2 DEF Read, Bind
<1>5. DOMAIN this = Cells
  BY DEF TInv, Shape
<1>6. CASE l = k
  <2>1. j = i
    <3>1. CASE u = v
      BY <1>2, <1>3, <3>1
    <3>2. CASE u # v
      <4>1. u \notin {Method(k[1], k[2], x) : x \in Insts \ {i}}
        BY <1>4, <3>2 DEF Held
      <4>2. j \in Insts
        BY DEF Made
      <4> QED
        BY <1>3, <1>6, <4>1, <4>2
    <3> QED
      BY <3>1, <3>2
  <2> QED
    BY <1>3, <1>4, <1>5, <1>6, <2>1
<1>7. CASE l # k
  <2>1. u # v
    BY <1>2, <1>3, <1>7
  <2>2. BoundTo(u)
    BY <2>1 DEF Bound
  <2>3. this[l] = Inst(j)
    BY <1>1, <1>3, <2>2 DEF BoundTo
  <2> QED
    BY <1>3, <1>4, <1>5, <1>7, <2>3
<1> QED
  BY <1>6, <1>7

LEMMA BInvStep == ~Overlaps /\ TInv /\ BInv /\ [Next]_vars => BInv'
<1> SUFFICES ASSUME ~Overlaps, TInv, BInv, [Next]_vars PROVE BInv'
  OBVIOUS
<1>0. Shape /\ Nested /\ Bound /\ OwnReceiver
  BY DEF TInv, BInv
<1>a. /\ Len(stack) \in Nat /\ DOMAIN stack = 1 .. Len(stack)
      /\ Act.floor \in 0 .. Len(stack) /\ Height = Len(stack) - Act.floor
      /\ Act = frames[Len(frames)] /\ Len(frames) \in DOMAIN frames
      /\ stack \in Seq(Values)
  BY <1>0, Running DEF Shape
<1>1. CASE UNCHANGED vars
  BY <1>0, <1>1 DEF vars, BInv, Bound, BoundTo, OwnReceiver
<1>2. CASE LoadLiteral \/ LoadArgument \/ LoadThis \/ Get \/ Set \/ EndConstructor
  <2>1. PICK p \in Act.floor .. Len(stack), v \in Values :
          /\ stack' = Append(SubSeq(stack, 1, p), v)
          /\ (this' = this /\ Kept(v)) \/ Read(v)
    BY <1>2, OperandStep
  <2>2. \A n \in DOMAIN stack' :
          stack'[n] = v \/ \E m \in DOMAIN stack : stack'[n] = stack[m]
    <3>1. p \in 0 .. Len(stack)
      BY <1>a
    <3>2. /\ stack' \in Seq(Values) /\ Len(stack') = p + 1 /\ stack'[p + 1] = v
          /\ \A n \in 1 .. p : stack'[n] = stack[n]
      BY <1>a, <2>1, <3>1, Topped
    <3>3. \A n \in DOMAIN stack' : n = p + 1 \/ n \in 1 .. p
      BY <3>1, <3>2
    <3>4. \A n \in 1 .. p : n \in DOMAIN stack
      BY <1>a, <3>1
    <3> QED
      BY <3>2, <3>3, <3>4
  <2>3. \A n \in DOMAIN frames' : n \in DOMAIN frames /\ frames'[n] = frames[n]
    <3>1. CASE LoadLiteral \/ LoadArgument \/ LoadThis \/ Get \/ Set
      BY <3>1 DEF LoadLiteral, LoadArgument, LoadThis, Get, Set, Push
    <3>2. CASE EndConstructor
      BY <1>0, <3>2, Left DEF EndConstructor, Leave
    <3> QED
      BY <1>2, <3>1, <3>2
  <2>4. ASSUME NEW u \in Values,
               \/ u = v
               \/ \E n \in DOMAIN stack : u = stack[n]
               \/ \E n \in DOMAIN frames : \E a \in DOMAIN frames[n].args :
                    u = frames[n].args[a]
        PROVE  BoundTo(u)'
    <3>1. CASE Read(v)
      BY <1>0, <2>4, <3>1, BoundRead
    <3>2. CASE this' = this /\ Kept(v)
      <4>1. BoundTo(u)
        BY <1>0, <1>a, <2>4, <3>2 DEF Bound, Kept, BoundTo
      <4> QED
        BY <3>2, <4>1 DEF BoundTo
    <3> QED
      BY <2>1, <3>1, <3>2
  <2>5. \A n \in DOMAIN stack : stack[n] \in Values
    BY <1>a
  <2>6. \A n \in DOMAIN frames : \A a \in DOMAIN frames[n].args : frames[n].args[a] \in Values
    <3> TAKE n \in DOMAIN frames
    <3>1. frames[n] \in Acts
      BY <1>0 DEF Shape
    <3>2. frames[n].args \in Seq(Values)
      BY <3>1 DEF Acts
    <3> QED
      BY <3>2
  <2>7. \A n \in DOMAIN stack' : BoundTo(stack[n])'
    <3> TAKE n \in DOMAIN stack'
    <3>1. PICK u \in Values : u = stack'[n] /\ BoundTo(u)'
      BY <2>2, <2>4, <2>5
    <3> QED
      BY <3>1 DEF BoundTo
  <2>8. \A n \in DOMAIN frames' : \A a \in DOMAIN frames'[n].args :
          BoundTo(frames[n].args[a])'
    <3> TAKE n \in DOMAIN frames'
    <3> TAKE a \in DOMAIN frames'[n].args
    <3>1. PICK u \in Values : u = frames'[n].args[a] /\ BoundTo(u)'
      BY <2>3, <2>4, <2>6
    <3> QED
      BY <3>1 DEF BoundTo
  <2>9. OwnReceiver'
    BY <1>0, <2>3 DEF OwnReceiver
  <2> QED
    BY <2>7, <2>8, <2>9 DEF BInv, Bound
<1>3. CASE Discard \/ Return
  <2>1. this' = this
    BY <1>3 DEF Discard, Return, Leave
  <2>2. \A n \in DOMAIN stack' : \E m \in DOMAIN stack : stack'[n] = stack[m]
    <3>1. CASE Discard
      <4>1. stack' = SubSeq(stack, 1, Len(stack) - 1) /\ Len(stack) - 1 \in 0 .. Len(stack)
        BY <1>a, <3>1 DEF Discard, Popped
      <4>2. /\ stack' \in Seq(Values) /\ Len(stack') = Len(stack) - 1
            /\ \A n \in 1 .. Len(stack) - 1 : stack'[n] = stack[n]
        BY <1>a, <4>1, Lower
      <4>3. \A n \in DOMAIN stack' : n \in 1 .. Len(stack) - 1 /\ n \in DOMAIN stack
        BY <1>a, <4>1, <4>2
      <4> QED
        BY <4>2, <4>3
    <3>2. CASE Return
      BY <3>2 DEF Return
    <3> QED
      BY <1>3, <3>1, <3>2
  <2>3. \A n \in DOMAIN frames' : n \in DOMAIN frames /\ frames'[n] = frames[n]
    <3>1. CASE Discard
      BY <3>1 DEF Discard
    <3>2. CASE Return
      BY <1>0, <3>2, Left DEF Return, Leave
    <3> QED
      BY <1>3, <3>1, <3>2
  <2> QED
    BY <1>0, <2>1, <2>2, <2>3, BoundKept DEF BInv
<1>4. CASE GetWide \/ GetFails \/ SetFails \/ \E n \in 0 .. MaxStack : CallFails(n)
  <2>1. Fails
    BY <1>4 DEF GetWide, GetFails, SetFails, CallFails
  <2> QED
    BY <2>1, Failed DEF BInv
<1>5. CASE \E n \in 0 .. MaxStack : CallFunction(n) \/ CallMethod(n) \/ CallClass(n)
  <2>1. PICK n \in 0 .. MaxStack : CallFunction(n) \/ CallMethod(n) \/ CallClass(n)
    BY <1>5
  <2>2. n \in Nat /\ this' = this /\ Height > n
    BY <2>1, MethodAssumption DEF CallFunction, CallMethod, CallClass, CanCall
  <2>3. Made \subseteq Made'
    BY <2>1, <2>2, Allocated DEF CallFunction, CallMethod, Made
  <2>4. CASE \E callee \in Cells \cup {<<"fun">>}, name \in Callables, recv \in Receivers' :
               Enter(callee, name, n, recv, recv)
    <3>1. PICK callee \in Cells \cup {<<"fun">>}, name \in Callables,
               recv \in Receivers' : Enter(callee, name, n, recv, recv)
      BY <2>4
    <3>2. /\ \A m \in DOMAIN stack' : m \in DOMAIN stack /\ stack'[m] = stack[m]
          /\ \A m \in DOMAIN frames' :
               \/ m \in DOMAIN frames /\ frames'[m] = frames[m]
               \/ /\ frames'[m].this = recv /\ frames'[m].of = recv
                  /\ \A a \in DOMAIN frames'[m].args :
                       \E x \in DOMAIN stack : frames'[m].args[a] = stack[x]
      BY <1>0, <2>2, <2>3, <3>1, Entered
    <3> QED
      BY <1>0, <2>2, <3>2, BoundKept DEF BInv
  <2>5. CASE CallFunction(n)
    <3>1. Enter(<<"fun">>, "fun", n, NOTHING, NOTHING)
      BY <2>5 DEF CallFunction
    <3>2. NOTHING \in Receivers' /\ "fun" \in Callables
      BY DEF Receivers, Callables
    <3> QED
      BY <2>4, <3>1, <3>2
  <2>6. CASE CallMethod(n)
    <3>1. PICK k \in Cells, i \in Made :
            /\ Top(n) = Method(k[1], k[2], i)
            /\ Enter(k, k[2], n, this[k], Inst(i))
      BY <2>2, <2>6, Callee
    <3>2. BoundTo(Top(n))
      BY <1>0, <1>a, <2>2 DEF Bound, Top
    <3>3. <<k[1], k[2]>> = k
      BY DEF Cells
    <3>4. this[k] = Inst(i)
      BY <3>1, <3>2, <3>3 DEF BoundTo, Method
    <3>5. this[k] \in Receivers' /\ k[2] \in Callables
      BY <2>3, ThisReceiver, ValuesGrow
    <3>6. Enter(k, k[2], n, this[k], this[k])
      BY <3>1, <3>4
    <3> QED
      BY <2>4, <3>5, <3>6
  <2>7. CASE CallClass(n)
    <3>1. PICK c \in Classes, i \in Made' :
            IF Constructor \in Methods[c]
            THEN Enter(<<c, Constructor>>, Constructor, n, Inst(i), Inst(i))
            ELSE stack' = Append(Popped(n + 1), Inst(i)) /\ frames' = frames
      BY <2>2, <2>7, Allocated
    <3>2. CASE Constructor \in Methods[c]
      <4>1. <<c, Constructor>> \in Cells /\ Constructor \in Callables
            /\ Inst(i) \in Receivers'
        BY <3>2 DEF Cells, Callables, Receivers
      <4> QED
        BY <2>4, <3>1, <3>2, <4>1
    <3>3. CASE Constructor \notin Methods[c]
      <4>1. Len(stack) - (n + 1) \in Act.floor .. Len(stack) /\ Inst(i) \in Values'
        BY <1>a, <2>2 DEF Values
      <4>2. stack' = Append(SubSeq(stack, 1, Len(stack) - (n + 1)), Inst(i))
            /\ frames' = frames
        BY <3>1, <3>3 DEF Popped
      <4>3. PICK p \in Act.floor .. Len(stack), v \in Values' :
              v = Inst(i) /\ stack' = Append(SubSeq(stack, 1, p), v)
        BY <4>1, <4>2
      <4>4. /\ stack' \in Seq(Values') /\ Len(stack') = p + 1 /\ stack'[p + 1] = v
            /\ \A m \in 1 .. p : m \in DOMAIN stack /\ stack'[m] = stack[m]
        BY <1>0, <2>3, <4>2, <4>3, Replaced
      <4>5. \A m \in DOMAIN stack' : m \in 1 .. p \/ stack'[m] = v
        BY <1>a, <4>3, <4>4
      <4>6. v.tag # "method"
        BY <4>3 DEF Inst
      <4> QED
        BY <1>0, <2>2, <4>2, <4>4, <4>5, <4>6, BoundKept DEF BInv
    <3> QED
      BY <3>2, <3>3
  <2> QED
    BY <2>1, <2>5, <2>6, <2>7
<1> QED
  BY <1>1, <1>2, <1>3, <1>4, <1>5 DEF Next

THEOREM MethodsInvariant == Spec => []TInv
<1>1. Init => TInv
  BY FreshInit DEF TInv
<1> QED
  BY <1>1, TInvStep, PTL DEF Spec

\* Whatever is read, set and called, operands, fields, receivers and arguments
\* name objects that were made (vm.c:335-429, 469-600).
THEOREM MethodsTypes == Spec => []TypeOK
<1>1. TInv => TypeOK
  <2> SUFFICES ASSUME TInv PROVE TypeOK
    OBVIOUS
  <2>1. Shape /\ Nested
    BY DEF TInv
  <2>2. ASSUME NEW n \in DOMAIN frames
        PROVE  /\ frames[n].fun \in Cells \cup {<<"top">>, <<"fun">>}
               /\ {frames[n].this, frames[n].of} \subseteq Values
               /\ frames[n].args \in Seq(Values)
               /\ frames[n].floor \in 0 .. Len(stack)
    <3>1. frames[n] \in Acts /\ frames[n].floor \in 0 .. Len(stack)
      BY <2>1, <2>2, Running
    <3> QED
      BY <3>1, ReceiverValue DEF Acts
  <2> QED
    BY <2>1, <2>2 DEF TypeOK, Shape
<1> QED
  BY <1>1, MethodsInvariant, PTL

\* R_THIS is the object its method was read from, in every activation, as long
\* as no method is read from one object while it is held, read from another
\* (OP_GET writes the receiver to the one callable, OP_CALL copies it).
THEOREM MethodsKeepReceiver == ~Overlaps => (Spec => ReceiverKept)
<1>1. Init => BInv
  BY FreshInit DEF BInv
<1>2. ASSUME TInv, BInv, LoadThis \/ EndConstructor
      PROVE  stack'[Len(stack')] = Act.of
  <2>1. Shape /\ Nested /\ OwnReceiver
    BY <1>2 DEF TInv, BInv
  <2>2. /\ stack \in Seq(Values) /\ Len(stack) \in Nat
        /\ Act.floor \in 0 .. Len(stack) /\ Height = Len(stack) - Act.floor
        /\ Act = frames[Len(frames)] /\ Len(frames) \in DOMAIN frames /\ Act \in Acts
    BY <2>1, Running DEF Shape
  <2>3. Act.this = Act.of /\ Act.this \in Values
    BY <2>1, <2>2, ReceiverValue DEF OwnReceiver, Acts
  <2>4. PICK p \in 0 .. Len(stack) : stack' = Append(SubSeq(stack, 1, p), Act.this)
    <3>1. CASE LoadThis
      <4>1. stack' = Append(stack, Act.this) /\ SubSeq(stack, 1, Len(stack)) = stack
        BY <2>2, <3>1, SubSeqFull DEF LoadThis, Push
      <4>2. Len(stack) \in 0 .. Len(stack)
        BY <2>2
      <4> QED
        BY <4>1, <4>2
    <3>2. CASE EndConstructor
      <4>1. Len(stack) - 1 \in 0 .. Len(stack)
        BY <2>2, <3>2 DEF EndConstructor
      <4> QED
        BY <3>2, <4>1 DEF EndConstructor, Popped
    <3> QED
      BY <1>2, <3>1, <3>2
  <2>5. Len(stack') = p + 1 /\ stack'[p + 1] = Act.this
    BY <2>2, <2>3, <2>4, Topped
  <2> QED
    BY <2>3, <2>5
<1>3. TInv /\ BInv => [LoadThis \/ EndConstructor => stack'[Len(stack')] = Act.of]_vars
  BY <1>2
<1>4. CASE ~Overlaps
  <2>1. Spec => [](TInv /\ BInv)
    BY <1>1, <1>4, BInvStep, MethodsInvariant, PTL DEF Spec
  <2> QED
    BY <1>3, <2>1, PTL DEF Spec, ReceiverKept
<1> QED
  BY <1>4
=============================================================================
