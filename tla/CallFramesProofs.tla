-------------------------- MODULE CallFramesProofs --------------------------
(***************************************************************************)
(* The frames of CallFrames are apart, and every return finds its caller,   *)
(* whatever is called and declared, as long as calls stay within the width  *)
(* of the offset.                                                           *)
(***************************************************************************)
EXTENDS CallFrames, SequenceTheorems, TLAPS

\* What the program does not check: the offset and the frame step do not wrap.
Limits ==
  /\ MaxFrame < Width
  /\ MaxLocals + Priv < Width
  /\ \A f \in Funs : Arity[f] <= MaxLocals /\ Outer[f] + MaxLocals + Priv < Width

Size(act) == act.outer + Len(act.live) + Priv

\* No activation has more live locals than it has declared, or more than fit.
Small ==
  \A n \in DOMAIN acts :
    /\ Len(acts[n].live) <= acts[n].next
    /\ acts[n].next <= MaxLocals
    /\ acts[n].outer + MaxLocals + Priv < Width

\* An activation's frame begins after those of all activations below it.
Stacked ==
  \A m, n \in DOMAIN acts : m < n => acts[m].base + Size(acts[m]) <= acts[n].base

\* Without the end of a block, the live locals have the first registers.
Dense ==
  \A n \in DOMAIN acts :
    /\ Len(acts[n].live) = acts[n].next
    /\ \A j \in DOMAIN acts[n].live : acts[n].live[j] = j - 1

Frames == TypeOK /\ Small /\ Stacked /\ ReturnsToCaller

-----------------------------------------------------------------------------
LEMMA NatWidth == Width \in Nat /\ NumRegs \in Nat /\ Priv \in Nat /\ Priv = 4
BY FrameAssumption DEF Priv

LEMMA ArgsSeq ==
  ASSUME NEW args \in Args
  PROVE  args \in Seq(Vals) /\ Len(args) \in 0 .. MaxArgs
<1>1. PICK n \in 0 .. MaxArgs : args \in [1 .. n -> Vals]
  BY DEF Args
<1>2. n \in Nat
  BY FrameAssumption
<1> QED BY <1>1, <1>2, SeqDef

LEMMA NoWrap == \A a, b \in Nat : a < b => a % b = a
OBVIOUS

\* What a call may rely on: the offset moves by what the compiler counted, past
\* every frame, and does not wrap.
LEMMA CalleeAbove ==
  ASSUME Limits, Frames, Calling
  PROVE  /\ Callee = Act.base + Size(Act)
         /\ Callee \in 0 .. Width - 1
         /\ cfo = Act.base
         /\ \A n \in DOMAIN acts : acts[n].base + Size(acts[n]) <= Callee
         /\ \A n \in DOMAIN acts : acts[n].base + Priv <= Callee
<1> USE NatWidth
<1> DEFINE top == Len(acts)
<1>1. acts \in Seq(Activations) /\ top \in Nat \ {0} /\ DOMAIN acts = 1 .. top
  BY DEF Frames, TypeOK
<1>2. \A n \in 1 .. top : acts[n] \in Activations
  BY <1>1
<1>3. \A n \in 1 .. top : /\ acts[n].base \in Nat /\ acts[n].outer \in Nat
                          /\ Len(acts[n].live) \in Nat /\ Size(acts[n]) \in Nat
                          /\ Priv <= Size(acts[n])
  BY <1>2 DEF Activations, Size
<1>4. Act = acts[top] /\ top \in 1 .. top
  BY <1>1 DEF Act
<1>5. LocalCount + Priv = Size(Act)
  BY <1>3, <1>4 DEF LocalCount, Size
<1>6. Size(Act) < Width
  <2>1. Len(Act.live) <= Act.next /\ Act.next <= MaxLocals /\ Act.outer + MaxLocals + Priv < Width
    BY <1>1, <1>4 DEF Frames, Small
  <2>2. Act.next \in Nat /\ MaxLocals \in Nat
    BY <1>2, <1>4, FrameAssumption DEF Activations
  <2>3. Act.outer \in Nat /\ Len(Act.live) \in Nat
    BY <1>3, <1>4
  <2>4. Size(Act) = Act.outer + Len(Act.live) + Priv
    BY DEF Size
  <2> HIDE DEF top
  <2> QED BY <2>1, <2>2, <2>3, <2>4, FrameAssumption
<1>a. Size(Act) \in Nat /\ Act.base \in Nat
  BY <1>3, <1>4
<1>7. Step = Size(Act)
  BY <1>a, <1>5, <1>6, NoWrap DEF Step
<1>8. cfo = Act.base /\ cfo + Step <= MaxFrame
  BY DEF Calling, Frames, ReturnsToCaller
<1>9. Callee = Act.base + Size(Act) /\ Callee \in 0 .. Width - 1
  <2>1. Act.base + Size(Act) \in Nat /\ Act.base + Size(Act) < Width
    BY <1>a, <1>7, <1>8, FrameAssumption DEF Limits
  <2> QED BY <2>1, <1>7, <1>8, NoWrap DEF Callee
<1>10. ASSUME NEW n \in 1 .. top
       PROVE acts[n].base + Size(acts[n]) <= Callee
  <2>1. CASE n = top
    BY <2>1, <1>4, <1>9
  <2>2. CASE n < top
    <3>1. acts[n].base + Size(acts[n]) <= Act.base
      BY <2>2, <1>1, <1>4 DEF Frames, Stacked
    <3> QED BY <3>1, <1>3, <1>a, <1>9
  <2>3. n = top \/ n < top
    <3> HIDE DEF top
    <3> QED BY <1>1
  <2> QED BY <2>1, <2>2, <2>3
<1> QED BY <1>1, <1>3, <1>8, <1>9, <1>10

Registers == [0 .. NumRegs - 1 -> Contents]

\* The arguments go into the callee's registers and nowhere else.
LEMMA PassedAbove ==
  ASSUME Limits, Frames, Calling, NEW args \in Args
  PROVE  /\ Passed(args) \in Registers
         /\ \A x \in 0 .. Callee + Priv - 1 : Passed(args)[x] = r[x]
         /\ \A i \in 1 .. Len(args) : Passed(args)[Callee + Priv + i - 1] = args[i]
<1> USE NatWidth
<1>1. args \in Seq(Vals) /\ Len(args) \in Nat /\ Len(args) < Width
  BY ArgsSeq, FrameAssumption
<1>2. Callee \in 0 .. Width - 1
  BY CalleeAbove
<1>3. r \in Registers /\ DOMAIN r = 0 .. NumRegs - 1
  BY DEF Frames, TypeOK, Registers
<1>4. 2 * Width + Priv <= NumRegs
  BY FrameAssumption
<1>5. \A i \in 1 .. Len(args) : args[i] \in Contents
  BY <1>1 DEF Contents
<1>6. \A x \in 0 .. NumRegs - 1 :
        Passed(args)[x] = IF x - Callee - Priv + 1 \in 1 .. Len(args)
                            THEN args[x - Callee - Priv + 1] ELSE r[x]
  BY <1>3 DEF Passed
<1>7. Passed(args) \in Registers
  BY <1>3, <1>5 DEF Passed, Registers
<1>8. \A x \in 0 .. Callee + Priv - 1 : Passed(args)[x] = r[x]
  BY <1>1, <1>2, <1>4, <1>6
<1>9. ASSUME NEW i \in 1 .. Len(args)
      PROVE  Passed(args)[Callee + Priv + i - 1] = args[i]
  <2>1. Callee + Priv + i - 1 \in 0 .. NumRegs - 1
    BY <1>1, <1>2, <1>4
  <2>2. (Callee + Priv + i - 1) - Callee - Priv + 1 = i
    BY <1>1, <1>2
  <2> QED BY <2>1, <2>2, <1>6
<1> QED BY <1>7, <1>8, <1>9

\* A call writes the callee's own registers, the first four and the arguments.
LEMMA EnteredAbove ==
  ASSUME Limits, Frames, Calling, NEW args \in Args,
         NEW site \in Sites, NEW f \in Funs, NEW this \in Receivers
  PROVE  LET e == Entered(site, f, this, args) IN
         /\ e \in Registers
         /\ \A x \in 0 .. Callee - 1 : e[x] = r[x]
         /\ e[Callee] = site /\ e[Callee + 1] = cfo
         /\ e[Callee + 2] = f /\ e[Callee + 3] = this
         /\ \A i \in 1 .. Len(args) : e[Callee + Priv + i - 1] = args[i]
<1> USE NatWidth
<1> DEFINE p == Passed(args)
           e == Entered(site, f, this, args)
<1>1. /\ p \in Registers
      /\ \A x \in 0 .. Callee + Priv - 1 : p[x] = r[x]
      /\ \A i \in 1 .. Len(args) : p[Callee + Priv + i - 1] = args[i]
  BY PassedAbove
<1>2. Callee \in 0 .. Width - 1 /\ 2 * Width + Priv <= NumRegs
  BY CalleeAbove, FrameAssumption
<1>3. Len(args) \in Nat /\ Len(args) < Width
  BY ArgsSeq, FrameAssumption
<1>4. cfo \in Contents /\ site \in Contents /\ f \in Contents /\ this \in Contents
  BY DEF Frames, TypeOK, Contents
<1>5. e = [p EXCEPT ![Callee] = site, ![Callee + 1] = cfo,
                    ![Callee + 2] = f, ![Callee + 3] = this]
  BY DEF Entered
<1> HIDE DEF p, e
<1>6. e \in Registers
  BY <1>1, <1>4, <1>5 DEF Registers
<1>7. /\ \A x \in 0 .. Callee - 1 : e[x] = r[x]
      /\ e[Callee] = site /\ e[Callee + 1] = cfo
      /\ e[Callee + 2] = f /\ e[Callee + 3] = this
  BY <1>1, <1>2, <1>5 DEF Registers
<1>8. ASSUME NEW i \in 1 .. Len(args)
      PROVE  e[Callee + Priv + i - 1] = args[i]
  <2> DEFINE x == Callee + Priv + i - 1
  <2>1. x \in 0 .. NumRegs - 1 /\ x > Callee + 3
    BY <1>2, <1>3
  <2>2. e[x] = p[x]
    <3> HIDE DEF x
    <3>1. x # Callee /\ x # Callee + 1 /\ x # Callee + 2 /\ x # Callee + 3
      BY <2>1, <1>2
    <3> QED BY <3>1, <2>1, <1>1, <1>5 DEF Registers
  <2> QED BY <2>2, <1>1
<1> QED BY <1>6, <1>7, <1>8 DEF e

-----------------------------------------------------------------------------
(* Each action keeps Frames. *)

\* What Frames says of the activations, with the running one named.
LEMMA Activated ==
  ASSUME Frames
  PROVE  /\ acts \in Seq(Activations) /\ Len(acts) \in Nat \ {0}
         /\ DOMAIN acts = 1 .. Len(acts)
         /\ Act = acts[Len(acts)]
         /\ \A n \in 1 .. Len(acts) :
              /\ acts[n] \in Activations
              /\ acts[n].base \in 0 .. Width - 1 /\ acts[n].outer \in Nat
              /\ acts[n].live \in Seq(0 .. Width - 1) /\ acts[n].next \in 0 .. Width - 1
              /\ Len(acts[n].live) \in Nat /\ Size(acts[n]) \in Nat
<1>1. /\ acts \in Seq(Activations) /\ Len(acts) \in Nat \ {0}
      /\ DOMAIN acts = 1 .. Len(acts) /\ Act = acts[Len(acts)]
  BY DEF Frames, TypeOK, Act
<1>2. ASSUME NEW n \in 1 .. Len(acts)
      PROVE  /\ acts[n] \in Activations
             /\ acts[n].base \in 0 .. Width - 1 /\ acts[n].outer \in Nat
             /\ acts[n].live \in Seq(0 .. Width - 1) /\ acts[n].next \in 0 .. Width - 1
             /\ Len(acts[n].live) \in Nat /\ Size(acts[n]) \in Nat
  <2>1. acts[n] \in Activations
    BY <1>1
  <2>2. /\ acts[n].base \in 0 .. Width - 1 /\ acts[n].outer \in Nat
        /\ acts[n].live \in Seq(0 .. Width - 1) /\ acts[n].next \in 0 .. Width - 1
    BY <2>1 DEF Activations
  <2>3. Len(acts[n].live) \in Nat
    BY <2>2
  <2> QED BY <2>1, <2>2, <2>3, NatWidth DEF Size
<1> QED BY <1>1, <1>2

LEMMA Called ==
  ASSUME Limits, NEW f \in Funs
  PROVE  LET live == [j \in 1 .. Arity[f] |-> j - 1] IN
         /\ Arity[f] \in 0 .. MaxArgs
         /\ live \in Seq(0 .. Width - 1) /\ Len(live) = Arity[f]
<1>1. Arity[f] \in Nat /\ Arity[f] <= MaxArgs /\ MaxArgs < Width /\ MaxArgs \in Nat
  BY FrameAssumption
<1>2. [j \in 1 .. Arity[f] |-> j - 1] \in [1 .. Arity[f] -> 0 .. Width - 1]
  <2>1. \A j \in 1 .. Arity[f] : j - 1 \in 0 .. Width - 1
    BY <1>1, NatWidth
  <2> QED BY <2>1
<1> DEFINE live == [j \in 1 .. Arity[f] |-> j - 1]
<1>3. live \in Seq(0 .. Width - 1) /\ DOMAIN live = 1 .. Arity[f]
  BY <1>1, <1>2, SeqDef
<1> HIDE DEF live
<1>4. Len(live) = Arity[f]
  BY <1>1, <1>3, LenProperties
<1> QED BY <1>1, <1>3, <1>4 DEF live

LEMMA CallFunctionKeeps ==
  ASSUME Limits, Frames, NEW args \in Args,
         NEW site \in Sites, NEW f \in Funs, NEW this \in Receivers,
         CallFunction(site, f, this, args)
  PROVE  Frames'
<1> USE NatWidth
<1> DEFINE top == Len(acts)
           new == [base |-> Callee, outer |-> Outer[f],
                   live |-> [j \in 1 .. Arity[f] |-> j - 1], next |-> Arity[f]]
<1>1. /\ Calling /\ cfo' = Callee /\ acts' = Append(acts, new)
      /\ r' = Entered(site, f, this, args) /\ running' = running
  BY DEF CallFunction
<1>2. /\ Callee \in 0 .. Width - 1 /\ cfo = Act.base
      /\ \A n \in 1 .. top : acts[n].base + Size(acts[n]) <= Callee /\ acts[n].base + Priv <= Callee
  BY <1>1, CalleeAbove, Activated
<1>3. /\ r' \in Registers /\ \A x \in 0 .. Callee - 1 : r'[x] = r[x]
      /\ r'[Callee + 1] = cfo
  BY <1>1, EnteredAbove
<1>4. /\ Arity[f] \in 0 .. MaxArgs /\ Arity[f] \in 0 .. Width - 1
      /\ new.live \in Seq(0 .. Width - 1) /\ Len(new.live) = Arity[f]
      /\ Outer[f] \in Nat
  BY Called, FrameAssumption
<1>5. new \in Activations
  BY <1>2, <1>4 DEF Activations
<1>6. /\ new.base = Callee /\ new.outer = Outer[f] /\ new.next = Arity[f]
  OBVIOUS
<1> HIDE DEF new
<1>7. /\ acts' \in Seq(Activations) /\ Len(acts') = top + 1 /\ top \in Nat \ {0}
      /\ DOMAIN acts' = 1 .. top + 1
      /\ \A n \in 1 .. top : acts'[n] = acts[n]
      /\ acts'[top + 1] = new
  BY <1>1, <1>5, Activated
<1>8. TypeOK'
  BY <1>1, <1>2, <1>3, <1>7 DEF Frames, TypeOK, Registers
<1>9. Small'
  <2>1. /\ Arity[f] <= MaxLocals /\ Outer[f] + MaxLocals + Priv < Width
    BY DEF Limits
  <2>2. ASSUME NEW n \in 1 .. top + 1
        PROVE  /\ Len(acts'[n].live) <= acts'[n].next
               /\ acts'[n].next <= MaxLocals
               /\ acts'[n].outer + MaxLocals + Priv < Width
    <3>1. CASE n = top + 1
      BY <3>1, <2>1, <1>4, <1>6, <1>7
    <3>2. CASE n \in 1 .. top
      BY <3>2, <1>7, Activated DEF Frames, Small
    <3> QED BY <3>1, <3>2, <1>7
  <2> QED BY <2>2, <1>7 DEF Small
<1>10. Stacked'
  <2>1. ASSUME NEW m \in 1 .. top + 1, NEW n \in 1 .. top + 1, m < n
        PROVE  acts'[m].base + Size(acts'[m]) <= acts'[n].base
    <3>1. m \in 1 .. top
      BY <2>1, <1>7
    <3>2. CASE n = top + 1
      BY <3>1, <3>2, <1>2, <1>6, <1>7
    <3>3. CASE n \in 1 .. top
      BY <2>1, <3>1, <3>3, <1>7, Activated DEF Frames, Stacked
    <3> QED BY <3>2, <3>3, <1>7
  <2> QED BY <2>1, <1>7 DEF Stacked
<1>11. ReturnsToCaller'
  <2>1. cfo' = acts'[Len(acts')].base
    BY <1>1, <1>6, <1>7
  <2>2. ASSUME NEW n \in 2 .. top + 1
        PROVE  r'[acts'[n].base + 1] = acts'[n - 1].base
    <3>1. CASE n = top + 1
      <4>1. acts'[n].base = Callee /\ acts'[n - 1] = acts[top]
        BY <3>1, <1>6, <1>7
      <4>2. Act = acts[top]
        BY Activated
      <4> QED BY <4>1, <4>2, <1>2, <1>3
    <3>2. CASE n \in 2 .. top
      <4>1. acts[n].base + 1 \in 0 .. Callee - 1
        <5>1. acts[n].base \in Nat /\ acts[n].base + Priv <= Callee
          BY <3>2, <1>2, <1>7, Activated
        <5> QED BY <5>1, <1>2
      <4>2. r[acts[n].base + 1] = acts[n - 1].base
        BY <3>2 DEF Frames, ReturnsToCaller
      <4>3. acts'[n] = acts[n] /\ acts'[n - 1] = acts[n - 1]
        BY <3>2, <1>7
      <4> QED BY <4>1, <4>2, <4>3, <1>3
    <3> QED BY <3>1, <3>2, <1>7
  <2> QED BY <2>1, <2>2, <1>7 DEF ReturnsToCaller, Act
<1> QED BY <1>8, <1>9, <1>10, <1>11 DEF Frames

\* A call that comes back at once, or fails, leaves the activations alone.
LEMMA UnenteredKeeps ==
  ASSUME Limits, Frames, NEW args \in Args, Calling,
         \/ r' = Passed(args)
         \/ \E site \in Sites, f \in Funs, this \in Receivers :
              r' = Entered(site, f, this, args),
         \/ cfo' = cfo /\ running' = running
         \/ cfo' = Callee /\ running' = FALSE,
         acts' = acts
  PROVE  Frames'
<1> USE NatWidth
<1>1. r' \in Registers /\ \A x \in 0 .. Callee - 1 : r'[x] = r[x]
  <2>1. CASE r' = Passed(args)
    BY <2>1, PassedAbove, CalleeAbove
  <2>2. ASSUME NEW site \in Sites, NEW f \in Funs, NEW this \in Receivers,
               r' = Entered(site, f, this, args)
        PROVE  r' \in Registers /\ \A x \in 0 .. Callee - 1 : r'[x] = r[x]
    BY <2>2, EnteredAbove
  <2> QED BY <2>1, <2>2
<1>2. /\ Callee \in 0 .. Width - 1
      /\ \A n \in 1 .. Len(acts) : acts[n].base + Priv <= Callee
  BY CalleeAbove, Activated
<1>3. TypeOK'
  BY <1>1, <1>2 DEF Frames, TypeOK, Registers
<1>4. Small' /\ Stacked'
  BY DEF Frames, Small, Stacked
<1>5. ReturnsToCaller'
  <2>1. (cfo = Act.base \/ ~running)'
    BY DEF Frames, ReturnsToCaller, Act, Calling
  <2>2. ASSUME NEW n \in 2 .. Len(acts)
        PROVE  r'[acts[n].base + 1] = acts[n - 1].base
    <3>1. acts[n].base + 1 \in 0 .. Callee - 1
      BY <1>2, Activated
    <3> QED BY <3>1, <1>1 DEF Frames, ReturnsToCaller
  <2> QED BY <2>1, <2>2 DEF ReturnsToCaller
<1> QED BY <1>3, <1>4, <1>5 DEF Frames

LEMMA ReturnKeeps ==
  ASSUME Limits, Frames, Return
  PROVE  Frames'
<1> USE NatWidth
<1> DEFINE top == Len(acts)
<1>1. /\ running /\ top > 1 /\ cfo' = r[cfo + 1] /\ r' = r /\ running' = running
      /\ acts' = SubSeq(acts, 1, top - 1)
  BY DEF Return
<1>2. top \in Nat /\ top \in 2 .. top /\ top - 1 \in 1 .. top
  BY <1>1, Activated
<1>3. /\ acts' \in Seq(Activations) /\ Len(acts') = top - 1
      /\ DOMAIN acts' = 1 .. top - 1
      /\ \A n \in 1 .. top - 1 : acts'[n] = acts[n]
  BY <1>1, <1>2, Activated
<1>4. cfo' = acts[top - 1].base
  BY <1>1, <1>2, Activated DEF Frames, ReturnsToCaller
<1>5. TypeOK'
  <2>1. cfo' \in 0 .. Width - 1
    BY <1>2, <1>4, Activated
  <2>2. acts' # <<>>
    <3>1. Len(acts') # 0
      BY <1>1, <1>2, <1>3
    <3>2. Len(<<>>) = 0
      OBVIOUS
    <3> QED BY <3>1, <3>2
  <2> QED BY <2>1, <2>2, <1>1, <1>3 DEF Frames, TypeOK
<1>6. 1 .. top - 1 \subseteq DOMAIN acts
  BY <1>2, Activated
<1>7. Small'
  BY <1>3, <1>6 DEF Frames, Small
<1>8. Stacked'
  BY <1>3, <1>6 DEF Frames, Stacked
<1>9. ReturnsToCaller'
  <2>1. Act' = acts[top - 1]
    BY <1>2, <1>3 DEF Act
  <2>2. ASSUME NEW n \in 2 .. top - 1
        PROVE  r'[acts'[n].base + 1] = acts'[n - 1].base
    BY <1>1, <1>2, <1>3 DEF Frames, ReturnsToCaller
  <2> QED BY <2>1, <2>2, <1>3, <1>4 DEF ReturnsToCaller
<1> QED BY <1>5, <1>7, <1>8, <1>9 DEF Frames

\* The running activation's registers lie past all return registers.
LEMMA LocalAbove ==
  ASSUME Frames, running, NEW k \in 0 .. Width - 1, NEW v \in Vals
  PROVE  LET w == [r EXCEPT ![Register(k)] = v] IN
         /\ w \in Registers
         /\ \A n \in 2 .. Len(acts) : w[acts[n].base + 1] = acts[n - 1].base
<1> USE NatWidth
<1> DEFINE top == Len(acts)
<1>1. cfo = acts[top].base /\ top \in Nat \ {0}
  BY Activated DEF Frames, ReturnsToCaller
<1>2. Register(k) = acts[top].base + Priv + k /\ acts[top].base \in 0 .. Width - 1
  BY <1>1, Activated DEF Register
<1>3. [r EXCEPT ![Register(k)] = v] \in Registers
  BY DEF Frames, TypeOK, Registers, Contents
<1>4. ASSUME NEW n \in 2 .. top
      PROVE  [r EXCEPT ![Register(k)] = v][acts[n].base + 1] = acts[n - 1].base
  <2>1. acts[n].base <= acts[top].base /\ acts[n].base \in 0 .. Width - 1
    <3>1. CASE n = top
      BY <3>1, <1>2
    <3>2. CASE n < top
      <4>1. acts[n].base + Size(acts[n]) <= acts[top].base
        BY <3>2, <1>1, Activated DEF Frames, Stacked
      <4> QED BY <4>1, <1>2, Activated
    <3> QED BY <3>1, <3>2, <1>1
  <2>2. acts[n].base + 1 # Register(k)
    BY <2>1, <1>2
  <2>3. acts[n].base + 1 \in 0 .. NumRegs - 1
    BY <2>1, FrameAssumption
  <2> QED BY <2>2, <2>3 DEF Frames, TypeOK, ReturnsToCaller
<1> QED BY <1>3, <1>4

\* What the running activation does to itself is no concern of the others.
OwnChange(new) ==
  /\ acts' = [acts EXCEPT ![Len(acts)] = new]
  /\ new \in Activations /\ new.base = Act.base /\ new.outer = Act.outer
  /\ Len(new.live) <= new.next /\ new.next <= MaxLocals
  /\ r' \in Registers
  /\ \A n \in 2 .. Len(acts) : r'[acts[n].base + 1] = acts[n - 1].base
  /\ UNCHANGED <<cfo, running>>

LEMMA OwnChangeKeeps ==
  ASSUME Limits, Frames, running, NEW new, OwnChange(new)
  PROVE  Frames'
<1> USE NatWidth
<1> DEFINE top == Len(acts)
<1>1. top \in Nat \ {0} /\ Act = acts[top] /\ top \in DOMAIN acts /\ DOMAIN acts = 1 .. top
  BY Activated
<1>2. /\ acts' \in Seq(Activations) /\ Len(acts') = top /\ DOMAIN acts' = 1 .. top
      /\ acts'[top] = new /\ \A n \in 1 .. top - 1 : acts'[n] = acts[n]
  <2>1. acts \in Seq(Activations)
    BY Activated
  <2> HIDE DEF top
  <2>2. /\ acts' \in Seq(Activations) /\ Len(acts') = Len(acts)
        /\ \A n \in 1 .. Len(acts) : acts'[n] = IF n = top THEN new ELSE acts[n]
    BY <2>1, <1>1, ExceptSeq DEF top, OwnChange
  <2>3. Len(acts) = top
    BY DEF top
  <2>4. DOMAIN acts' = 1 .. Len(acts')
    <3>1. acts' \in Seq(Activations)
      BY <2>2
    <3> QED BY <3>1, LenProperties
  <2>5. top \in 1 .. top /\ \A n \in 1 .. top - 1 : n \in 1 .. top /\ n # top
    BY <1>1
  <2> QED BY <2>2, <2>3, <2>4, <2>5
<1>3. \A n \in 1 .. top : acts'[n].base = acts[n].base /\ acts'[n].outer = acts[n].outer
  <2>1. new.base = acts[top].base /\ new.outer = acts[top].outer
    BY <1>1 DEF OwnChange
  <2> HIDE DEF top
  <2>2. \A n \in 1 .. top : n = top \/ n \in 1 .. top - 1
    BY <1>1
  <2> QED BY <2>1, <2>2, <1>2
<1>4. TypeOK'
  <2>1. acts' # <<>>
    BY <1>1, <1>2
  <2> QED BY <2>1, <1>2 DEF Frames, TypeOK, Registers, OwnChange
<1>5. Small'
  <2>1. \A n \in 1 .. top : acts'[n].outer + MaxLocals + Priv < Width
    BY <1>1, <1>3 DEF Frames, Small
  <2>2. \A n \in 1 .. top : Len(acts'[n].live) <= acts'[n].next /\ acts'[n].next <= MaxLocals
    <3>1. Len(new.live) <= new.next /\ new.next <= MaxLocals
      BY DEF OwnChange
    <3>2. \A n \in 1 .. top : Len(acts[n].live) <= acts[n].next /\ acts[n].next <= MaxLocals
      BY <1>1 DEF Frames, Small
    <3> HIDE DEF top
    <3>3. \A n \in 1 .. top : n = top \/ n \in 1 .. top - 1
      BY <1>1
    <3> QED BY <3>1, <3>2, <3>3, <1>2
  <2> QED BY <2>1, <2>2, <1>2 DEF Small
<1>6. Stacked'
  <2>1. ASSUME NEW m \in 1 .. top, NEW n \in 1 .. top, m < n
        PROVE  acts'[m].base + Size(acts'[m]) <= acts'[n].base
    <3>1. acts'[m] = acts[m]
      <4> HIDE DEF top
      <4>1. m \in 1 .. top - 1
        BY <2>1, <1>1
      <4> QED BY <4>1, <1>2
    <3> QED BY <3>1, <2>1, <1>1, <1>3 DEF Frames, Stacked
  <2> QED BY <2>1, <1>2 DEF Stacked
<1>7. ReturnsToCaller'
  <2>1. cfo' = Act'.base
    <3>1. Act' = new
      BY <1>2 DEF Act
    <3> QED BY <3>1 DEF Frames, ReturnsToCaller, OwnChange
  <2>2. ASSUME NEW n \in 2 .. top
        PROVE  r'[acts'[n].base + 1] = acts'[n - 1].base
    <3>1. n \in 1 .. top /\ n - 1 \in 1 .. top
      <4> HIDE DEF top
      <4> QED BY <1>1
    <3>2. r'[acts[n].base + 1] = acts[n - 1].base
      BY DEF OwnChange
    <3> QED BY <3>1, <3>2, <1>3
  <2> QED BY <2>1, <2>2, <1>2 DEF ReturnsToCaller
<1> QED BY <1>4, <1>5, <1>6, <1>7 DEF Frames

LEMMA AssignKeeps ==
  ASSUME Limits, Frames, NEW j \in DOMAIN Act.live, NEW v \in Vals, Assign(j, v)
  PROVE  Frames'
<1>1. running /\ r' = [r EXCEPT ![Register(Act.live[j])] = v]
      /\ UNCHANGED <<cfo, running, acts>>
  BY DEF Assign
<1>2. Act.live[j] \in 0 .. Width - 1 /\ Len(acts) \in 1 .. Len(acts)
  <2>1. Len(acts) \in 1 .. Len(acts) /\ Act = acts[Len(acts)]
    BY Activated
  <2>2. Act.live \in Seq(0 .. Width - 1)
    BY <2>1, Activated
  <2> QED BY <2>1, <2>2, LenProperties
<1>3. r' \in Registers /\ \A n \in 2 .. Len(acts) : r'[acts[n].base + 1] = acts[n - 1].base
  BY <1>1, <1>2, LocalAbove
<1>4. acts' = [acts EXCEPT ![Len(acts)] = Act] /\ Act \in Activations
  BY <1>1, <1>2, Activated
<1>5. Len(Act.live) <= Act.next /\ Act.next <= MaxLocals
  BY <1>2, Activated DEF Frames, Small
<1> QED BY <1>1, <1>3, <1>4, <1>5, OwnChangeKeeps DEF OwnChange

LEMMA DeclareKeeps ==
  ASSUME Limits, Frames, NEW v \in Vals, Declare(v)
  PROVE  Frames'
<1> USE NatWidth
<1> DEFINE new == [Act EXCEPT !.live = Append(@, Act.next), !.next = (@ + 1) % Width]
<1>1. /\ running /\ Act.next < MaxLocals /\ r' = [r EXCEPT ![Register(Act.next)] = v]
      /\ acts' = [acts EXCEPT ![Len(acts)] = new] /\ UNCHANGED <<cfo, running>>
  BY Activated DEF Declare
<1>2. /\ Len(acts) \in 1 .. Len(acts) /\ Act \in Activations
      /\ Act.next \in 0 .. Width - 1 /\ Act.live \in Seq(0 .. Width - 1)
      /\ Len(Act.live) \in Nat /\ Len(Act.live) <= Act.next
  BY Activated DEF Frames, Small
<1>3. Act.next + 1 \in 0 .. Width - 1 /\ Act.next + 1 <= MaxLocals
  BY <1>1, <1>2, FrameAssumption DEF Limits
<1>4. (Act.next + 1) % Width = Act.next + 1
  BY <1>3, NoWrap
<1>5. /\ new \in Activations /\ new.base = Act.base /\ new.outer = Act.outer
      /\ new.next = Act.next + 1 /\ new.live = Append(Act.live, Act.next)
  <2>1. /\ new.base = Act.base /\ new.outer = Act.outer /\ new.next = Act.next + 1
        /\ new.live = Append(Act.live, Act.next)
    BY <1>2, <1>4 DEF Activations
  <2>2. Append(Act.live, Act.next) \in Seq(0 .. Width - 1)
    BY <1>2
  <2>3. new = [Act EXCEPT !.live = Append(Act.live, Act.next), !.next = Act.next + 1]
    BY <1>2, <1>4 DEF Activations
  <2>4. new \in Activations
    BY <2>2, <2>3, <1>2, <1>3 DEF Activations
  <2> QED BY <2>1, <2>4
<1>6. Len(new.live) = Len(Act.live) + 1
  BY <1>2, <1>5
<1>7. r' \in Registers /\ \A n \in 2 .. Len(acts) : r'[acts[n].base + 1] = acts[n - 1].base
  BY <1>1, <1>2, LocalAbove
<1> HIDE DEF new
<1>8. Len(new.live) <= new.next /\ new.next <= MaxLocals
  BY <1>2, <1>3, <1>5, <1>6
<1> QED BY <1>1, <1>5, <1>7, <1>8, OwnChangeKeeps DEF OwnChange

LEMMA EndBlockKeeps ==
  ASSUME Limits, Frames, NEW j \in DOMAIN Act.live, EndBlock(j)
  PROVE  Frames'
<1> USE NatWidth
<1> DEFINE new == [Act EXCEPT !.live = SubSeq(@, 1, j - 1)]
<1>1. /\ running /\ acts' = [acts EXCEPT ![Len(acts)] = new]
      /\ UNCHANGED <<cfo, r, running>>
  BY Activated DEF EndBlock
<1>2. /\ Len(acts) \in 1 .. Len(acts) /\ Act \in Activations
      /\ Act.live \in Seq(0 .. Width - 1) /\ Len(Act.live) \in Nat
      /\ Len(Act.live) <= Act.next /\ Act.next \in Nat /\ Act.next <= MaxLocals
  BY Activated DEF Frames, Small
<1>3. j \in 1 .. Len(Act.live)
  BY <1>2
<1>4. SubSeq(Act.live, 1, j - 1) \in Seq(0 .. Width - 1) /\ Len(SubSeq(Act.live, 1, j - 1)) = j - 1
  BY <1>2, <1>3
<1>5. /\ new \in Activations /\ new.base = Act.base /\ new.outer = Act.outer
      /\ new.next = Act.next /\ new.live = SubSeq(Act.live, 1, j - 1)
  BY <1>2, <1>4 DEF Activations
<1>6. r' \in Registers /\ \A n \in 2 .. Len(acts) : r'[acts[n].base + 1] = acts[n - 1].base
  BY <1>1 DEF Frames, TypeOK, ReturnsToCaller, Registers
<1> HIDE DEF new
<1>7. Len(new.live) <= new.next /\ new.next <= MaxLocals
  BY <1>2, <1>3, <1>4, <1>5
<1> QED BY <1>1, <1>5, <1>6, <1>7, OwnChangeKeeps DEF OwnChange

LEMMA FramesInit ==
  ASSUME Limits, Init
  PROVE  Frames
<1> USE NatWidth
<1> DEFINE first == [base |-> 0, outer |-> 0, live |-> <<>>, next |-> 0]
<1>1. /\ acts = <<first>> /\ cfo = 0 /\ running = TRUE
      /\ r = [x \in 0 .. NumRegs - 1 |-> ZERO]
  BY DEF Init
<1>2. first \in Activations /\ 0 \in 0 .. Width - 1
  BY FrameAssumption DEF Activations
<1>3. DOMAIN acts = {1} /\ Len(acts) = 1 /\ acts[1] = first /\ acts \in Seq(Activations)
  BY <1>1, <1>2
<1>4. TypeOK
  BY <1>1, <1>2, <1>3 DEF TypeOK, Contents
<1>5. Small
  BY <1>3, FrameAssumption DEF Small, Limits
<1>6. Stacked
  BY <1>3 DEF Stacked
<1>7. ReturnsToCaller
  BY <1>1, <1>3 DEF ReturnsToCaller, Act
<1> QED BY <1>4, <1>5, <1>6, <1>7 DEF Frames

LEMMA FramesStep ==
  ASSUME Limits, Frames, [Next]_vars
  PROVE  Frames'
<1>1. CASE UNCHANGED vars
  <2>1. cfo' = cfo /\ r' = r /\ running' = running /\ acts' = acts
    BY <1>1 DEF vars
  <2> QED BY <2>1 DEF Frames, TypeOK, Small, Stacked, ReturnsToCaller, Act
<1>2. ASSUME NEW args \in Args, CallInPlace(args) \/ CallRefused(args)
      PROVE  Frames'
  BY <1>2, UnenteredKeeps DEF CallInPlace, CallRefused
<1>3. ASSUME NEW args \in Args, NEW site \in Sites, NEW f \in Funs, NEW this \in This(f),
             CallFunction(site, f, this, args) \/ CallTooFew(site, f, this, args)
      PROVE  Frames'
  <2>1. this \in Receivers
    BY DEF This, Receivers
  <2>2. CASE CallFunction(site, f, this, args)
    BY <2>1, <2>2, CallFunctionKeeps
  <2>3. CASE CallTooFew(site, f, this, args)
    BY <2>1, <2>3, UnenteredKeeps DEF CallTooFew
  <2> QED BY <1>3, <2>2, <2>3
<1>4. CASE Return
  BY <1>4, ReturnKeeps
<1>5. ASSUME NEW j \in DOMAIN Act.live, EndBlock(j) \/ \E v \in Vals : Assign(j, v)
      PROVE  Frames'
  BY <1>5, EndBlockKeeps, AssignKeeps
<1>6. ASSUME NEW v \in Vals, Declare(v)
      PROVE  Frames'
  BY <1>6, DeclareKeeps
<1> QED BY <1>1, <1>2, <1>3, <1>4, <1>5, <1>6 DEF Next

-----------------------------------------------------------------------------
THEOREM FramesInvariant == Limits => (Spec => []Frames)
<1> SUFFICES ASSUME Limits PROVE Spec => []Frames
  OBVIOUS
<1>1. Init => Frames
  BY FramesInit
<1>2. Frames /\ [Next]_vars => Frames'
  BY FramesStep
<1> QED BY <1>1, <1>2, PTL DEF Spec

\* Types: the offset is one, and so is what a return restores it from.
THEOREM FramesTypes == Limits => (Spec => []TypeOK)
<1>1. Frames => TypeOK
  BY DEF Frames
<1> QED BY <1>1, FramesInvariant, PTL

\* A return finds the frame of the caller, for every program, however blocks end
\* and whatever its calls overwrite.
THEOREM FramesReturn == Limits => (Spec => []ReturnsToCaller)
<1>1. Frames => ReturnsToCaller
  BY DEF Frames
<1> QED BY <1>1, FramesInvariant, PTL

-----------------------------------------------------------------------------
(* Programs in which no block ends before its function does. *)

LEMMA DenseStep ==
  ASSUME Limits, ~Blocks, Frames, Dense, [Next]_vars
  PROVE  Dense'
<1> USE NatWidth
<1> DEFINE top == Len(acts)
<1>0. top \in Nat \ {0} /\ top \in DOMAIN acts /\ DOMAIN acts = 1 .. top /\ Act = acts[top]
  BY Activated
<1>1. CASE acts' = acts
  BY <1>1 DEF Dense
<1>2. ASSUME NEW f \in Funs,
             acts' = Append(acts, [base |-> Callee, outer |-> Outer[f],
                                   live |-> [j \in 1 .. Arity[f] |-> j - 1],
                                   next |-> Arity[f]])
      PROVE  Dense'
  <2> DEFINE live == [j \in 1 .. Arity[f] |-> j - 1]
             new == [base |-> Callee, outer |-> Outer[f], live |-> live, next |-> Arity[f]]
  <2>1. Len(live) = Arity[f] /\ DOMAIN live = 1 .. Arity[f] /\ \A j \in DOMAIN live : live[j] = j - 1
    BY Called
  <2>2. new.live = live /\ new.next = Arity[f]
    OBVIOUS
  <2> HIDE DEF live, new
  <2>3. /\ DOMAIN acts' = 1 .. top + 1 /\ acts'[top + 1] = new
        /\ \A n \in 1 .. top : acts'[n] = acts[n]
    <3>1. acts' = Append(acts, new)
      BY <1>2 DEF live, new
    <3> QED BY <3>1, Activated
  <2>4. ASSUME NEW n \in 1 .. top + 1
        PROVE  /\ Len(acts'[n].live) = acts'[n].next
               /\ \A j \in DOMAIN acts'[n].live : acts'[n].live[j] = j - 1
    <3>1. CASE n = top + 1
      BY <3>1, <2>1, <2>2, <2>3
    <3>2. CASE n \in 1 .. top
      BY <3>2, <1>0, <2>3 DEF Dense
    <3> QED BY <3>1, <3>2, <1>0
  <2> QED BY <2>3, <2>4 DEF Dense
<1>3. CASE Return
  <2>1. acts' = SubSeq(acts, 1, top - 1) /\ top > 1
    BY <1>3 DEF Return
  <2>2. /\ DOMAIN acts' = 1 .. top - 1 /\ \A n \in 1 .. top - 1 : acts'[n] = acts[n]
    BY <2>1, Activated
  <2>3. 1 .. top - 1 \subseteq DOMAIN acts
    BY <1>0
  <2> QED BY <2>2, <2>3 DEF Dense
<1>4. ASSUME NEW v \in Vals, Declare(v)
      PROVE  Dense'
  <2>1. acts' = [acts EXCEPT ![top].live = Append(@, Act.next), ![top].next = (@ + 1) % Width]
    BY <1>4 DEF Declare
  <2>2. /\ DOMAIN acts' = 1 .. top /\ \A n \in 1 .. top : n # top => acts'[n] = acts[n]
        /\ acts'[top] = [Act EXCEPT !.live = Append(@, Act.next), !.next = (@ + 1) % Width]
    BY <2>1, <1>0
  <2>3. /\ Act \in Activations /\ Act.live \in Seq(0 .. Width - 1) /\ Act.next \in 0 .. Width - 1
        /\ Len(Act.live) = Act.next /\ \A j \in 1 .. Act.next : Act.live[j] = j - 1
    <3>1. /\ Act \in Activations /\ Act.live \in Seq(0 .. Width - 1) /\ Act.next \in 0 .. Width - 1
      BY <1>0, Activated
    <3>2. Len(Act.live) = Act.next /\ \A j \in DOMAIN Act.live : Act.live[j] = j - 1
      BY <1>0 DEF Dense
    <3>3. DOMAIN Act.live = 1 .. Len(Act.live)
      BY <3>1, LenProperties
    <3> QED BY <3>1, <3>2, <3>3
  <2>4. (Act.next + 1) % Width = Act.next + 1
    <3>1. Act.next + 1 < Width
      BY <1>4, <2>3, FrameAssumption DEF Declare, Limits
    <3> QED BY <3>1, <2>3, NoWrap
  <2>5. acts'[top].live = Append(Act.live, Act.next) /\ acts'[top].next = Act.next + 1
    BY <2>2, <2>3, <2>4 DEF Activations
  <2>6. /\ Len(acts'[top].live) = acts'[top].next
        /\ \A j \in DOMAIN acts'[top].live : acts'[top].live[j] = j - 1
    BY <2>3, <2>5
  <2>7. ASSUME NEW n \in 1 .. top
        PROVE  /\ Len(acts'[n].live) = acts'[n].next
               /\ \A j \in DOMAIN acts'[n].live : acts'[n].live[j] = j - 1
    <3>1. CASE n = top
      BY <3>1, <2>6
    <3>2. CASE n # top
      BY <3>2, <2>2, <1>0 DEF Dense
    <3> QED BY <3>1, <3>2
  <2> QED BY <2>2, <2>7 DEF Dense
<1>5. ASSUME NEW j \in DOMAIN Act.live, EndBlock(j) \/ \E v \in Vals : Assign(j, v)
      PROVE  Dense'
  BY <1>5, <1>1 DEF EndBlock, Assign
<1> QED
  BY <1>1, <1>2, <1>3, <1>4, <1>5
  DEF Next, vars, CallInPlace, CallRefused, CallFunction, CallTooFew

LEMMA DenseInit == Init => Dense
<1> SUFFICES ASSUME Init PROVE Dense
  OBVIOUS
<1>1. acts = <<[base |-> 0, outer |-> 0, live |-> <<>>, next |-> 0]>>
  BY DEF Init
<1>2. DOMAIN acts = {1} /\ acts[1].live = <<>> /\ acts[1].next = 0
  BY <1>1
<1> QED BY <1>2 DEF Dense

\* The first registers of an activation are all it owns.
LEMMA OwnedRange ==
  ASSUME Frames, Dense, NEW n \in DOMAIN acts, NEW c \in Nat,
         acts[n].base + Size(acts[n]) <= c
  PROVE  Owned(acts[n]) \subseteq acts[n].base .. c - 1
<1> USE NatWidth
<1>1. /\ acts[n].base \in Nat /\ acts[n].outer \in Nat /\ Len(acts[n].live) \in Nat
      /\ DOMAIN acts[n].live = 1 .. Len(acts[n].live)
  BY Activated
<1>2. acts[n].base + acts[n].outer + Len(acts[n].live) + Priv <= c
  BY <1>1 DEF Size
<1>3. ASSUME NEW x \in Owned(acts[n])
      PROVE  x \in acts[n].base .. c - 1
  <2>1. CASE \E y \in 0 .. Priv - 1 : x = acts[n].base + y
    BY <2>1, <1>1, <1>2
  <2>2. ASSUME NEW j \in 1 .. Len(acts[n].live), x = acts[n].base + Priv + acts[n].live[j]
        PROVE  x \in acts[n].base .. c - 1
    <3>1. acts[n].live[j] = j - 1
      BY <1>1 DEF Dense
    <3> QED BY <3>1, <2>2, <1>1, <1>2
  <2> QED BY <2>1, <2>2, <1>1 DEF Owned
<1> QED BY <1>3

LEMMA DenseApart ==
  ASSUME Frames, Dense
  PROVE  FramesApart
<1>1. ASSUME NEW m \in DOMAIN acts, NEW n \in DOMAIN acts, m < n
      PROVE  Owned(acts[m]) \cap Owned(acts[n]) = {}
  <2>1. /\ acts[m].base \in Nat /\ acts[n].base \in Nat /\ Size(acts[n]) \in Nat
    BY Activated
  <2>2. acts[m].base + Size(acts[m]) <= acts[n].base
    BY <1>1 DEF Frames, Stacked
  <2>3. Owned(acts[m]) \subseteq acts[m].base .. acts[n].base - 1
    BY <2>1, <2>2, OwnedRange
  <2>4. acts[n].base + Size(acts[n]) \in Nat
    BY <2>1
  <2>5. Owned(acts[n]) \subseteq acts[n].base .. acts[n].base + Size(acts[n]) - 1
    BY <2>1, <2>4, OwnedRange
  <2> QED BY <2>1, <2>3, <2>5
<1>2. \A m, n \in DOMAIN acts : m # n => m < n \/ n < m
  BY Activated
<1> QED BY <1>1, <1>2 DEF FramesApart

\* No two activations share a register, at any depth, while no block ends inside
\* a function and the offset does not wrap.
THEOREM FramesAreApart == Limits /\ ~Blocks => (Spec => []FramesApart)
<1> SUFFICES ASSUME Limits, ~Blocks PROVE Spec => []FramesApart
  OBVIOUS
<1>1. Init => Frames /\ Dense
  BY FramesInit, DenseInit
<1>2. Frames /\ Dense /\ [Next]_vars => Frames' /\ Dense'
  BY FramesStep, DenseStep
<1>3. Frames /\ Dense => FramesApart
  BY DenseApart
<1> QED BY <1>1, <1>2, <1>3, PTL DEF Spec

-----------------------------------------------------------------------------
(* The registers implement CallStack. *)

LEMMA SameFrame ==
  ASSUME NEW w, NEW z, NEW act \in Activations, \A x \in Owned(act) : w[x] = z[x]
  PROVE  Frame(w, act) = Frame(z, act)
<1>1. act.base \in Nat
  BY NatWidth DEF Activations
<1>2. /\ act.base \in Owned(act) /\ act.base + 2 \in Owned(act) /\ act.base + 3 \in Owned(act)
  <2>1. 0 \in 0 .. Priv - 1 /\ 2 \in 0 .. Priv - 1 /\ 3 \in 0 .. Priv - 1
    BY NatWidth
  <2>2. act.base + 0 = act.base
    BY <1>1
  <2> QED BY <2>1, <2>2 DEF Owned
<1>3. \A j \in DOMAIN act.live : act.base + Priv + act.live[j] \in Owned(act)
  BY DEF Owned
<1> QED BY <1>2, <1>3 DEF Frame

LEMMA LocalsOf ==
  ASSUME NEW a, NEW b, NEW c, NEW d, NEW x,
         NEW frame, frame = [ret |-> a, fn |-> b, this |-> c, locals |-> d]
  PROVE  /\ frame.locals = d
         /\ [frame EXCEPT !.locals = x] = [ret |-> a, fn |-> b, this |-> c, locals |-> x]
OBVIOUS

\* Two images of as many activations are equal if their frames are.
LEMMA SameImage ==
  ASSUME NEW S, NEW s \in Seq(S), NEW as \in Seq(Activations), NEW w,
         Len(s) = Len(as), \A n \in 1 .. Len(as) : s[n] = Frame(w, as[n])
  PROVE  Image(w, as) = s
<1>1. s \in [1 .. Len(as) -> S] /\ DOMAIN as = 1 .. Len(as)
  BY LenProperties
<1>2. s = [n \in 1 .. Len(as) |-> s[n]]
  BY <1>1
<1>3. Image(w, as) = [n \in 1 .. Len(as) |-> Frame(w, as[n])]
  BY <1>1 DEF Image
<1> QED BY <1>2, <1>3

\* The registers of the activations all lie below where a call would put its own.
LEMMA OwnedBelow ==
  ASSUME Limits, Frames, Dense, Calling, NEW n \in DOMAIN acts
  PROVE  Owned(acts[n]) \subseteq 0 .. Callee - 1
<1>1. acts[n].base \in Nat /\ Callee \in Nat /\ acts[n].base + Size(acts[n]) <= Callee
  BY CalleeAbove, Activated, NatWidth
<1>2. Owned(acts[n]) \subseteq acts[n].base .. Callee - 1
  BY <1>1, OwnedRange
<1> QED BY <1>1, <1>2

LEMMA ImageSeq ==
  ASSUME Frames
  PROVE  LET s == Image(r, acts) IN
         /\ s \in Seq({s[n] : n \in DOMAIN acts}) /\ Len(s) = Len(acts)
         /\ \A n \in 1 .. Len(acts) : s[n] = Frame(r, acts[n])
         /\ DOMAIN s = 1 .. Len(acts)
<1> DEFINE s == Image(r, acts)
           S == {s[n] : n \in DOMAIN acts}
<1>1. DOMAIN acts = 1 .. Len(acts) /\ Len(acts) \in Nat
  BY Activated
<1>2. s \in [1 .. Len(acts) -> S] /\ \A n \in 1 .. Len(acts) : s[n] = Frame(r, acts[n])
  BY <1>1 DEF Image
<1> HIDE DEF s, S
<1>3. s \in Seq(S)
  BY <1>1, <1>2, SeqDef
<1>4. Len(s) = Len(acts) /\ DOMAIN s = 1 .. Len(acts)
  BY <1>1, <1>2, <1>3, LenProperties
<1> QED BY <1>2, <1>3, <1>4 DEF s, S

\* A call that is not entered leaves the image as it was.
LEMMA UnenteredImage ==
  ASSUME Limits, Frames, Dense, NEW args \in Args, Calling,
         \/ r' = Passed(args)
         \/ \E site \in Sites, f \in Funs, this \in Receivers :
              r' = Entered(site, f, this, args),
         acts' = acts
  PROVE  Image(r, acts)' = Image(r, acts)
<1> USE NatWidth
<1>1. \A x \in 0 .. Callee - 1 : r'[x] = r[x]
  <2>1. CASE r' = Passed(args)
    BY <2>1, PassedAbove, CalleeAbove
  <2>2. ASSUME NEW site \in Sites, NEW f \in Funs, NEW this \in Receivers,
               r' = Entered(site, f, this, args)
        PROVE  \A x \in 0 .. Callee - 1 : r'[x] = r[x]
    BY <2>2, EnteredAbove
  <2> QED BY <2>1, <2>2
<1>2. ASSUME NEW n \in DOMAIN acts
      PROVE  Frame(r', acts[n]) = Frame(r, acts[n])
  <2>1. acts[n] \in Activations
    BY Activated
  <2>2. \A x \in Owned(acts[n]) : r'[x] = r[x]
    BY <1>1, OwnedBelow
  <2> QED BY <2>1, <2>2, SameFrame
<1> QED BY <1>2 DEF Image

LEMMA EnterImage ==
  ASSUME Limits, Frames, Dense, NEW args \in Args,
         NEW site \in Sites, NEW f \in Funs, NEW this \in Receivers,
         CallFunction(site, f, this, args)
  PROVE  \E a \in [1 .. Arity[f] -> Vals] : Stack!Enter(site, f, this, a)
<1> USE NatWidth
<1> DEFINE top == Len(acts)
           live == [j \in 1 .. Arity[f] |-> j - 1]
           new == [base |-> Callee, outer |-> Outer[f], live |-> live, next |-> Arity[f]]
           a == [j \in 1 .. Arity[f] |-> args[j]]
           e == [ret |-> site, fn |-> f, this |-> this, locals |-> a]
           s == Image(r, acts)
<1>1. /\ Calling /\ acts' = Append(acts, new) /\ at' = <<"enter", f>>
      /\ r' = Entered(site, f, this, args) /\ Len(args) >= Arity[f]
  BY DEF CallFunction
<1>2. /\ live \in Seq(0 .. Width - 1) /\ DOMAIN live = 1 .. Arity[f]
      /\ Arity[f] \in Nat /\ \A j \in 1 .. Arity[f] : live[j] = j - 1
      /\ Arity[f] \in 0 .. Width - 1 /\ Outer[f] \in Nat
  BY Called, FrameAssumption
<1>3. args \in Seq(Vals) /\ Len(args) \in Nat
  BY ArgsSeq
<1>4. a \in [1 .. Arity[f] -> Vals]
  BY <1>1, <1>2, <1>3
<1>5. Callee \in 0 .. Width - 1
  BY <1>1, CalleeAbove
<1>6. new \in Activations /\ new.base = Callee /\ new.live = live
  BY <1>2, <1>5 DEF Activations
<1>7. Frame(r', new) = e
  <2>1. /\ r'[Callee] = site /\ r'[Callee + 2] = f /\ r'[Callee + 3] = this
        /\ \A i \in 1 .. Len(args) : r'[Callee + Priv + i - 1] = args[i]
    BY <1>1, EnteredAbove
  <2>2. ASSUME NEW j \in 1 .. Arity[f]
        PROVE  r'[Callee + Priv + live[j]] = a[j]
    <3>1. Callee + Priv + live[j] = Callee + Priv + j - 1 /\ j \in 1 .. Len(args)
      BY <1>1, <1>2, <1>3, <1>5
    <3> QED BY <3>1, <2>1
  <2> HIDE DEF live
  <2>3. [j \in 1 .. Arity[f] |-> r'[Callee + Priv + live[j]]] = a
    BY <2>2
  <2> QED BY <2>1, <2>3, <1>2, <1>6 DEF Frame
<1>8. /\ s \in Seq({s[n] : n \in DOMAIN acts} \cup {e})
      /\ Len(s) = top /\ top \in Nat /\ \A n \in 1 .. top : s[n] = Frame(r, acts[n])
  <2> HIDE DEF s
  <2>1. /\ s \in Seq({s[n] : n \in DOMAIN acts}) /\ Len(s) = top
        /\ \A n \in 1 .. top : s[n] = Frame(r, acts[n])
    BY ImageSeq DEF s
  <2>2. {s[n] : n \in DOMAIN acts} \subseteq {s[n] : n \in DOMAIN acts} \cup {e}
    OBVIOUS
  <2> QED BY <2>1, <2>2, SeqMonotonic, Activated
<1> HIDE DEF new, e, s, a
<1>9. ASSUME NEW n \in 1 .. top
      PROVE  Frame(r', acts[n]) = s[n]
  <2>1. acts[n] \in Activations /\ n \in DOMAIN acts
    BY Activated
  <2>2. \A x \in Owned(acts[n]) : r'[x] = r[x]
    BY <2>1, <1>1, EnteredAbove, OwnedBelow
  <2> QED BY <2>1, <2>2, <1>8, SameFrame
<1>10. /\ acts' \in Seq(Activations) /\ Len(acts') = top + 1
       /\ \A n \in 1 .. top : acts'[n] = acts[n]
       /\ acts'[top + 1] = new
  BY <1>1, <1>6, Activated
<1>11. /\ Append(s, e) \in Seq({s[n] : n \in DOMAIN acts} \cup {e})
       /\ Len(Append(s, e)) = top + 1
       /\ \A n \in 1 .. top : Append(s, e)[n] = s[n]
       /\ Append(s, e)[top + 1] = e
  BY <1>8
<1>12. ASSUME NEW n \in 1 .. Len(acts')
       PROVE  Append(s, e)[n] = Frame(r', acts'[n])
  <2>1. CASE n = top + 1
    BY <2>1, <1>7, <1>10, <1>11
  <2>2. CASE n \in 1 .. top
    BY <2>2, <1>9, <1>10, <1>11
  <2> QED BY <2>1, <2>2, <1>8, <1>10
<1>13. Image(r', acts') = Append(s, e)
  BY <1>10, <1>11, <1>12, SameImage
<1> QED BY <1>1, <1>4, <1>13 DEF Stack!Enter, s, e

LEMMA LeaveImage ==
  ASSUME Limits, Frames, Return
  PROVE  Stack!Leave
<1> DEFINE top == Len(acts)
           s == Image(r, acts)
           S == {s[n] : n \in DOMAIN acts}
<1>1. /\ top > 1 /\ r' = r /\ running /\ at' = <<"return", r[cfo]>>
      /\ acts' = SubSeq(acts, 1, top - 1)
  BY DEF Return
<1>2. /\ s \in Seq(S) /\ Len(s) = top /\ \A n \in 1 .. top : s[n] = Frame(r, acts[n])
  BY ImageSeq
<1>3. top \in Nat /\ top \in 1 .. top /\ acts \in Seq(Activations) /\ Act = acts[top]
  BY Activated
<1> HIDE DEF s, S, top
<1>4. /\ SubSeq(s, 1, top - 1) \in Seq(S) /\ Len(SubSeq(s, 1, top - 1)) = top - 1
      /\ \A n \in 1 .. top - 1 : SubSeq(s, 1, top - 1)[n] = s[n]
  BY <1>1, <1>2, <1>3
<1>5. /\ acts' \in Seq(Activations) /\ Len(acts') = top - 1
      /\ \A n \in 1 .. top - 1 : acts'[n] = acts[n]
  BY <1>1, <1>3, Activated DEF top
<1>6. \A n \in 1 .. Len(acts') : SubSeq(s, 1, top - 1)[n] = Frame(r', acts'[n])
  BY <1>1, <1>2, <1>3, <1>4, <1>5
<1>7. Image(r', acts') = SubSeq(s, 1, top - 1)
  BY <1>4, <1>5, <1>6, SameImage
<1>8. r[cfo] = s[top].ret
  <2>1. cfo = Act.base
    BY <1>1 DEF Frames, ReturnsToCaller
  <2> QED BY <2>1, <1>2, <1>3 DEF Frame
<1> QED BY <1>1, <1>2, <1>7, <1>8 DEF Stack!Leave, Stack!Top, s

\* A write to a register of the running activation changes no other frame.
LEMMA OthersKept ==
  ASSUME Frames, Dense, running, NEW k \in 0 .. Width - 1, NEW v,
         NEW n \in 1 .. Len(acts) - 1
  PROVE  Frame([r EXCEPT ![Register(k)] = v], acts[n]) = Frame(r, acts[n])
<1> USE NatWidth
<1> DEFINE top == Len(acts)
           w == [r EXCEPT ![Register(k)] = v]
<1>1. /\ top \in Nat /\ top \in DOMAIN acts /\ n \in DOMAIN acts /\ n < top
      /\ acts[n] \in Activations
  BY Activated
<1>2. cfo = acts[top].base
  BY Activated DEF Frames, ReturnsToCaller
<1>3. acts[n].base + Size(acts[n]) <= cfo
  BY <1>1, <1>2 DEF Frames, Stacked
<1>4. cfo \in Nat /\ acts[n].base \in Nat /\ Register(k) \in Nat /\ Register(k) >= cfo
  <2>1. k \in Nat /\ cfo \in Nat
    BY DEF Frames, TypeOK
  <2>2. acts[n].base \in Nat
    BY <1>1, Activated
  <2> QED BY <2>1, <2>2 DEF Register
<1>5. Owned(acts[n]) \subseteq acts[n].base .. cfo - 1
  BY <1>1, <1>3, <1>4, OwnedRange
<1> HIDE DEF top
<1>6. ASSUME NEW x \in Owned(acts[n])
      PROVE  w[x] = r[x]
  <2>1. x \in acts[n].base .. cfo - 1
    BY <1>5
  <2>2. x # Register(k)
    BY <2>1, <1>4
  <2> QED BY <2>2 DEF Frames, TypeOK
<1> HIDE DEF w
<1>7. Frame(w, acts[n]) = Frame(r, acts[n])
  BY <1>1, <1>6, SameFrame
<1> QED BY <1>7 DEF w

\* The frame of the running activation, by its parts.
LEMMA OwnFrame ==
  ASSUME Frames, Dense, running
  PROVE  /\ cfo = Act.base /\ cfo \in 0 .. Width - 1
         /\ Act \in Activations /\ Act.live \in Seq(0 .. Width - 1)
         /\ Len(Act.live) = Act.next /\ Act.next \in 0 .. Width - 1
         /\ DOMAIN Act.live = 1 .. Act.next
         /\ \A j \in 1 .. Act.next : Act.live[j] = j - 1
<1>1. /\ Act = acts[Len(acts)] /\ Len(acts) \in DOMAIN acts /\ Act \in Activations
      /\ Act.live \in Seq(0 .. Width - 1) /\ Act.next \in 0 .. Width - 1
  BY Activated
<1>2. Len(Act.live) = Act.next /\ \A j \in DOMAIN Act.live : Act.live[j] = j - 1
  BY <1>1 DEF Dense
<1>3. DOMAIN Act.live = 1 .. Len(Act.live)
  BY <1>1, LenProperties
<1> QED BY <1>1, <1>2, <1>3 DEF Frames, TypeOK, ReturnsToCaller

LEMMA AssignImage ==
  ASSUME Limits, Frames, Dense, NEW j \in DOMAIN Act.live, NEW v \in Vals, Assign(j, v)
  PROVE  /\ j \in DOMAIN Image(r, acts)[Stack!Top].locals
         /\ Stack!Assign(j, v)
<1> USE NatWidth
<1> DEFINE top == Len(acts)
           k == Act.live[j]
           s == Image(r, acts)
           S == {s[n] : n \in DOMAIN acts}
           e == [s[top] EXCEPT !.locals[j] = v]
<1>1. running /\ r' = [r EXCEPT ![Register(k)] = v] /\ acts' = acts /\ at' = at
  BY DEF Assign
<1>2. /\ s \in Seq(S) /\ Len(s) = top /\ \A n \in 1 .. top : s[n] = Frame(r, acts[n])
      /\ s \in [1 .. top -> S]
  BY ImageSeq, LenProperties
<1>3. /\ cfo = Act.base /\ cfo \in 0 .. Width - 1 /\ j \in 1 .. Act.next /\ Act.next \in Nat
      /\ DOMAIN Act.live = 1 .. Act.next
      /\ \A i \in 1 .. Act.next : Act.live[i] = i - 1
  <2> HIDE DEF k, s, S, e, top
  <2>1. /\ cfo = Act.base /\ cfo \in 0 .. Width - 1 /\ Act.next \in 0 .. Width - 1
        /\ DOMAIN Act.live = 1 .. Act.next
        /\ \A i \in 1 .. Act.next : Act.live[i] = i - 1
    BY <1>1, OwnFrame
  <2>2. Act.next \in Nat
    BY <2>1
  <2> QED BY <2>1, <2>2
<1>a. k = j - 1 /\ k \in 0 .. Width - 1 /\ j \in Nat /\ j <= Width
  <2>1. Act.next \in 0 .. Width - 1
    BY <1>1, OwnFrame
  <2> QED BY <2>1, <1>3
<1>4. top \in 1 .. top /\ top \in Nat /\ Act = acts[top] /\ DOMAIN acts = 1 .. top
  BY Activated
<1>5. Register(k) = cfo + Priv + (j - 1) /\ Register(k) \in 0 .. NumRegs - 1
  <2>1. 2 * Width + Priv <= NumRegs
    BY FrameAssumption
  <2> HIDE DEF k
  <2> QED BY <1>3, <1>a, <2>1 DEF Register
<1> DEFINE old == [i \in 1 .. Act.next |-> r[cfo + Priv + Act.live[i]]]
           upd == [i \in 1 .. Act.next |-> r'[cfo + Priv + Act.live[i]]]
<1>b. /\ s[top] = [ret |-> r[cfo], fn |-> r[cfo + 2], this |-> r[cfo + 3], locals |-> old]
      /\ Frame(r', Act) = [ret |-> r'[cfo], fn |-> r'[cfo + 2], this |-> r'[cfo + 3],
                          locals |-> upd]
  <2>1. s[top] = Frame(r, Act)
    BY <1>2, <1>4
  <2> HIDE DEF s
  <2> QED BY <2>1, <1>3 DEF Frame
<1>c. upd = [old EXCEPT ![j] = v]
  <2>1. \A i \in 1 .. Act.next :
          r'[cfo + Priv + Act.live[i]] = IF i = j THEN v ELSE r[cfo + Priv + Act.live[i]]
    <3> HIDE DEF k, s, S, e, top, old, upd
    <3>1. r \in [0 .. NumRegs - 1 -> Contents]
      BY DEF Frames, TypeOK
    <3>2. ASSUME NEW i \in 1 .. Act.next
          PROVE  r'[cfo + Priv + Act.live[i]] = IF i = j THEN v ELSE r[cfo + Priv + Act.live[i]]
      <4>1. Act.live[i] = i - 1 /\ i \in Nat
        BY <1>3
      <4>2. CASE i = j
        BY <4>1, <4>2, <1>1, <1>5, <3>1
      <4>3. CASE i # j
        <5>1. cfo + Priv + (i - 1) # cfo + Priv + (j - 1)
          BY <4>1, <4>3, <1>3
        <5> QED BY <5>1, <4>1, <4>3, <1>1, <1>5, <3>1
      <4> QED BY <4>2, <4>3
    <3> QED BY <3>2
  <2> QED BY <2>1, <1>3
<1> HIDE DEF s, S, k, old, upd
<1>6. Frame(r', Act) = e
  <2>1. r'[cfo] = r[cfo] /\ r'[cfo + 2] = r[cfo + 2] /\ r'[cfo + 3] = r[cfo + 3]
    <3>1. /\ cfo # Register(k) /\ cfo + 2 # Register(k) /\ cfo + 3 # Register(k)
      BY <1>3, <1>5, <1>a
    <3>2. r \in [0 .. NumRegs - 1 -> Contents]
      BY DEF Frames, TypeOK
    <3> QED BY <3>1, <3>2, <1>1
  <2>2. e = [ret |-> r[cfo], fn |-> r[cfo + 2], this |-> r[cfo + 3], locals |-> upd]
    <3>1. s[top].locals = old
      BY <1>b, LocalsOf
    <3>2. e = [s[top] EXCEPT !.locals = upd]
      BY <3>1, <1>c
    <3> HIDE DEF e
    <3> QED BY <3>2, <1>b, LocalsOf
  <2> HIDE DEF e
  <2> QED BY <2>1, <2>2, <1>b
<1>7. j \in DOMAIN s[top].locals
  <2>1. s[top].locals = old
    BY <1>b
  <2>2. j \in DOMAIN old
    BY <1>3 DEF old
  <2> QED BY <2>1, <2>2
<1> HIDE DEF e, top
<1>8. ASSUME NEW n \in 1 .. top
      PROVE  Frame(r', acts[n]) = [s EXCEPT ![top] = e][n]
  <2>1. CASE n = top
    BY <2>1, <1>2, <1>4, <1>6
  <2>2. CASE n \in 1 .. top - 1
    <3>1. Frame(r', acts[n]) = Frame(r, acts[n])
      BY <2>2, <1>1, <1>a, OthersKept DEF top
    <3>2. [s EXCEPT ![top] = e][n] = s[n]
      BY <2>2, <1>2, <1>4
    <3> QED BY <3>1, <3>2, <1>2
  <2> QED BY <2>1, <2>2, <1>4
<1>9. Image(r', acts') = [s EXCEPT ![top] = e]
  <2>1. Image(r', acts') = [n \in 1 .. top |-> Frame(r', acts[n])]
    BY <1>1, <1>4 DEF Image
  <2>2. [s EXCEPT ![top] = e] = [n \in 1 .. top |-> [s EXCEPT ![top] = e][n]]
    BY <1>2
  <2> QED BY <2>1, <2>2, <1>8
<1>10. Stack!Top = top
  BY <1>2 DEF Stack!Top, s
<1> QED BY <1>1, <1>7, <1>9, <1>10 DEF Stack!Assign, s, e

LEMMA DeclareImage ==
  ASSUME Limits, Frames, Dense, NEW v \in Vals, Declare(v)
  PROVE  Stack!Declare(v)
<1> USE NatWidth
<1> DEFINE top == Len(acts)
           k == Act.next
           new == acts'[top]
           s == Image(r, acts)
           S == {s[n] : n \in DOMAIN acts}
           e == [s[top] EXCEPT !.locals = Append(@, v)]
           old == [i \in 1 .. k |-> r[cfo + Priv + Act.live[i]]]
           upd == [i \in 1 .. k + 1 |-> r'[cfo + Priv + (i - 1)]]
<1>1. /\ running /\ r' = [r EXCEPT ![Register(k)] = v] /\ at' = at /\ k < MaxLocals
      /\ acts' = [acts EXCEPT ![top].live = Append(@, k), ![top].next = (@ + 1) % Width]
  BY DEF Declare
<1>2. /\ s \in Seq(S) /\ Len(s) = top /\ \A n \in 1 .. top : s[n] = Frame(r, acts[n])
      /\ s \in [1 .. top -> S]
  BY ImageSeq, LenProperties
<1>3. /\ cfo = Act.base /\ cfo \in 0 .. Width - 1 /\ k \in 0 .. Width - 1
      /\ Act \in Activations /\ Act.live \in Seq(0 .. Width - 1) /\ Len(Act.live) = k
      /\ DOMAIN Act.live = 1 .. k /\ \A i \in 1 .. k : Act.live[i] = i - 1
  BY <1>1, OwnFrame
<1>4. top \in 1 .. top /\ top \in Nat /\ Act = acts[top] /\ DOMAIN acts = 1 .. top
  BY Activated
<1>5. Register(k) = cfo + Priv + k /\ Register(k) \in 0 .. NumRegs - 1
  <2>1. 2 * Width + Priv <= NumRegs
    BY FrameAssumption
  <2> HIDE DEF k
  <2> QED BY <1>3, <2>1 DEF Register
<1>6. /\ DOMAIN acts' = 1 .. top /\ \A n \in 1 .. top - 1 : acts'[n] = acts[n]
      /\ new = [Act EXCEPT !.live = Append(@, k), !.next = (@ + 1) % Width]
  BY <1>1, <1>4
<1>7. /\ new.base = cfo /\ new.live = Append(Act.live, k)
      /\ DOMAIN new.live = 1 .. k + 1 /\ \A i \in 1 .. k + 1 : new.live[i] = i - 1
  <2> HIDE DEF new, k
  <2>1. new.base = cfo /\ new.live = Append(Act.live, k)
    BY <1>3, <1>6 DEF Activations
  <2> QED BY <2>1, <1>3
<1>8. /\ s[top] = [ret |-> r[cfo], fn |-> r[cfo + 2], this |-> r[cfo + 3], locals |-> old]
  <2>1. s[top] = Frame(r, Act)
    BY <1>2, <1>4
  <2> HIDE DEF s, k
  <2> QED BY <2>1, <1>3 DEF Frame
<1> HIDE DEF s, S, k, old, upd, new
<1>9. Frame(r', new) = [ret |-> r'[cfo], fn |-> r'[cfo + 2], this |-> r'[cfo + 3],
                        locals |-> upd]
  <2>1. [i \in DOMAIN new.live |-> r'[new.base + Priv + new.live[i]]] = upd
    BY <1>7 DEF upd
  <2> QED BY <2>1, <1>7 DEF Frame
<1>10. upd = Append(old, v)
  <2>1. /\ \A i \in 1 .. k : r'[cfo + Priv + (i - 1)] = r[cfo + Priv + (i - 1)]
        /\ r'[cfo + Priv + k] = v
    BY <1>1, <1>3, <1>5 DEF Frames, TypeOK
  <2>2. old = [i \in 1 .. k |-> r[cfo + Priv + (i - 1)]]
    BY <1>3 DEF old
  <2>3. old \in Seq({old[i] : i \in 1 .. k} \cup {v}) /\ Len(old) = k
    <3>1. old \in [1 .. k -> {old[i] : i \in 1 .. k} \cup {v}] /\ k \in Nat
      BY <2>2, <1>3
    <3>2. old \in Seq({old[i] : i \in 1 .. k} \cup {v})
      BY <3>1, SeqDef
    <3>3. DOMAIN old = 1 .. Len(old) /\ Len(old) \in Nat /\ DOMAIN old = 1 .. k
      BY <3>1, <3>2, LenProperties
    <3> QED BY <3>1, <3>2, <3>3
  <2>4. /\ Append(old, v) \in [1 .. k + 1 -> {old[i] : i \in 1 .. k} \cup {v}]
        /\ \A i \in 1 .. k : Append(old, v)[i] = old[i]
        /\ Append(old, v)[k + 1] = v
    <3>1. /\ Append(old, v) \in Seq({old[i] : i \in 1 .. k} \cup {v})
          /\ Len(Append(old, v)) = k + 1
          /\ \A i \in 1 .. k : Append(old, v)[i] = old[i]
          /\ Append(old, v)[k + 1] = v
      BY <2>3, AppendProperties
    <3> QED BY <3>1, LenProperties
  <2>5. ASSUME NEW i \in 1 .. k + 1
        PROVE  Append(old, v)[i] = r'[cfo + Priv + (i - 1)]
    <3>1. CASE i = k + 1
      <4>1. cfo + Priv + (i - 1) = cfo + Priv + k
        BY <3>1, <1>3
      <4> QED BY <4>1, <3>1, <2>1, <2>4
    <3>2. CASE i \in 1 .. k
      <4>1. old[i] = r[cfo + Priv + (i - 1)]
        BY <3>2, <2>2
      <4> QED BY <4>1, <3>2, <2>1, <2>4
    <3>3. i = k + 1 \/ i \in 1 .. k
      BY <1>3
    <3> QED BY <3>1, <3>2, <3>3
  <2> QED BY <2>4, <2>5 DEF upd
<1>11. Frame(r', new) = e
  <2>1. r'[cfo] = r[cfo] /\ r'[cfo + 2] = r[cfo + 2] /\ r'[cfo + 3] = r[cfo + 3]
    <3>1. /\ cfo # Register(k) /\ cfo + 2 # Register(k) /\ cfo + 3 # Register(k)
      BY <1>3, <1>5
    <3>2. r \in [0 .. NumRegs - 1 -> Contents]
      BY DEF Frames, TypeOK
    <3> QED BY <3>1, <3>2, <1>1
  <2>2. e = [ret |-> r[cfo], fn |-> r[cfo + 2], this |-> r[cfo + 3], locals |-> upd]
    <3>1. s[top].locals = old
      BY <1>8, LocalsOf
    <3>2. e = [s[top] EXCEPT !.locals = upd]
      BY <3>1, <1>10
    <3> HIDE DEF e
    <3> QED BY <3>2, <1>8, LocalsOf
  <2> HIDE DEF e
  <2> QED BY <2>1, <2>2, <1>9
<1> HIDE DEF e, top
<1>12. ASSUME NEW n \in 1 .. top
       PROVE  Frame(r', acts'[n]) = [s EXCEPT ![top] = e][n]
  <2>1. CASE n = top
    BY <2>1, <1>2, <1>4, <1>11 DEF new
  <2>2. CASE n \in 1 .. top - 1
    <3>1. Frame(r', acts[n]) = Frame(r, acts[n])
      BY <2>2, <1>1, <1>3, OthersKept DEF top
    <3>2. [s EXCEPT ![top] = e][n] = s[n]
      BY <2>2, <1>2, <1>4
    <3> QED BY <2>2, <3>1, <3>2, <1>2, <1>6
  <2> QED BY <2>1, <2>2, <1>4
<1>13. Image(r', acts') = [s EXCEPT ![top] = e]
  <2>1. Image(r', acts') = [n \in 1 .. top |-> Frame(r', acts'[n])]
    BY <1>6 DEF Image
  <2>2. [s EXCEPT ![top] = e] = [n \in 1 .. top |-> [s EXCEPT ![top] = e][n]]
    BY <1>2
  <2> QED BY <2>1, <2>2, <1>12
<1>14. Stack!Top = top
  BY <1>2 DEF Stack!Top, s
<1> QED BY <1>1, <1>13, <1>14 DEF Stack!Declare, s, e

\* Every step of the registers is a step of the stack, or none.
LEMMA StackStep ==
  ASSUME Limits, ~Blocks, Frames, Dense, [Next]_vars
  PROVE  [Stack!Next]_(Stack!vars)
<1>1. CASE UNCHANGED vars
  BY <1>1 DEF vars, Stack!vars, Image, Frame
<1>2. ASSUME NEW args \in Args, CallInPlace(args) \/ CallRefused(args)
      PROVE  UNCHANGED Stack!vars
  <2>1. Image(r, acts)' = Image(r, acts)
    BY <1>2, UnenteredImage DEF CallInPlace, CallRefused
  <2>2. at' = at
    BY <1>2 DEF CallInPlace, CallRefused
  <2> QED BY <2>1, <2>2 DEF Stack!vars
<1>3. ASSUME NEW args \in Args, NEW site \in Sites, NEW f \in Funs, NEW this \in This(f),
             CallFunction(site, f, this, args) \/ CallTooFew(site, f, this, args)
      PROVE  Stack!Next \/ UNCHANGED Stack!vars
  <2>1. this \in Receivers
    BY DEF This, Receivers
  <2>2. CASE CallFunction(site, f, this, args)
    BY <2>1, <2>2, EnterImage DEF Stack!Next
  <2>3. CASE CallTooFew(site, f, this, args)
    <3>1. Image(r, acts)' = Image(r, acts)
      BY <2>1, <2>3, UnenteredImage DEF CallTooFew
    <3>2. at' = at
      BY <2>3 DEF CallTooFew
    <3> QED BY <3>1, <3>2 DEF Stack!vars
  <2> QED BY <1>3, <2>2, <2>3
<1>4. CASE Return
  BY <1>4, LeaveImage DEF Stack!Next
<1>5. ASSUME NEW j \in DOMAIN Act.live, EndBlock(j) \/ \E v \in Vals : Assign(j, v)
      PROVE  Stack!Next
  BY <1>5, AssignImage DEF EndBlock, Stack!Next
<1>6. ASSUME NEW v \in Vals, Declare(v)
      PROVE  Stack!Next
  BY <1>6, DeclareImage DEF Stack!Next
<1> QED BY <1>1, <1>2, <1>3, <1>4, <1>5, <1>6 DEF Next

LEMMA StackInit == Init => Stack!Init
<1> SUFFICES ASSUME Init PROVE Stack!Init
  OBVIOUS
<1> DEFINE first == [base |-> 0, outer |-> 0, live |-> <<>>, next |-> 0]
<1>1. acts = <<first>> /\ r = [x \in 0 .. NumRegs - 1 |-> ZERO] /\ at = <<"main">>
  BY DEF Init
<1>2. r[0] = ZERO /\ r[2] = ZERO /\ r[3] = ZERO
  BY <1>1, FrameAssumption, NatWidth
<1>3. Frame(r, first) = [ret |-> ZERO, fn |-> ZERO, this |-> ZERO, locals |-> <<>>]
  BY <1>2 DEF Frame
<1>4. Image(r, acts) = <<Frame(r, first)>>
  <2> DEFINE s == <<Frame(r, first)>>
  <2>1. first \in Activations
    BY FrameAssumption, NatWidth DEF Activations
  <2>2. acts \in Seq(Activations) /\ Len(acts) = 1 /\ acts[1] = first
    BY <2>1, <1>1
  <2>3. s \in Seq({Frame(r, first)}) /\ Len(s) = 1 /\ s[1] = Frame(r, first)
    OBVIOUS
  <2> HIDE DEF s
  <2>4. \A n \in 1 .. Len(acts) : s[n] = Frame(r, acts[n])
    BY <2>2, <2>3
  <2> QED BY <2>2, <2>3, <2>4, SameImage DEF s
<1> QED BY <1>1, <1>3, <1>4 DEF Stack!Init

\* The registers implement CallStack: calls and returns nest, and an activation's
\* locals, function and receiver change by its own assignments only.
THEOREM FramesImplementCallStack == Limits /\ ~Blocks => (Spec => ImplementsCallStack)
<1> SUFFICES ASSUME Limits, ~Blocks PROVE Spec => ImplementsCallStack
  OBVIOUS
<1>1. Init => Frames /\ Dense
  BY FramesInit, DenseInit
<1>2. Frames /\ Dense /\ [Next]_vars => Frames' /\ Dense'
  BY FramesStep, DenseStep
<1>3. Init => Stack!Init
  BY StackInit
<1>4. Frames /\ Dense /\ [Next]_vars => [Stack!Next]_(Stack!vars)
  BY StackStep
<1> QED BY <1>1, <1>2, <1>3, <1>4, PTL DEF Spec, ImplementsCallStack, Stack!Spec

=============================================================================
