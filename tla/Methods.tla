------------------------------ MODULE Methods -------------------------------
(***************************************************************************)
(* Classes, instances and the receivers of methods: what OP_GET, OP_SET,   *)
(* OP_CALL, OP_LOAD_THIS and OP_RETURN do to the operand stack, to fields  *)
(* and to the register R_THIS.                                             *)
(*                                                                         *)
(* A method is one callable, whatever instances its class has.  Reading it *)
(* from an instance writes the instance to the callable's `this`; a call   *)
(* copies it from there to the frame.  The value read is a reference to    *)
(* the callable: `of`, the instance it was read from, is kept by this      *)
(* module and not by the program.                                          *)
(*                                                                         *)
(* The program is any sequence of instructions that keeps the operands of  *)
(* its callers (see Compiler).  Where registers are is left to CallFrames, *)
(* what they capture to Closures; numbers, strings and all else are Other. *)
(***************************************************************************)
EXTENDS Integers, Sequences, FiniteSets

CONSTANTS
  Classes, Insts,
  Names,       \* of fields and methods that a program reads and sets
  Methods,     \* the names of each class's methods
  Arity,       \* of each method and of functions, by name
  Overlaps,    \* whether a method may be read from an instance while it is held, read
               \* from another
  MaxStack,    \* bound of the model: operands
  MaxDepth     \* bound of the model: activations

Constructor == "__constructor"

Callables == Names \cup {Constructor, "fun"}

ASSUME MethodAssumption ==
  /\ Methods \in [Classes -> SUBSET (Names \cup {Constructor})]
  /\ Arity \in [Callables -> Nat]
  /\ "none" \notin Classes
  /\ MaxStack \in Nat /\ MaxDepth \in Nat
  /\ Overlaps \in BOOLEAN

VARIABLES
  stack,    \* the operands
  frames,   \* the activations, the running one last
  this,     \* the instance each method was last read from
  fields,   \* of each instance
  cl,       \* the class of each instance, "none" if it is not made yet
  running   \* FALSE once the machine has reported an error

vars == <<stack, frames, this, fields, cl, running>>

Other == [tag |-> "other"]
NOTHING == [tag |-> "nothing"]
VOID == [tag |-> "void"]
Fun == [tag |-> "fun"]
Class(c) == [tag |-> "class", class |-> c]
Inst(i) == [tag |-> "inst", inst |-> i]

\* Method m of class c, read from instance i.
Method(c, m, i) == [tag |-> "method", class |-> c, name |-> m, of |-> i]

Cells == {k \in Classes \X (Names \cup {Constructor}) : k[2] \in Methods[k[1]]}

Made == {i \in Insts : cl[i] # "none"}

Values ==
  {Other, NOTHING, VOID, Fun} \cup {Class(c) : c \in Classes}
    \cup {Inst(i) : i \in Made} \cup {Method(k[1], k[2], i) : k \in Cells, i \in Made}

\* The activation of what is outside of functions.
Program == [fun |-> <<"top">>, this |-> Other, of |-> Other, args |-> <<>>, floor |-> 0]

Init ==
  /\ stack = <<>> /\ running = TRUE
  /\ frames = <<Program>>
  /\ this = [k \in Cells |-> NOTHING]
  /\ fields = [i \in Insts |-> <<>>] /\ cl = [i \in Insts |-> "none"]

-----------------------------------------------------------------------------
(* The operand stack. *)

Act == frames[Len(frames)]
Height == Len(stack) - Act.floor
Top(n) == stack[Len(stack) - n]
Popped(n) == SubSeq(stack, 1, Len(stack) - n)

\* run() returns; what it leaves is not looked at again.
Fails ==
  /\ running' = FALSE /\ stack' = <<>> /\ frames' = <<Program>>
  /\ this' = [k \in Cells |-> NOTHING]
  /\ fields' = [i \in Insts |-> <<>>] /\ cl' = [i \in Insts |-> "none"]

Push(val) ==
  /\ running /\ Len(stack) < MaxStack
  /\ stack' = Append(stack, val)
  /\ UNCHANGED <<frames, this, fields, cl, running>>

LoadLiteral == \E val \in {Fun} \cup {Class(c) : c \in Classes} : Push(val)

LoadArgument == \E a \in 1 .. Len(Act.args) : Push(Act.args[a])

LoadThis == Push(Act.this)

Discard ==
  /\ running /\ Height > 0
  /\ stack' = Popped(1)
  /\ UNCHANGED <<frames, this, fields, cl, running>>

-----------------------------------------------------------------------------
(* Fields. *)

\* What get_field finds: the instance's own field before its class's method.
Field(i, n) ==
  IF n \in DOMAIN fields[i] THEN fields[i][n]
  ELSE IF <<cl[i], n>> \in Cells THEN Method(cl[i], n, i)
  ELSE VOID

\* Whether method <<c, m>> is held as a value read from another instance than i.
Held(c, m, i) ==
  LET Elsewhere(val) == val \in {Method(c, m, j) : j \in Insts \ {i}}
  IN  \/ \E n \in DOMAIN stack : Elsewhere(stack[n])
      \/ \E n \in DOMAIN frames : \E a \in DOMAIN frames[n].args : Elsewhere(frames[n].args[a])

\* Slip: a method that has a receiver keeps it.
M_Bind(c, m, i) ==
  this' = IF this[<<c, m>>] = NOTHING THEN [this EXCEPT ![<<c, m>>] = Inst(i)] ELSE this

Bind(c, m, i) == this' = [this EXCEPT ![<<c, m>>] = Inst(i)]

\* A method is bound again, from a field too.
Get ==
  /\ running /\ Height > 0 /\ Top(0).tag = "inst"
  /\ \E n \in Names :
       LET i == Top(0).inst
           val == Field(i, n)
       IN  IF val.tag = "method"
           THEN /\ Overlaps \/ ~Held(val.class, val.name, i)
                /\ Bind(val.class, val.name, i)
                /\ stack' = Append(Popped(1), Method(val.class, val.name, i))
           ELSE this' = this /\ stack' = Append(Popped(1), val)
  /\ UNCHANGED <<frames, fields, cl, running>>

\* OP_GET_16 asks whether the name is an instance.
GetWide == running /\ Height > 0 /\ Fails

GetFails == running /\ Height > 0 /\ Top(0).tag # "inst" /\ Fails

Set ==
  /\ running /\ Height > 1 /\ Top(1).tag = "inst"
  /\ \E n \in Names :
       fields' = [fields EXCEPT ![Top(1).inst] =
                    [f \in DOMAIN @ \cup {n} |-> IF f = n THEN Top(0) ELSE @[f]]]
  /\ stack' = Append(Popped(2), Top(0))
  /\ UNCHANGED <<frames, this, cl, running>>

SetFails == running /\ Height > 1 /\ Top(1).tag # "inst" /\ Fails

-----------------------------------------------------------------------------
(* Calls.  The callee is below its n arguments. *)

\* Arguments beyond the parameters have registers without a name.
Args(n, arity) == SubSeq(stack, Len(stack) - n + 1, Len(stack) - n + arity)

CanCall(n) == running /\ Height > n /\ Len(frames) < MaxDepth

\* A call of `callee`, whose receiver is `recv` and should be `of`.
Enter(callee, name, n, recv, of) ==
  /\ n >= Arity[name]
  /\ frames' = Append(frames, [fun |-> callee, this |-> recv, of |-> of,
                               args |-> Args(n, Arity[name]), floor |-> Len(stack) - n - 1])
  /\ stack' = Popped(n + 1)

CallFunction(n) ==
  /\ CanCall(n) /\ Top(n) = Fun
  /\ Enter(<<"fun">>, "fun", n, NOTHING, NOTHING)
  /\ UNCHANGED <<this, fields, cl, running>>

CallMethod(n) ==
  /\ CanCall(n) /\ Top(n).tag = "method"
  /\ LET k == <<Top(n).class, Top(n).name>>
     IN  Enter(k, k[2], n, this[k], Inst(Top(n).of))
  /\ UNCHANGED <<this, fields, cl, running>>

\* Slip: the class is not noted.
M_alloc_instance(i, c) == cl' = cl

alloc_instance(i, c) == cl' = [cl EXCEPT ![i] = c]

\* A class makes an instance; its constructor, if it has one, runs on it and need not have
\* been read.
CallClass(n) ==
  /\ CanCall(n) /\ Top(n).tag = "class" /\ Insts # Made
  /\ LET c == Top(n).class
         i == CHOOSE j \in Insts : j \notin Made
     IN  /\ alloc_instance(i, c)
         /\ IF Constructor \in Methods[c]
            THEN Enter(<<c, Constructor>>, Constructor, n, Inst(i), Inst(i))
            ELSE stack' = Append(Popped(n + 1), Inst(i)) /\ frames' = frames
  /\ UNCHANGED <<this, fields, running>>

\* Not a function, or too few arguments.
CallFails(n) ==
  /\ CanCall(n) /\ Fails
  /\ CASE Top(n) = Fun -> n < Arity["fun"]
       [] Top(n).tag = "method" -> n < Arity[Top(n).name]
       [] Top(n).tag = "class" -> Constructor \in Methods[Top(n).class] /\ n < Arity[Constructor]
       [] OTHER -> TRUE

Leave ==
  /\ frames' = SubSeq(frames, 1, Len(frames) - 1)
  /\ UNCHANGED <<this, fields, cl, running>>

\* The end of a function, or a return statement in any.
Return == running /\ Len(frames) > 1 /\ Height = 1 /\ Leave /\ stack' = stack

\* The end of a constructor: its value is dropped for `this`.
EndConstructor ==
  /\ running /\ Len(frames) > 1 /\ Height = 1
  /\ Act.fun \in Cells /\ Act.fun[2] = Constructor
  /\ Leave /\ stack' = Append(Popped(1), Act.this)

Next ==
  \/ LoadLiteral \/ LoadArgument \/ LoadThis \/ Discard
  \/ Get \/ GetWide \/ GetFails \/ Set \/ SetFails
  \/ \E n \in 0 .. MaxStack : CallFunction(n) \/ CallMethod(n) \/ CallClass(n) \/ CallFails(n)
  \/ Return \/ EndConstructor

Spec == Init /\ [][Next]_vars

-----------------------------------------------------------------------------
(* Properties. *)

\* Types: the objects that operands, fields, receivers and arguments name have been made,
\* and no activation holds more operands than there are.
TypeOK ==
  /\ stack \in Seq(Values) /\ running \in BOOLEAN
  /\ \A n \in DOMAIN frames :
       /\ frames[n].fun \in Cells \cup {<<"top">>, <<"fun">>}
       /\ {frames[n].this, frames[n].of} \subseteq Values
       /\ frames[n].args \in Seq(Values)
       /\ frames[n].floor \in 0 .. Len(stack)
  /\ this \in [Cells -> {NOTHING} \cup {Inst(i) : i \in Made}]
  /\ \A i \in Insts : \A n \in DOMAIN fields[i] : n \in Names /\ fields[i][n] \in Values
  /\ cl \in [Insts -> Classes \cup {"none"}]

\* `this` is the object the method was read from, in every activation and whatever it and
\* those it calls read and call: a field's name, the same method on another object, itself.
\* A constructor's is the new object, which it gives; a function's is nothing (R_THIS is set
\* by OP_CALL alone, from a cell that all readers of a method share).
ReceiverKept ==
  [][LoadThis \/ EndConstructor => stack'[Len(stack')] = Act.of]_vars
=============================================================================
