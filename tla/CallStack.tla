----------------------------- MODULE CallStack -----------------------------
(***************************************************************************)
(* What OP_CALL and OP_RETURN promise: an activation's locals, function and *)
(* receiver change by its own assignments only, and control goes back to    *)
(* where the call was made.                                                 *)
(***************************************************************************)
EXTENDS Integers, Sequences

CONSTANTS Funs, Arity, Vals, Receivers, Sites, ZERO

VARIABLES
  stack,  \* the activations, the running one last
  at      \* where control went last

vars == <<stack, at>>

Top == Len(stack)

Init ==
  /\ stack = <<[ret |-> ZERO, fn |-> ZERO, this |-> ZERO, locals |-> <<>>]>>
  /\ at = <<"main">>

Enter(site, f, this, args) ==
  /\ stack' = Append(stack, [ret |-> site, fn |-> f, this |-> this, locals |-> args])
  /\ at' = <<"enter", f>>

Leave ==
  /\ Top > 1
  /\ stack' = SubSeq(stack, 1, Top - 1)
  /\ at' = <<"return", stack[Top].ret>>

Assign(j, v) == stack' = [stack EXCEPT ![Top].locals[j] = v] /\ UNCHANGED at

Declare(v) == stack' = [stack EXCEPT ![Top].locals = Append(@, v)] /\ UNCHANGED at

\* A block ends: the locals from the j-th on are gone.
Drop(j) ==
  /\ stack' = [stack EXCEPT ![Top].locals = SubSeq(@, 1, j - 1)]
  /\ UNCHANGED at

Next ==
  \/ \E site \in Sites, f \in Funs, this \in Receivers :
       \E args \in [1 .. Arity[f] -> Vals] : Enter(site, f, this, args)
  \/ Leave
  \/ \E j \in DOMAIN stack[Top].locals : Drop(j) \/ \E v \in Vals : Assign(j, v)
  \/ \E v \in Vals : Declare(v)

Spec == Init /\ [][Next]_vars
=============================================================================
