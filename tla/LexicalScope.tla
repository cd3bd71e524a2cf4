---------------------------- MODULE LexicalScope ----------------------------
(***************************************************************************)
(* What the names of a guru program mean: a name that begins with "this"    *)
(* means the receiver, declared or not, and is never assigned; any other    *)
(* means the innermost variable of that name whose declaration is complete. *)
(* A scope takes its own variables with it and no others, and a constant is *)
(* not assigned.                                                            *)
(***************************************************************************)
EXTENDS Naturals, Sequences, FiniteSetsExt

CONSTANTS Names, ThisNames, NONE

VARIABLES
  scopes,   \* the open scopes: for each the names it has, and which are constants
  access    \* the access just compiled: its name, its scope and what it does, or
            \* the name the receiver goes by

vars == <<scopes, access>>

Init == scopes = <<>> /\ access = NONE

Enter == scopes' = Append(scopes, [x \in {} |-> FALSE]) /\ access' = NONE

Leave ==
  /\ scopes # <<>>
  /\ scopes' = SubSeq(scopes, 1, Len(scopes) - 1)
  /\ access' = NONE

Introduce(x, const) ==
  /\ scopes # <<>>
  /\ x \notin DOMAIN scopes[Len(scopes)]
  /\ scopes' = [scopes EXCEPT ![Len(scopes)] =
                  [y \in DOMAIN @ \cup {x} |-> IF y = x THEN const ELSE @[y]]]
  /\ access' = NONE

Having(x) == {d \in DOMAIN scopes : x \in DOMAIN scopes[d]}

\* A name no scope has is a global.
Scope(x) == IF Having(x) = {} THEN 0 ELSE Max(Having(x))

Access(x, assign) ==
  /\ x \notin ThisNames
  /\ assign /\ Having(x) # {} => ~scopes[Scope(x)][x]
  /\ access' = [name |-> x, scope |-> Scope(x), assign |-> assign]
  /\ UNCHANGED scopes

Receive(x) == access' = [receiver |-> x] /\ UNCHANGED scopes

Other == access' = NONE /\ UNCHANGED scopes

Next ==
  \/ Enter \/ Leave \/ Other
  \/ \E x \in Names, b \in BOOLEAN : Introduce(x, b) \/ Access(x, b)
  \/ \E x \in ThisNames : Receive(x)

Spec == Init /\ [][Next]_vars
=============================================================================
