----------------------------- MODULE MCMethods ------------------------------
(* Two objects and a method that takes an argument; see the .cfg file. *)
EXTENDS Methods, TLC

CONSTANTS c1, c2

\* Only the first class has methods of its own.
MCMethodsOf == (c1 :> {"get", "__constructor"}) @@ (c2 :> {})
MCArity == [k \in Callables |-> IF k = "get" THEN 1 ELSE 0]
=============================================================================
