------------------------------ MODULE MCScopes ------------------------------
(* Two names, so that one may hide the other or itself, and one that begins with "this"; see the .cfg file. *)
EXTENDS Scopes
=============================================================================
