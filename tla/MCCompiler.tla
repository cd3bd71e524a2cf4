----------------------------- MODULE MCCompiler -----------------------------
(* Any source, nested as deep as the bounds in the .cfg files let it. *)
EXTENDS Compiler
=============================================================================
