----------------------------- MODULE MCClosures -----------------------------
(* Bodies of a few instructions; see the .cfg file. *)
EXTENDS Closures
=============================================================================
