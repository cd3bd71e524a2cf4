----------------------------- MODULE MCScanner ------------------------------
(* All sources of a few characters; see the .cfg file. *)
EXTENDS Scanner
=============================================================================
