------------------------------ MODULE MCChunk -------------------------------
(* Sources of a few constructs, in any order and nested; see the .cfg file. *)
EXTENDS Chunk

OpsByLines == <<9, 6, 5>>
=============================================================================
