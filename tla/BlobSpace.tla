----------------------------- MODULE BlobSpace -----------------------------
(***************************************************************************)
(* What the blob pool promises its clients: a blob, once handed out, owns   *)
(* its header and its bytes alone and stays where it is, as long as it is   *)
(* until its last reference goes.                                           *)
(***************************************************************************)
EXTENDS Integers

CONSTANTS Cap, Hdr, Sizes

VARIABLE live   \* the blobs in use: pairs <<header offset, content length>>

\* The two blobs' bytes, headers included, do not meet.
Apart(b, c) ==
  \/ b[1] + Hdr + b[2] <= c[1]
  \/ c[1] + Hdr + c[2] <= b[1]

Init == live = {}

Allocate(o, s) ==
  /\ 0 <= o
  /\ o + Hdr + s <= Cap
  /\ \A b \in live : Apart(b, <<o, s>>)
  /\ live' = live \cup {<<o, s>>}

Release(b) == live' = live \ {b}

Next ==
  \/ \E o \in 0 .. Cap : \E s \in Sizes : Allocate(o, s)
  \/ \E b \in live : Release(b)

Spec == Init /\ [][Next]_live
=============================================================================
