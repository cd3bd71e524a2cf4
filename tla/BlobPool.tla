------------------------------ MODULE BlobPool ------------------------------
(***************************************************************************)
(* The blob pool of value.c: one malloc'ed region tiled by headers          *)
(* { len, __rc } each followed by len bytes of content.                     *)
(*                                                                          *)
(* __alloc_blob searches for the first free header (__rc = 0) that can hold *)
(* the request AND a header for the remainder; when the search reaches the  *)
(* tail it runs __gc_collect, which merges neighbouring free blocks, and    *)
(* starts over; when two passes in a row report the same amount of free     *)
(* memory the process exits.  The search and the collector are loops in C:  *)
(* here one iteration is one step.                                          *)
(*                                                                          *)
(* Clients (obtake, obfree and their kind) only move __rc up and down; they *)
(* hold references to blocks with __rc > 0 only.  That discipline is what   *)
(* this module assumes of them, not something it shows.                     *)
(***************************************************************************)
EXTENDS Integers

CONSTANTS
  Cap,     \* __INITIAL_BLOB_PIT: bytes of the region (10240)
  Hdr,     \* sizeof(struct __blob_header) (16)
  Sizes,   \* the sizes clients ask for; every caller asks for at least 1
  MaxRc,   \* bound of the model: a client stops at this reference count
  Word     \* 2^64: the width of an offset

ASSUME PoolAssumption ==
  /\ Cap \in Nat /\ Hdr \in Nat \ {0} /\ Hdr <= Cap
  /\ Sizes \subseteq Nat \ {0}
  /\ MaxRc \in Nat \ {0}
  /\ Word \in Nat /\ Cap < Word

VARIABLES
  len,      \* header offset -> content length; its domain: where headers are
  rc,       \* header offset -> __rc
  ffo,      \* __first_free_offset
  pc,       \* where the allocator is
  req,      \* __alloc_blob's s
  lastFree, \* __alloc_blob's free_mem: what the previous pass reported
  h,        \* the cursor of the search, or of the collector
  prev,     \* the collector's prev
  gcFree    \* the collector's free_mem

vars == <<len, rc, ffo, pc, req, lastFree, h, prev, gcFree>>

NULL == 0 - 1

Headers == DOMAIN len

\* __next_blob
NextBlob(o) == o + Hdr + len[o]

\* Slips for the mutation runs: no room left for the remainder's header ...
M_FitsWithoutHeader(o, s) == o \in Headers /\ rc[o] = 0 /\ len[o] >= s

\* ... and a block taken without looking at __rc.
M_FitsInUse(o, s) == o \in Headers /\ len[o] >= s + Hdr

\* Only a block of the pool can be taken.  The word after the region, where
\* the search may look for a header, belongs to malloc: its size field sits
\* where __rc would be and is never 0.
Fits(o, s) ==
  /\ o \in Headers
  /\ rc[o] = 0
  /\ len[o] >= s + Hdr

-----------------------------------------------------------------------------
Init ==
  /\ len = [o \in {0} |-> Cap - Hdr]
  /\ rc = [o \in {0} |-> 0]
  /\ ffo = 0
  /\ pc = "ready"
  /\ req = 0
  /\ lastFree = 0
  /\ h = 0
  /\ prev = NULL
  /\ gcFree = 0

\* Slip: the remainder's length still counts its own header.
M_Split(o, s) ==
  LET n == o + Hdr + s IN
    /\ len' = [x \in Headers \cup {n} |->
                 IF x = o THEN s ELSE IF x = n THEN len[o] - s ELSE len[x]]
    /\ rc' = [x \in Headers \cup {n} |->
                 IF x = o THEN 1 ELSE IF x = n THEN 0 ELSE rc[x]]

\* Cut block o: s bytes for the request, the rest behind a new free header.
Split(o, s) ==
  LET n == o + Hdr + s IN
    /\ len' = [x \in Headers \cup {n} |->
                 IF x = o THEN s
                 ELSE IF x = n THEN len[o] - s - Hdr ELSE len[x]]
    /\ rc' = [x \in Headers \cup {n} |->
                 IF x = o THEN 1 ELSE IF x = n THEN 0 ELSE rc[x]]

\* __alloc_blob(s) is called.
Alloc(s) ==
  /\ pc = "ready"
  /\ pc' = "start"
  /\ req' = s
  /\ lastFree' = 0
  /\ UNCHANGED <<len, rc, ffo, h, prev, gcFree>>

Idle == h' = 0 /\ req' = 0 /\ lastFree' = 0

\* The block at __first_free_offset will do.
TakeFirst ==
  /\ pc = "start"
  /\ Fits(ffo, req)
  /\ Split(ffo, req)
  /\ LET n == ffo + Hdr + req IN
       ffo' = IF n < ffo THEN Word - n ELSE ffo
  /\ pc' = "ready"
  /\ Idle
  /\ UNCHANGED <<prev, gcFree>>

StartSearch ==
  /\ pc = "start"
  /\ ~Fits(ffo, req)
  /\ pc' = "search"
  /\ h' = ffo
  /\ UNCHANGED <<len, rc, ffo, req, lastFree, prev, gcFree>>

SearchTake ==
  /\ pc = "search"
  /\ Fits(h, req)
  /\ Split(h, req)
  /\ pc' = "ready"
  /\ Idle
  /\ UNCHANGED <<ffo, prev, gcFree>>

\* Slip: the header is left out of the bound.
M_TailTooShort == Cap - h < req

\* The bytes from the cursor to the end of the region cannot hold the request.
TailTooShort == Cap - h < Hdr + req

SearchNext ==
  /\ pc = "search"
  /\ ~Fits(h, req)
  /\ ~TailTooShort
  /\ h' = NextBlob(h)
  /\ UNCHANGED <<len, rc, ffo, pc, req, lastFree, prev, gcFree>>

StartCollector ==
  /\ h' = 0
  /\ prev' = NULL
  /\ gcFree' = 0

SearchCollect ==
  /\ pc = "search"
  /\ ~Fits(h, req)
  /\ TailTooShort
  /\ pc' = "gc"
  /\ StartCollector
  /\ UNCHANGED <<len, rc, ffo, req, lastFree>>

\* system.debug.garbage_collect()
ClientCollect ==
  /\ pc = "ready"
  /\ pc' = "clientgc"
  /\ StartCollector
  /\ UNCHANGED <<len, rc, ffo, req, lastFree>>

-----------------------------------------------------------------------------
(* One iteration of __gc_collect each. *)

Collecting == pc \in {"gc", "clientgc"} /\ h # Cap

\* Slip: a merge ends the run.
M_CollectMerge ==
  /\ Collecting
  /\ rc[h] = 0
  /\ prev # NULL
  /\ len' = [x \in Headers \ {h} |->
               IF x = prev THEN len[prev] + len[h] + Hdr ELSE len[x]]
  /\ rc' = [x \in Headers \ {h} |-> rc[x]]
  /\ h' = NextBlob(h)
  /\ prev' = NULL
  /\ UNCHANGED <<ffo, pc, req, lastFree, gcFree>>

\* A free block right after a free block disappears into it.
CollectMerge ==
  /\ Collecting
  /\ rc[h] = 0
  /\ prev # NULL
  /\ len' = [x \in Headers \ {h} |->
               IF x = prev THEN len[prev] + len[h] + Hdr ELSE len[x]]
  /\ rc' = [x \in Headers \ {h} |-> rc[x]]
  /\ h' = NextBlob(h)
  /\ UNCHANGED <<ffo, pc, req, lastFree, prev, gcFree>>

\* Slip: the offset is set at every run, not at the first.
M_CollectFree ==
  /\ Collecting
  /\ rc[h] = 0
  /\ prev = NULL
  /\ ffo' = h
  /\ gcFree' = gcFree + len[h]
  /\ prev' = h
  /\ h' = NextBlob(h)
  /\ UNCHANGED <<len, rc, pc, req, lastFree>>

\* The first free block of a run: the only one whose length is counted.
CollectFree ==
  /\ Collecting
  /\ rc[h] = 0
  /\ prev = NULL
  /\ ffo' = IF ffo > h THEN h ELSE ffo
  /\ gcFree' = gcFree + len[h]
  /\ prev' = h
  /\ h' = NextBlob(h)
  /\ UNCHANGED <<len, rc, pc, req, lastFree>>

CollectUsed ==
  /\ Collecting
  /\ rc[h] # 0
  /\ prev' = NULL
  /\ h' = NextBlob(h)
  /\ UNCHANGED <<len, rc, ffo, pc, req, lastFree, gcFree>>

EndCollector == h' = 0 /\ prev' = NULL /\ gcFree' = 0

\* Slip: the total of the pass is not remembered.
M_Retry ==
  /\ pc = "gc"
  /\ h = Cap
  /\ gcFree # lastFree
  /\ pc' = "start"
  /\ EndCollector
  /\ UNCHANGED <<len, rc, ffo, req, lastFree>>

\* The pass changed the free total: try again from __start.
Retry ==
  /\ pc = "gc"
  /\ h = Cap
  /\ gcFree # lastFree
  /\ pc' = "start"
  /\ lastFree' = gcFree
  /\ EndCollector
  /\ UNCHANGED <<len, rc, ffo, req>>

\* Slip: one pass is enough to give up.
M_GiveUp ==
  /\ pc = "gc"
  /\ h = Cap
  /\ pc' = "exited"
  /\ UNCHANGED <<len, rc, ffo, req, lastFree, h, prev, gcFree>>

\* "no more memory!", exit(69)
GiveUp ==
  /\ pc = "gc"
  /\ h = Cap
  /\ gcFree = lastFree
  /\ pc' = "exited"
  /\ UNCHANGED <<len, rc, ffo, req, lastFree, h, prev, gcFree>>

ClientCollected ==
  /\ pc = "clientgc"
  /\ h = Cap
  /\ pc' = "ready"
  /\ EndCollector
  /\ UNCHANGED <<len, rc, ffo, req, lastFree>>

-----------------------------------------------------------------------------
(* What clients do with a blob they hold. *)

Take(o) ==
  /\ pc = "ready"
  /\ rc[o] \in 1 .. MaxRc - 1
  /\ rc' = [rc EXCEPT ![o] = @ + 1]
  /\ UNCHANGED <<len, ffo, pc, req, lastFree, h, prev, gcFree>>

Untake(o) ==
  /\ pc = "ready"
  /\ rc[o] > 0
  /\ rc' = [rc EXCEPT ![o] = @ - 1]
  /\ UNCHANGED <<len, ffo, pc, req, lastFree, h, prev, gcFree>>

Client ==
  \/ \E s \in Sizes : Alloc(s)
  \/ \E o \in Headers : Take(o) \/ Untake(o)
  \/ ClientCollect

Allocator ==
  \/ TakeFirst \/ StartSearch \/ SearchTake \/ SearchNext \/ SearchCollect
  \/ CollectMerge \/ CollectFree \/ CollectUsed
  \/ Retry \/ GiveUp \/ ClientCollected

Next == Client \/ Allocator

\* A call into the pool runs to its end; nothing makes a client call it.
Spec == Init /\ [][Next]_vars /\ WF_vars(Allocator)
-----------------------------------------------------------------------------
(* Properties. *)

\* Types: every header lies in the region, the cursor never goes past its end.
TypeOK ==
  /\ Headers \subseteq 0 .. Cap - 1
  /\ len \in [Headers -> Nat]
  /\ rc \in [Headers -> Nat]
  /\ ffo \in Headers
  /\ pc \in {"ready", "start", "search", "gc", "clientgc", "exited"}
  /\ req \in Nat
  /\ lastFree \in Nat
  /\ h \in 0 .. Cap
  /\ prev \in {NULL} \cup Headers
  /\ gcFree \in Nat

\* Walking the pool with __next_blob from its first byte meets every header and
\* ends exactly at cap, whatever was cut and merged: otherwise __gc_collect's
\* "i != cap" never becomes false.
Tiled ==
  /\ 0 \in Headers
  /\ \A o \in Headers :
       /\ NextBlob(o) \in Headers \cup {Cap}
       /\ \A x \in Headers : x <= o \/ NextBlob(o) <= x

\* __first_free_offset hides no free block from the search, which starts there
\* and never looks below it.
SearchCoversFree == \A o \in Headers : rc[o] = 0 => o >= ffo

\* A finished collection leaves no two neighbouring free blocks.
FullyMerged ==
  pc \in {"gc", "clientgc"} /\ h = Cap =>
    \A o \in Headers :
      rc[o] = 0 /\ NextBlob(o) \in Headers => rc[NextBlob(o)] # 0

\* The search reads a header behind the end of the region in one case only: the
\* tail is free and holds the request, but not the remainder's header as well.
\* (The bound check counts one header; the fit needs two.)
OverrunOnlyPastTightTail ==
  pc = "search" /\ h = Cap =>
    \E o \in Headers :
      NextBlob(o) = Cap /\ rc[o] = 0 /\ len[o] \in req .. req + Hdr - 1

\* When the process gives up after a pass that saw free memory, no block of the
\* pool fits the request: the merged pool was searched to its end.
GiveUpJustified ==
  pc = "exited" /\ gcFree # 0 => \A o \in Headers : ~Fits(o, req)

\* A call of __alloc_blob comes to an end: the collect-and-retry loop cannot go
\* round for ever.
AllocReturns == pc = "start" ~> pc \in {"ready", "exited"}

\* The pool does what BlobSpace promises.
Space == INSTANCE BlobSpace WITH
  live <- {<<o, len[o]>> : o \in {x \in Headers : rc[x] > 0}}

ImplementsBlobSpace == Space!Spec

=============================================================================
