--------------------------- MODULE BlobPoolProofs ---------------------------
(***************************************************************************)
(* BlobPool for every region size, header size and set of requests.         *)
(***************************************************************************)
EXTENDS BlobPool, TLAPS

\* Where the cursors of the search and of the collector can stand.  The first
\* free offset never moves: TakeFirst's branch is dead (the remainder lies
\* behind the block taken) and the collector only lowers it.
Cursor ==
  /\ ffo = 0
  /\ pc \in {"search", "gc", "clientgc"} => h \in Headers \cup {Cap}
  /\ pc \in {"gc", "clientgc"} /\ prev # NULL =>
       NextBlob(prev) = h /\ rc[prev] = 0

IInv == TypeOK /\ Tiled /\ Cursor

-----------------------------------------------------------------------------
\* Cutting a free block in two keeps the region tiled.
LEMMA SplitTiles ==
  ASSUME TypeOK, Tiled, NEW o, NEW s \in Nat, Fits(o, s), Split(o, s)
  PROVE  /\ Headers' = Headers \cup {o + Hdr + s}
         /\ Headers' \subseteq 0 .. Cap - 1
         /\ len' \in [Headers' -> Nat]
         /\ rc' \in [Headers' -> Nat]
         /\ Tiled'
<1> DEFINE n == o + Hdr + s
<1> USE PoolAssumption
<1>0. Headers \subseteq 0 .. Cap - 1 /\ len \in [Headers -> Nat]
  BY DEF TypeOK
<1>1. /\ o \in Headers /\ o \in Nat /\ len[o] \in Nat /\ len[o] >= s + Hdr
      /\ Headers \subseteq Nat
  BY <1>0 DEF Fits
<1>2. /\ NextBlob(o) = o + Hdr + len[o]
      /\ NextBlob(o) \in Headers \cup {Cap}
      /\ \A x \in Headers : x <= o \/ NextBlob(o) <= x
  BY <1>1 DEF Tiled, NextBlob
<1>3. /\ NextBlob(o) \in Nat /\ n \in Nat
      /\ o < n /\ n < NextBlob(o) /\ NextBlob(o) <= Cap
  BY <1>1, <1>2 DEF TypeOK
<1>4. n \notin Headers
  BY <1>1, <1>2, <1>3
<1>5. Headers' = Headers \cup {n}
  BY DEF Split, Headers
<1>6. Headers' \subseteq 0 .. Cap - 1
  <2>1. n \in 0 .. Cap - 1
    BY <1>3
  <2> QED
    BY <2>1, <1>0, <1>5
<1>7. len' = [x \in Headers' |->
                IF x = o THEN s ELSE IF x = n THEN len[o] - s - Hdr ELSE len[x]]
  BY <1>5 DEF Split
<1>8. rc' = [x \in Headers' |-> IF x = o THEN 1 ELSE IF x = n THEN 0 ELSE rc[x]]
  BY <1>5 DEF Split
<1>9. len[o] - s - Hdr \in Nat
  BY <1>1
<1>10. len' \in [Headers' -> Nat]
  BY <1>5, <1>7, <1>9 DEF TypeOK
<1>11. rc' \in [Headers' -> Nat]
  BY <1>5, <1>8 DEF TypeOK
<1>12. Tiled'
  <2>1. 0 \in Headers'
    BY <1>5 DEF Tiled
  <2>2. ASSUME NEW x \in Headers'
        PROVE  /\ NextBlob(x)' \in Headers' \cup {Cap}
               /\ \A y \in Headers' : y <= x \/ NextBlob(x)' <= y
    <3>1. CASE x = o
      <4>1. NextBlob(x)' = n
        BY <3>1, <1>7, <1>5, <1>1 DEF NextBlob
      <4>2. \A y \in Headers : y <= o \/ n <= y
        BY <1>1, <1>2, <1>3
      <4> QED
        BY <4>1, <4>2, <3>1, <1>3, <1>5
    <3>2. CASE x = n
      <4>1. NextBlob(x)' = n + Hdr + (len[o] - s - Hdr)
        BY <3>2, <1>7, <1>3, <1>5 DEF NextBlob
      <4>2. NextBlob(x)' = NextBlob(o)
        BY <4>1, <1>1, <1>2
      <4> QED
        BY <4>2, <3>2, <1>1, <1>2, <1>3, <1>5
    <3>3. CASE x \in Headers /\ x # o
      <4>1. NextBlob(x)' = NextBlob(x)
        BY <3>3, <1>7, <1>4, <1>5 DEF NextBlob
      <4>2. /\ NextBlob(x) \in Headers \cup {Cap}
            /\ \A y \in Headers : y <= x \/ NextBlob(x) <= y
        BY <3>3 DEF Tiled
      <4>3. x \in Nat /\ NextBlob(x) \in Nat
        BY <3>3, <4>2, <1>1
      <4>4. (x <= o \/ NextBlob(o) <= x) /\ (o <= x \/ NextBlob(x) <= o)
        BY <4>2, <3>3, <1>1, <1>2
      <4>5. n <= x \/ NextBlob(x) <= n
        BY <4>3, <4>4, <3>3, <1>1, <1>3
      <4> QED
        BY <4>1, <4>2, <4>5, <1>5
    <3> QED
      BY <3>1, <3>2, <3>3, <1>5
  <2> QED
    BY <2>1, <2>2 DEF Tiled
<1> QED
  BY <1>5, <1>6, <1>10, <1>11, <1>12

\* So does joining a free block to the free block before it.
LEMMA MergeTiles ==
  ASSUME TypeOK, Tiled, Cursor, CollectMerge
  PROVE  /\ Headers' = Headers \ {h}
         /\ Headers' \subseteq 0 .. Cap - 1
         /\ len' \in [Headers' -> Nat]
         /\ rc' \in [Headers' -> Nat]
         /\ Tiled'
         /\ prev \in Headers' /\ 0 \in Headers'
         /\ NextBlob(prev)' = NextBlob(h) /\ rc'[prev] = 0
<1> USE PoolAssumption
<1>0. h \in Headers /\ NextBlob(prev) = h /\ rc[prev] = 0
  BY DEF Cursor, CollectMerge, Collecting
<1>a. /\ Headers \subseteq 0 .. Cap - 1 /\ len \in [Headers -> Nat]
      /\ prev \in Headers
  BY DEF TypeOK, CollectMerge
<1>1. /\ h \in Headers /\ prev \in Headers /\ h \in Nat /\ prev \in Nat
      /\ len[h] \in Nat /\ len[prev] \in Nat /\ NextBlob(prev) = h /\ rc[prev] = 0
  BY <1>0, <1>a
<1>2. NextBlob(prev) = prev + Hdr + len[prev] /\ NextBlob(h) = h + Hdr + len[h]
  BY DEF NextBlob
<1>3. prev < h /\ h < NextBlob(h) /\ 0 # h /\ prev # h
  BY <1>1, <1>2
<1>4. Headers' = Headers \ {h}
  BY DEF CollectMerge, Headers
<1>5. /\ len' = [x \in Headers' |->
                  IF x = prev THEN len[prev] + len[h] + Hdr ELSE len[x]]
      /\ rc' = [x \in Headers' |-> rc[x]]
  BY <1>4 DEF CollectMerge
<1>6. /\ Headers' \subseteq 0 .. Cap - 1
      /\ prev \in Headers' /\ 0 \in Headers'
      /\ len' \in [Headers' -> Nat]
      /\ rc' \in [Headers' -> Nat]
      /\ rc'[prev] = 0
  BY <1>1, <1>3, <1>4, <1>5 DEF TypeOK, Tiled
<1>7. NextBlob(prev)' = NextBlob(h)
  <2>1. NextBlob(prev)' = prev + Hdr + (len[prev] + len[h] + Hdr)
    BY <1>5, <1>6, CollectMerge DEF CollectMerge, NextBlob
  <2> QED
    BY <2>1, <1>1, <1>2
<1>8. ASSUME NEW x \in Headers'
      PROVE  /\ NextBlob(x)' \in Headers' \cup {Cap}
             /\ \A y \in Headers' : y <= x \/ NextBlob(x)' <= y
  <2>0. x \in Headers /\ x # h /\ x \in Nat /\ Headers \subseteq Nat
    BY <1>4 DEF TypeOK
  <2>t. \A u \in Headers : /\ NextBlob(u) \in Headers \cup {Cap}
                           /\ \A y \in Headers : y <= u \/ NextBlob(u) <= y
    BY DEF Tiled
  <2>1. CASE x = prev
    <3>1. NextBlob(x)' = NextBlob(h)
      BY <2>1, <1>5, <1>6, <1>1, <1>2 DEF NextBlob
    <3>2. NextBlob(h) \in Headers' \cup {Cap}
      <4>1. NextBlob(h) \in Headers \cup {Cap} /\ NextBlob(h) # h
        BY <2>t, <1>1, <1>2, <1>3
      <4> QED
        BY <4>1, <1>4
    <3>3. ASSUME NEW y \in Headers' PROVE y <= prev \/ NextBlob(h) <= y
      <4>1. y \in Headers /\ y # h /\ y \in Nat
        BY <1>4, <2>0
      <4>2. (y <= prev \/ h <= y) /\ (y <= h \/ NextBlob(h) <= y)
        BY <4>1, <2>t, <1>1
      <4> QED
        BY <4>1, <4>2, <1>1
    <3> QED
      BY <3>1, <3>2, <3>3, <2>1
  <2>2. CASE x # prev
    <3>1. NextBlob(x)' = NextBlob(x)
      BY <2>2, <2>0, <1>5 DEF NextBlob
    <3>2. NextBlob(x) # h
      <4>1. SUFFICES ASSUME NextBlob(x) = h PROVE FALSE
        OBVIOUS
      <4>2. x + Hdr + len[x] = h /\ len[x] \in Nat /\ x < h
        BY <4>1, <2>0, <1>1 DEF NextBlob, TypeOK
      <4>3. (prev <= x \/ NextBlob(x) <= prev) /\ (x <= prev \/ h <= x)
        BY <2>t, <2>0, <1>1
      <4> QED
        BY <4>1, <4>2, <4>3, <2>0, <2>2, <1>1, <1>3
    <3> QED
      BY <3>1, <3>2, <2>t, <2>0, <1>4
  <2> QED
    BY <2>1, <2>2
<1>9. Tiled'
  BY <1>6, <1>8 DEF Tiled
<1> QED
  BY <1>4, <1>6, <1>7, <1>9
-----------------------------------------------------------------------------
LEMMA InitInv == Init => IInv
<1> SUFFICES ASSUME Init PROVE IInv
  OBVIOUS
<1> USE PoolAssumption
<1>1. Headers = {0} /\ len = [o \in {0} |-> Cap - Hdr] /\ len[0] = Cap - Hdr
  BY DEF Init, Headers
<1>2. TypeOK
  BY <1>1 DEF TypeOK, Init
<1>3. Tiled
  <2>1. NextBlob(0) = Cap
    BY <1>1 DEF NextBlob
  <2> QED
    BY <1>1, <2>1 DEF Tiled
<1>4. Cursor
  BY DEF Cursor, Init
<1> QED
  BY <1>2, <1>3, <1>4 DEF IInv

\* From a header, __next_blob leads to a header or to the end of the region,
\* and always forward.
LEMMA NextBlobIn ==
  ASSUME TypeOK, Tiled, NEW o \in Headers
  PROVE  /\ NextBlob(o) \in Headers \cup {Cap}
         /\ NextBlob(o) \in 0 .. Cap
         /\ o < NextBlob(o)
<1> USE PoolAssumption
<1>1. Headers \subseteq 0 .. Cap - 1 /\ len \in [Headers -> Nat]
  BY DEF TypeOK
<1>2. NextBlob(o) \in Headers \cup {Cap}
  BY DEF Tiled
<1>3. o \in Nat /\ len[o] \in Nat /\ NextBlob(o) = o + Hdr + len[o]
  BY <1>1 DEF NextBlob
<1> QED
  BY <1>1, <1>2, <1>3

\* Nothing that leaves the headers and their lengths alone disturbs the tiling.
LEMMA SameTiling ==
  ASSUME TypeOK, Tiled, UNCHANGED len
  PROVE  /\ Headers' = Headers
         /\ Tiled'
BY DEF Tiled, Headers, NextBlob

\* A block taken while searching.
LEMMA TakeInv ==
  ASSUME IInv, TakeFirst \/ SearchTake
  PROVE  IInv'
<1> USE PoolAssumption
<1>1. PICK o : /\ Fits(o, req) /\ Split(o, req)
               /\ ffo' = ffo /\ pc' = "ready" /\ Idle
               /\ UNCHANGED <<prev, gcFree>> /\ (o = ffo \/ ffo' = ffo)
  <2>1. CASE SearchTake
    BY <2>1 DEF SearchTake
  <2>2. CASE TakeFirst
    <3>1. ffo = 0 /\ ffo + Hdr + req \in Nat
      BY DEF IInv, Cursor, TypeOK
    <3>2. ffo' = ffo
      BY <2>2, <3>1 DEF TakeFirst
    <3> QED
      BY <2>2, <3>2 DEF TakeFirst
  <2> QED
    BY <2>1, <2>2
<1>2. req \in Nat /\ TypeOK /\ Tiled /\ Cursor
  BY DEF IInv, TypeOK
<1>3. /\ Headers' = Headers \cup {o + Hdr + req}
      /\ Headers' \subseteq 0 .. Cap - 1
      /\ len' \in [Headers' -> Nat]
      /\ rc' \in [Headers' -> Nat]
      /\ Tiled'
  BY <1>1, <1>2, SplitTiles
<1>4. TypeOK'
  BY <1>1, <1>2, <1>3 DEF TypeOK, Idle
<1>5. Cursor'
  BY <1>1, <1>2 DEF Cursor
<1> QED
  BY <1>3, <1>4, <1>5 DEF IInv

\* A step of the collector.
LEMMA CollectInv ==
  ASSUME IInv, CollectMerge \/ CollectFree \/ CollectUsed
  PROVE  IInv'
<1> USE PoolAssumption
<1>1. TypeOK /\ Tiled /\ Cursor
  BY DEF IInv
<1>2. h \in Headers /\ pc \in {"gc", "clientgc"} /\ ffo = 0
  BY <1>1 DEF Cursor, Collecting, CollectMerge, CollectFree, CollectUsed
<1>3. NextBlob(h) \in Headers \cup {Cap} /\ NextBlob(h) \in 0 .. Cap /\ h < NextBlob(h)
  BY <1>1, <1>2, NextBlobIn
<1>4. CASE CollectMerge
  <2>1. /\ Headers' = Headers \ {h}
        /\ Headers' \subseteq 0 .. Cap - 1
        /\ len' \in [Headers' -> Nat]
        /\ rc' \in [Headers' -> Nat]
        /\ Tiled'
        /\ prev \in Headers' /\ 0 \in Headers'
        /\ NextBlob(prev)' = NextBlob(h) /\ rc'[prev] = 0
    BY <1>1, <1>4, MergeTiles
  <2>2. /\ h' = NextBlob(h)
        /\ UNCHANGED <<ffo, pc, req, lastFree, prev, gcFree>>
    BY <1>4 DEF CollectMerge
  <2>3. TypeOK'
    BY <1>1, <1>2, <1>3, <2>1, <2>2 DEF TypeOK
  <2>4. h' \in Headers' \cup {Cap}
    <3>1. h \in Nat
      BY <1>1 DEF TypeOK
    <3>2. NextBlob(h) # h
      BY <1>3, <3>1
    <3> QED
      BY <1>3, <2>1, <2>2, <3>2
  <2>5. NextBlob(prev)' = h' /\ prev' = prev /\ rc'[prev'] = 0
    BY <2>1, <2>2
  <2>6. Cursor'
    BY <1>2, <2>2, <2>4, <2>5, <2>1 DEF Cursor, NextBlob
  <2> QED
    BY <2>1, <2>3, <2>6 DEF IInv
<1>5. CASE CollectFree \/ CollectUsed
  <2>1. UNCHANGED <<len, rc, pc, req, lastFree>> /\ h' = NextBlob(h)
    BY <1>5 DEF CollectFree, CollectUsed
  <2>2. ffo' = ffo
    <3>1. h \in Nat
      BY <1>1 DEF TypeOK
    <3> QED
      BY <1>5, <1>2, <3>1 DEF CollectFree, CollectUsed
  <2>3. Headers' = Headers /\ Tiled'
    BY <1>1, <2>1, SameTiling
  <2>4. /\ prev' \in {NULL, h}
        /\ prev' = NULL \/ rc[h] = 0
        /\ gcFree' \in Nat
    <3>1. len[h] \in Nat /\ gcFree \in Nat
      BY <1>1, <1>2 DEF TypeOK
    <3> QED
      BY <1>5, <3>1 DEF CollectFree, CollectUsed
  <2>5. TypeOK'
    BY <1>1, <1>2, <1>3, <2>1, <2>2, <2>3, <2>4 DEF TypeOK
  <2>6. Cursor'
    BY <1>2, <1>3, <2>1, <2>2, <2>3, <2>4 DEF Cursor, NextBlob
  <2> QED
    BY <2>3, <2>5, <2>6 DEF IInv
<1> QED
  BY <1>4, <1>5

\* The remaining steps move the cursors and the counts only.
LEMMA NextInv ==
  ASSUME IInv, [Next]_vars
  PROVE  IInv'
<1> USE PoolAssumption
<1>1. TypeOK /\ Tiled /\ Cursor
  BY DEF IInv
<1>2. CASE TakeFirst \/ SearchTake
  BY <1>2, TakeInv
<1>3. CASE CollectMerge \/ CollectFree \/ CollectUsed
  BY <1>3, CollectInv
<1>4. CASE UNCHANGED len /\ ~SearchNext /\ ~(CollectFree \/ CollectUsed)
  <2>1. Headers' = Headers /\ Tiled'
    BY <1>1, <1>4, SameTiling
  <2>2. CASE \E s \in Sizes : Alloc(s)
    BY <1>1, <2>1, <2>2 DEF IInv, TypeOK, Cursor, Alloc, NextBlob
  <2>3. CASE \E o \in Headers : Take(o) \/ Untake(o)
    <3>1. PICK o \in Headers : Take(o) \/ Untake(o)
      BY <2>3
    <3>2. rc' \in [Headers -> Nat] /\ pc = "ready"
          /\ UNCHANGED <<len, ffo, pc, req, lastFree, h, prev, gcFree>>
      BY <1>1, <3>1 DEF TypeOK, Take, Untake
    <3> QED
      BY <1>1, <2>1, <3>2 DEF IInv, TypeOK, Cursor
  <2>4. CASE ClientCollect \/ SearchCollect
    <3>1. /\ UNCHANGED <<len, rc, ffo, req, lastFree>>
          /\ h' = 0 /\ prev' = NULL /\ gcFree' = 0
          /\ pc' \in {"gc", "clientgc"}
      BY <2>4 DEF ClientCollect, SearchCollect, StartCollector
    <3> QED
      BY <1>1, <2>1, <3>1 DEF IInv, TypeOK, Cursor, Tiled
  <2>5. CASE StartSearch
    BY <1>1, <2>1, <2>5 DEF IInv, TypeOK, Cursor, StartSearch
  <2>6. CASE Retry \/ ClientCollected
    BY <1>1, <2>1, <2>6 DEF IInv, TypeOK, Cursor, Retry, ClientCollected, EndCollector
  <2>7. CASE GiveUp
    BY <1>1, <2>1, <2>7 DEF IInv, TypeOK, Cursor, GiveUp
  <2>8. CASE UNCHANGED vars
    BY <1>1, <2>1, <2>8 DEF IInv, TypeOK, Cursor, NextBlob, vars
  <2> QED
    BY <1>4, <1>2, <1>3, <2>2, <2>3, <2>4, <2>5, <2>6, <2>7, <2>8
       DEF Next, Client, Allocator
<1>5. CASE SearchNext
  <2>1. Headers' = Headers /\ Tiled'
    BY <1>1, <1>5, SameTiling DEF SearchNext
  <2>2. h \in Headers
    <3>1. h \in Headers \cup {Cap} /\ req \in Nat /\ Cap - h >= Hdr + req
      BY <1>1, <1>5 DEF Cursor, TypeOK, SearchNext, TailTooShort
    <3> QED
      BY <3>1
  <2>3. NextBlob(h) \in Headers \cup {Cap} /\ NextBlob(h) \in 0 .. Cap
    BY <1>1, <2>2, NextBlobIn
  <2> QED
    BY <1>1, <1>5, <2>1, <2>3 DEF IInv, TypeOK, Cursor, SearchNext
<1> QED
  <2>1. CASE UNCHANGED len
    BY <1>3, <1>4, <1>5, <2>1
  <2>2. CASE ~UNCHANGED len
    BY <1>2, <1>3, <2>2 DEF Next, Client, Allocator, vars, Alloc, StartSearch,
       SearchNext, SearchCollect, ClientCollect, Retry, GiveUp, ClientCollected,
       Take, Untake
  <2> QED
    BY <2>1, <2>2

\* The pool is well formed in every state of every run, for every region and
\* request size.
THEOREM PoolInvariant == Spec => []IInv
<1>1. Init => IInv
  BY InitInv
<1>2. IInv /\ [Next]_vars => IInv'
  BY NextInv
<1> QED
  BY <1>1, <1>2, PTL DEF Spec

\* The types of the pool's state (init_pit, value.c:123).
THEOREM PoolTypes == Spec => []TypeOK
<1>1. IInv => TypeOK
  BY DEF IInv
<1> QED
  BY <1>1, PoolInvariant, PTL

\* Cutting and merging (value.c:59-71, 75-82, 225-230) keep the region tiled,
\* so that __gc_collect always meets its end condition.
THEOREM PoolTiled == Spec => []Tiled
<1>1. IInv => Tiled
  BY DEF IInv
<1> QED
  BY <1>1, PoolInvariant, PTL

\* No free block lies below the offset the search starts from (value.c:73).
THEOREM PoolSearchCoversFree == Spec => []SearchCoversFree
<1>1. IInv => SearchCoversFree
  BY DEF IInv, TypeOK, Cursor, SearchCoversFree
<1> QED
  BY <1>1, PoolInvariant, PTL

-----------------------------------------------------------------------------
(* The pool implements BlobSpace. *)

LiveBlobs == {<<o, len[o]>> : o \in {x \in Headers : rc[x] > 0}}

\* While a call is under way its request is one that a client made.
Requested == pc \in {"start", "search", "gc"} => req \in Sizes

LEMMA RequestedInv == Spec => []Requested
<1>1. Init => Requested
  BY DEF Init, Requested
<1>2. Requested /\ [Next]_vars => Requested'
  BY DEF Requested, Next, Client, Allocator, vars, Alloc, TakeFirst, StartSearch,
     SearchTake, SearchNext, SearchCollect, ClientCollect, CollectMerge,
     CollectFree, CollectUsed, Collecting, Retry, GiveUp, ClientCollected,
     Take, Untake, Idle
<1> QED
  BY <1>1, <1>2, PTL DEF Spec

\* Taking a free block allocates its first bytes.
LEMMA TakeAllocates ==
  ASSUME TypeOK, Tiled, NEW o, NEW s \in Sizes, Fits(o, s), Split(o, s)
  PROVE  o \in 0 .. Cap /\ Space!Allocate(o, s)
<1> USE PoolAssumption
<1>0. /\ Headers \subseteq 0 .. Cap - 1 /\ len \in [Headers -> Nat]
      /\ rc \in [Headers -> Nat] /\ s \in Nat
  BY DEF TypeOK
<1>1. /\ o \in Headers /\ o \in Nat /\ rc[o] = 0 /\ len[o] \in Nat
      /\ len[o] >= s + Hdr /\ NextBlob(o) = o + Hdr + len[o]
  BY <1>0 DEF Fits, NextBlob
<1>2. NextBlob(o) \in 0 .. Cap
  BY <1>1, NextBlobIn
<1>3. o + Hdr + s <= Cap /\ o \in 0 .. Cap
  BY <1>0, <1>1, <1>2
<1>4. ASSUME NEW b \in LiveBlobs PROVE Space!Apart(b, <<o, s>>)
  <2>1. PICK x \in Headers : rc[x] > 0 /\ b = <<x, len[x]>>
    BY DEF LiveBlobs
  <2>2. x \in Nat /\ len[x] \in Nat /\ NextBlob(x) = x + Hdr + len[x] /\ x # o
    BY <1>0, <1>1, <2>1 DEF NextBlob
  <2>3. (x <= o \/ NextBlob(o) <= x) /\ (o <= x \/ NextBlob(x) <= o)
    BY <1>1 DEF Tiled
  <2>4. x + Hdr + len[x] <= o \/ o + Hdr + s <= x
    BY <1>0, <1>1, <2>2, <2>3
  <2> QED
    BY <2>1, <2>4 DEF Space!Apart
<1>5. LiveBlobs' = LiveBlobs \cup {<<o, s>>}
  <2> DEFINE n == o + Hdr + s
  <2>1. n \notin Headers
    <3>1. \A x \in Headers : x <= o \/ NextBlob(o) <= x
      BY <1>1 DEF Tiled
    <3>2. o < n /\ n < NextBlob(o) /\ n \in Nat
      BY <1>0, <1>1
    <3> QED
      BY <1>1, <1>2, <3>1, <3>2
  <2>2. /\ Headers' = Headers \cup {n}
        /\ n # o
        /\ len'[o] = s /\ rc'[o] = 1 /\ rc'[n] = 0
        /\ \A x \in Headers \ {o} : len'[x] = len[x] /\ rc'[x] = rc[x]
    <3>1. Headers' = Headers \cup {n}
      BY DEF Split, Headers
    <3> QED
      BY <3>1, <1>1, <2>1 DEF Split
  <2>3. ASSUME NEW b PROVE b \in LiveBlobs' <=> b \in LiveBlobs \cup {<<o, s>>}
    <3>1. b \in LiveBlobs' <=> \E x \in Headers' : rc'[x] > 0 /\ b = <<x, len'[x]>>
      BY DEF LiveBlobs
    <3>2. b \in LiveBlobs <=> \E x \in Headers : rc[x] > 0 /\ b = <<x, len[x]>>
      BY DEF LiveBlobs
    <3>3. b \in LiveBlobs' => b \in LiveBlobs \cup {<<o, s>>}
      BY <3>1, <3>2, <2>2
    <3>4. b \in LiveBlobs => b \in LiveBlobs'
      BY <3>1, <3>2, <2>2, <1>1
    <3>5. <<o, s>> \in LiveBlobs'
      <4>1. o \in Headers' /\ rc'[o] > 0
        BY <2>2, <1>1
      <4> QED
        BY <4>1, <2>2 DEF LiveBlobs
    <3> QED
      BY <3>3, <3>4, <3>5
  <2> QED
    BY <2>3
<1> QED
  BY <1>3, <1>4, <1>5 DEF Space!Allocate, LiveBlobs

\* Merging moves no byte of a blob in use.
LEMMA MergeStutters ==
  ASSUME IInv, CollectMerge
  PROVE  LiveBlobs' = LiveBlobs
<1>1. /\ rc[h] = 0 /\ rc[prev] = 0 /\ Headers' = Headers \ {h}
      /\ \A x \in Headers' : rc'[x] = rc[x] /\ (x # prev => len'[x] = len[x])
  BY DEF IInv, Cursor, CollectMerge, Collecting, Headers
<1>2. ASSUME NEW b PROVE b \in LiveBlobs' <=> b \in LiveBlobs
  <2>1. b \in LiveBlobs' <=> \E x \in Headers' : rc'[x] > 0 /\ b = <<x, len'[x]>>
    BY DEF LiveBlobs
  <2>2. b \in LiveBlobs <=> \E x \in Headers : rc[x] > 0 /\ b = <<x, len[x]>>
    BY DEF LiveBlobs
  <2> QED
    BY <2>1, <2>2, <1>1
<1> QED
  BY <1>2

\* Counting a reference down either keeps the blob or releases it.
LEMMA UntakeReleases ==
  ASSUME TypeOK, NEW o \in Headers, Untake(o)
  PROVE  [Space!Next]_LiveBlobs
<1>1. /\ Headers' = Headers /\ len' = len /\ rc[o] \in Nat \ {0}
      /\ rc'[o] = rc[o] - 1
      /\ \A x \in Headers \ {o} : rc'[x] = rc[x]
  BY DEF TypeOK, Untake, Headers
<1>2. LiveBlobs' = {<<x, len[x]>> : x \in {y \in Headers : rc'[y] > 0}}
  BY <1>1 DEF LiveBlobs
<1>3. CASE rc[o] = 1
  <2>1. <<o, len[o]>> \in LiveBlobs
    BY <1>1, <1>3 DEF LiveBlobs
  <2>2. LiveBlobs' = LiveBlobs \ {<<o, len[o]>>}
    <3>1. ASSUME NEW b
          PROVE  b \in LiveBlobs' <=> b \in LiveBlobs \ {<<o, len[o]>>}
      <4>1. b \in LiveBlobs' <=> \E x \in Headers : rc'[x] > 0 /\ b = <<x, len[x]>>
        BY <1>2
      <4>2. b \in LiveBlobs <=> \E x \in Headers : rc[x] > 0 /\ b = <<x, len[x]>>
        BY DEF LiveBlobs
      <4>3. \A x : <<x, len[x]>> = <<o, len[o]>> <=> x = o
        OBVIOUS
      <4> QED
        BY <4>1, <4>2, <4>3, <1>1, <1>3
    <3> QED
      BY <3>1
  <2> QED
    BY <2>1, <2>2 DEF Space!Next, Space!Release, LiveBlobs
<1>4. CASE rc[o] # 1
  <2>1. \A x \in Headers : rc'[x] > 0 <=> rc[x] > 0
    BY <1>1, <1>4
  <2>2. LiveBlobs' = LiveBlobs
    BY <1>2, <2>1 DEF LiveBlobs
  <2> QED
    BY <2>2
<1> QED
  BY <1>3, <1>4

\* Every step of the pool is a step of BlobSpace or leaves the blobs alone.
LEMMA NextSimulates ==
  ASSUME IInv, Requested, [Next]_vars
  PROVE  [Space!Next]_LiveBlobs
<1>1. TypeOK /\ Tiled
  BY DEF IInv
<1>2. CASE TakeFirst \/ SearchTake
  <2>1. PICK s \in Sizes : s = req
    BY <1>2 DEF TakeFirst, SearchTake, Requested
  <2>2. PICK o : Fits(o, s) /\ Split(o, s)
    <3>1. CASE TakeFirst
      <4>1. PICK x : x = ffo
        OBVIOUS
      <4>2. Fits(x, s)
        BY <2>1, <3>1, <4>1 DEF TakeFirst, Fits
      <4>3. Split(x, s)
        BY <2>1, <3>1, <4>1 DEF TakeFirst, Split
      <4> QED
        BY <4>2, <4>3
    <3>2. CASE SearchTake
      <4>1. PICK x : x = h
        OBVIOUS
      <4>2. Fits(x, s)
        BY <2>1, <3>2, <4>1 DEF SearchTake, Fits
      <4>3. Split(x, s)
        BY <2>1, <3>2, <4>1 DEF SearchTake, Split
      <4> QED
        BY <4>2, <4>3
    <3> QED
      BY <1>2, <3>1, <3>2
  <2>3. o \in 0 .. Cap /\ Space!Allocate(o, s)
    BY <1>1, <2>2, TakeAllocates
  <2> QED
    BY <2>3 DEF Space!Next
<1>3. CASE CollectMerge
  BY <1>3, MergeStutters
<1>4. CASE \E o \in Headers : Untake(o)
  BY <1>1, <1>4, UntakeReleases
<1>5. CASE \E o \in Headers : Take(o)
  <2>1. PICK o \in Headers : Take(o)
    BY <1>5
  <2>2. /\ Headers' = Headers /\ len' = len
        /\ \A x \in Headers : rc'[x] > 0 <=> rc[x] > 0
    BY <1>1, <2>1 DEF TypeOK, Take, Headers
  <2> QED
    BY <2>2 DEF LiveBlobs
<1>6. CASE UNCHANGED <<len, rc>>
  BY <1>6 DEF LiveBlobs, Headers
<1> QED
  BY <1>2, <1>3, <1>4, <1>5, <1>6
     DEF Next, Client, Allocator, vars, Alloc, StartSearch, SearchNext,
         SearchCollect, CollectFree, CollectUsed, ClientCollect, Retry, GiveUp,
         ClientCollected

\* Whatever the sizes and the order of the calls: a blob in use is never handed
\* out again, in part or in whole, and neither moves nor changes its length
\* until its last reference goes (__alloc_blob, __gc_collect, obtake, obfree).
THEOREM PoolImplementsBlobSpace == Spec => ImplementsBlobSpace
<1>1. Init => Space!Init
  BY DEF Init, Space!Init, Headers
<1>2. IInv /\ Requested /\ [Next]_vars => [Space!Next]_LiveBlobs
  BY NextSimulates
<1> QED
  BY <1>1, <1>2, PoolInvariant, RequestedInv, PTL
     DEF Spec, ImplementsBlobSpace, Space!Spec, LiveBlobs

-----------------------------------------------------------------------------
(* The collector, the search and giving up. *)

\* No two neighbouring blocks are free.
Merged ==
  \A o \in Headers : rc[o] = 0 /\ NextBlob(o) \in Headers => rc[NextBlob(o)] # 0

\* No block can take the request.
NoFit == \A o \in Headers : ~Fits(o, req)

\* What the collector leaves behind its cursor is merged; without a prev the
\* block just before the cursor is in use.
MergedBehind ==
  pc \in {"gc", "clientgc"} =>
    \A o \in Headers :
      /\ rc[o] = 0 /\ NextBlob(o) < h => rc[NextBlob(o)] # 0
      /\ prev = NULL /\ NextBlob(o) = h => rc[o] # 0

\* From the second pass of a call on there is nothing left to merge.
MergedOnRetry == pc \in {"start", "search", "gc"} /\ lastFree # 0 => Merged

\* The search has looked at every block below its cursor.
SearchedBelow ==
  pc = "search" => \A o \in Headers : o < h => ~Fits(o, req)

\* The second collector pass of a call starts with no block fitting, and has
\* nothing to merge that could make one fit.
NoFitOnRetry == pc = "gc" /\ lastFree # 0 => NoFit

\* The last block of the region is free: a split always leaves a remainder.
TailFree == \A o \in Headers : NextBlob(o) = Cap => rc[o] = 0

CInv ==
  /\ MergedBehind /\ MergedOnRetry /\ SearchedBelow /\ NoFitOnRetry
  /\ TailFree /\ OverrunOnlyPastTightTail /\ GiveUpJustified

\* The order of the headers is the order of the blocks behind them.
LEMMA NextBlobOrder ==
  ASSUME TypeOK, Tiled, NEW o \in Headers, NEW x \in Headers
  PROVE  /\ o \in Nat /\ x \in Nat /\ NextBlob(o) \in Nat /\ NextBlob(x) \in Nat
         /\ o < x <=> NextBlob(o) <= x
         /\ o < x <=> NextBlob(o) < NextBlob(x)
         /\ o = x <=> NextBlob(o) = NextBlob(x)
<1> USE PoolAssumption
<1>1. /\ o \in Nat /\ x \in Nat
      /\ NextBlob(o) \in Nat /\ NextBlob(x) \in Nat
      /\ o < NextBlob(o) /\ x < NextBlob(x)
  BY NextBlobIn DEF TypeOK
<1>2. (x <= o \/ NextBlob(o) <= x) /\ (o <= x \/ NextBlob(x) <= o)
  BY DEF Tiled
<1> QED
  BY <1>1, <1>2

\* A step that leaves the blocks, the request and the pass total alone.
LEMMA SameBlocks ==
  ASSUME TypeOK, Tiled, UNCHANGED <<len, rc, req>>
  PROVE  /\ Merged' <=> Merged
         /\ NoFit' <=> NoFit
         /\ TailFree' <=> TailFree
         /\ Headers' = Headers
         /\ \A o \in Headers : NextBlob(o)' = NextBlob(o)
         /\ \A o \in Headers : Fits(o, req)' <=> Fits(o, req)
BY DEF Merged, NoFit, TailFree, Headers, NextBlob, Fits

\* Cutting the block found keeps the last block free.
LEMMA SplitTailFree ==
  ASSUME TypeOK, Tiled, TailFree, NEW o, NEW s \in Nat, Fits(o, s), Split(o, s)
  PROVE  TailFree'
<1> DEFINE n == o + Hdr + s
<1> USE PoolAssumption
<1>1. /\ o \in Headers /\ o \in Nat /\ len[o] \in Nat /\ len[o] >= s + Hdr
      /\ NextBlob(o) = o + Hdr + len[o] /\ NextBlob(o) \in 0 .. Cap
  BY NextBlobIn DEF Fits, TypeOK, NextBlob
<1>2. n < NextBlob(o) /\ n \in Nat /\ n # o
  BY <1>1
<1>3. /\ Headers' = Headers \cup {n}
      /\ len'[o] = s /\ rc'[n] = 0
      /\ \A x \in Headers \ {o, n} : len'[x] = len[x] /\ rc'[x] = rc[x]
  <2>1. Headers' = Headers \cup {n}
    BY DEF Split, Headers
  <2> QED
    BY <2>1, <1>1, <1>2 DEF Split
<1>4. ASSUME NEW x \in Headers', NextBlob(x)' = Cap PROVE rc'[x] = 0
  <2>1. NextBlob(x)' = x + Hdr + len'[x]
    BY DEF NextBlob
  <2>2. CASE x = o
    <3>1. NextBlob(x)' = n
      BY <2>1, <2>2, <1>3
    <3> QED
      BY <3>1, <1>1, <1>2, <1>4
  <2>3. CASE x = n
    BY <2>3, <1>3
  <2>4. CASE x \in Headers \ {o, n}
    <3>1. NextBlob(x) = Cap
      BY <2>1, <2>4, <1>3, <1>4 DEF NextBlob
    <3> QED
      BY <3>1, <2>4, <1>3 DEF TailFree
  <2> QED
    BY <2>2, <2>3, <2>4, <1>3
<1> QED
  BY <1>4 DEF TailFree

\* The collector moves on past a block.
LEMMA CollectCInv ==
  ASSUME IInv, CInv, CollectFree \/ CollectUsed
  PROVE  CInv'
<1> USE PoolAssumption
<1>1. TypeOK /\ Tiled /\ Cursor /\ h \in Headers
  BY DEF IInv, Cursor, Collecting, CollectFree, CollectUsed
<1>2. /\ UNCHANGED <<len, rc, pc, req, lastFree>> /\ h' = NextBlob(h)
      /\ pc \in {"gc", "clientgc"}
  BY DEF CollectFree, CollectUsed, Collecting
<1>3. /\ Merged' <=> Merged
      /\ NoFit' <=> NoFit
      /\ TailFree' <=> TailFree
      /\ Headers' = Headers
      /\ \A o \in Headers : NextBlob(o)' = NextBlob(o)
  BY <1>1, <1>2, SameBlocks
<1>4. MergedBehind'
  <2> SUFFICES ASSUME NEW o \in Headers
               PROVE  /\ rc[o] = 0 /\ NextBlob(o) < NextBlob(h)
                           => rc[NextBlob(o)] # 0
                      /\ prev' = NULL /\ NextBlob(o) = NextBlob(h) => rc[o] # 0
    BY <1>2, <1>3 DEF MergedBehind
  <2>1. /\ rc[o] = 0 /\ NextBlob(o) < h => rc[NextBlob(o)] # 0
        /\ prev = NULL /\ NextBlob(o) = h => rc[o] # 0
    BY <1>2 DEF CInv, MergedBehind
  <2>2. /\ NextBlob(o) < NextBlob(h) => NextBlob(o) <= h
        /\ NextBlob(o) = NextBlob(h) => o = h
        /\ NextBlob(o) \in Nat /\ h \in Nat
    BY <1>1, NextBlobOrder
  <2>3. /\ rc[h] = 0 => prev = NULL
        /\ prev' = NULL => rc[h] # 0
    <3>1. h \in Nat
      BY <2>2
    <3> QED
      BY <3>1 DEF CollectFree, CollectUsed, NULL
  <2> QED
    BY <2>1, <2>2, <2>3
<1> QED
  BY <1>2, <1>3, <1>4
     DEF CInv, MergedOnRetry, SearchedBelow, NoFitOnRetry,
         OverrunOnlyPastTightTail, GiveUpJustified

\* The collector joins two free blocks: only on the first pass of a call.
LEMMA MergeCInv ==
  ASSUME IInv, CInv, CollectMerge
  PROVE  CInv'
<1> USE PoolAssumption
<1>1. TypeOK /\ Tiled /\ Cursor /\ h \in Headers /\ h \in Nat
      /\ rc[h] = 0 /\ prev # NULL /\ pc \in {"gc", "clientgc"}
  BY DEF IInv, Cursor, TypeOK, Collecting, CollectMerge
<1>2. /\ NextBlob(prev) = h /\ rc[prev] = 0 /\ prev \in Headers
  BY <1>1 DEF Cursor, TypeOK
<1>3. /\ Headers' = Headers \ {h} /\ prev \in Headers'
      /\ NextBlob(prev)' = NextBlob(h) /\ rc'[prev] = 0
      /\ Tiled'
  BY <1>1, MergeTiles
<1>4. /\ UNCHANGED <<ffo, pc, req, lastFree, prev, gcFree>> /\ h' = NextBlob(h)
      /\ \A x \in Headers' : rc'[x] = rc[x]
      /\ \A x \in Headers' \ {prev} : len'[x] = len[x]
  BY <1>3 DEF CollectMerge
<1>5. \A x \in Headers' \ {prev} : NextBlob(x)' = NextBlob(x) /\ NextBlob(x) # h
  <2> TAKE x \in Headers' \ {prev}
  <2>1. NextBlob(x)' = NextBlob(x)
    BY <1>4 DEF NextBlob
  <2>2. NextBlob(x) # NextBlob(prev)
    BY <1>1, <1>2, <1>3, NextBlobOrder
  <2> QED
    BY <2>1, <2>2, <1>2
<1>6. MergedBehind'
  <2> SUFFICES ASSUME NEW o \in Headers', rc'[o] = 0, NextBlob(o)' < NextBlob(h)
               PROVE  rc'[NextBlob(o)'] # 0
    BY <1>1, <1>4 DEF MergedBehind
  <2>1. NextBlob(h) \in Nat
    BY <1>1, NextBlobOrder
  <2>2. o # prev
    <3>1. SUFFICES ASSUME o = prev PROVE FALSE
      OBVIOUS
    <3>2. NextBlob(o)' = NextBlob(h)
      BY <1>3, <1>4, <3>1 DEF NextBlob
    <3> QED
      BY <1>6, <2>1, <3>2
  <2>3. NextBlob(o)' = NextBlob(o) /\ NextBlob(o) # h /\ o \in Headers /\ rc[o] = 0
    BY <2>2, <1>3, <1>4, <1>5
  <2>4. NextBlob(o) < h
    <3>1. o < h /\ (o < h <=> NextBlob(o) <= h) /\ NextBlob(o) \in Nat
      BY <2>3, <1>1, NextBlobOrder
    <3> QED
      BY <3>1, <2>3, <1>1
  <2>5. rc[NextBlob(o)] # 0
    BY <2>3, <2>4, <1>1 DEF CInv, MergedBehind
  <2>6. NextBlob(o) \in Headers \ {h}
    <3>1. NextBlob(o) \in Headers \cup {Cap} /\ h < Cap
      BY <2>3, <1>1, NextBlobIn DEF TypeOK
    <3> QED
      BY <3>1, <2>3, <2>4, <1>1
  <2> QED
    BY <2>3, <2>5, <2>6, <1>3, <1>4
<1>7. pc = "gc" => lastFree = 0
  BY <1>1, <1>2 DEF CInv, MergedOnRetry, Merged
<1>8. TailFree'
  <2> SUFFICES ASSUME NEW o \in Headers', NextBlob(o)' = Cap PROVE rc'[o] = 0
    BY DEF TailFree
  <2>1. CASE o = prev
    BY <2>1, <1>3
  <2>2. CASE o # prev
    <3>1. NextBlob(o) = Cap /\ o \in Headers /\ rc'[o] = rc[o]
      BY <2>2, <1>3, <1>4, <1>5
    <3> QED
      BY <3>1 DEF CInv, TailFree
  <2> QED
    BY <2>1, <2>2
<1> QED
  BY <1>1, <1>4, <1>6, <1>7, <1>8
     DEF CInv, MergedOnRetry, SearchedBelow, NoFitOnRetry,
         OverrunOnlyPastTightTail, GiveUpJustified

\* The search looks at a block that does not fit and moves on.
LEMMA SearchCInv ==
  ASSUME IInv, CInv, SearchNext
  PROVE  CInv'
<1> USE PoolAssumption
<1>1. TypeOK /\ Tiled /\ Cursor /\ req \in Nat
  BY DEF IInv, TypeOK
<1>2. /\ UNCHANGED <<len, rc, pc, req, lastFree, gcFree>> /\ h' = NextBlob(h)
      /\ pc = "search" /\ ~Fits(h, req) /\ Cap - h >= Hdr + req
  BY DEF SearchNext, TailTooShort, TypeOK, IInv
<1>3. h \in Headers /\ h \in Nat /\ len[h] \in Nat /\ NextBlob(h) \in Nat
  <2>1. h \in Headers \cup {Cap}
    BY <1>1, <1>2 DEF Cursor
  <2>2. h \in Headers
    BY <2>1, <1>1, <1>2
  <2> QED
    BY <1>1, <2>2, NextBlobOrder DEF TypeOK
<1>4. /\ Merged' <=> Merged
      /\ TailFree' <=> TailFree
      /\ Headers' = Headers
      /\ \A o \in Headers : NextBlob(o)' = NextBlob(o)
      /\ \A o \in Headers : Fits(o, req)' <=> Fits(o, req)
  BY <1>1, <1>2, SameBlocks
<1>5. SearchedBelow'
  <2> SUFFICES ASSUME NEW o \in Headers, o < NextBlob(h) PROVE ~Fits(o, req)
    BY <1>2, <1>4 DEF SearchedBelow
  <2>1. o <= h /\ o \in Nat
    <3>1. /\ h < o <=> NextBlob(h) <= o
          /\ o \in Nat
      BY <1>1, <1>3, NextBlobOrder
    <3> QED
      BY <3>1, <1>3
  <2> QED
    BY <2>1, <1>2, <1>3 DEF CInv, SearchedBelow
<1>6. OverrunOnlyPastTightTail'
  <2> SUFFICES ASSUME NextBlob(h) = Cap
               PROVE  rc[h] = 0 /\ len[h] \in req .. req + Hdr - 1
    BY <1>2, <1>3, <1>4 DEF OverrunOnlyPastTightTail
  <2>1. rc[h] = 0
    BY <1>3 DEF CInv, TailFree
  <2>2. len[h] < req + Hdr
    BY <2>1, <1>1, <1>2, <1>3 DEF Fits
  <2>3. h + Hdr + len[h] = Cap
    BY DEF NextBlob
  <2> QED
    BY <2>1, <2>2, <2>3, <1>1, <1>2, <1>3
<1> QED
  BY <1>2, <1>4, <1>5, <1>6
     DEF CInv, MergedBehind, MergedOnRetry, NoFitOnRetry, GiveUpJustified

\* The search has reached the tail: no block of the pool fits.
LEMMA SearchedAll ==
  ASSUME IInv, CInv, SearchCollect
  PROVE  NoFit
<1> USE PoolAssumption
<1>1. TypeOK /\ Tiled /\ Cursor /\ req \in Nat
  BY DEF IInv, TypeOK
<1>2. /\ pc = "search" /\ ~Fits(h, req) /\ Cap - h < Hdr + req
      /\ h \in 0 .. Cap
  BY <1>1 DEF SearchCollect, TailTooShort, TypeOK
<1>3. ASSUME NEW o \in Headers, Fits(o, req) PROVE FALSE
  <2>1. /\ o \in Nat /\ len[o] \in Nat /\ len[o] >= req + Hdr
        /\ o + Hdr + len[o] <= Cap
    BY <1>1, <1>3, NextBlobIn DEF Fits, TypeOK, NextBlob
  <2>2. ~(o < h)
    BY <1>2, <1>3 DEF CInv, SearchedBelow
  <2> QED
    BY <2>1, <2>2, <1>1, <1>2
<1> QED
  BY <1>3 DEF NoFit

LEMMA NextCInv ==
  ASSUME IInv, CInv, [Next]_vars
  PROVE  CInv'
<1> USE PoolAssumption
<1> USE DEF CInv, MergedBehind, MergedOnRetry, SearchedBelow, NoFitOnRetry,
            OverrunOnlyPastTightTail, GiveUpJustified
<1>1. TypeOK /\ Tiled /\ Cursor /\ ffo = 0 /\ req \in Nat
  BY DEF IInv, TypeOK, Cursor
<1>2. CASE \E s \in Sizes : Alloc(s)
  <2>1. UNCHANGED <<len, rc>> /\ pc' = "start" /\ lastFree' = 0
    BY <1>2 DEF Alloc
  <2>2. TailFree'
    BY <2>1 DEF TailFree, Headers, NextBlob
  <2> QED
    BY <2>1, <2>2
<1>3. CASE \E o \in Headers : Take(o) \/ Untake(o)
  <2>1. PICK o \in Headers : Take(o) \/ Untake(o)
    BY <1>3
  <2>2. /\ len' = len /\ pc' = "ready" /\ rc[o] # 0
        /\ \A x \in Headers \ {o} : rc'[x] = rc[x]
    BY <1>1, <2>1 DEF Take, Untake, TypeOK
  <2>3. TailFree'
    BY <2>2 DEF TailFree, Headers, NextBlob
  <2> QED
    BY <2>2, <2>3
<1>4. CASE ClientCollect \/ SearchCollect
  <2>1. /\ UNCHANGED <<len, rc, ffo, req, lastFree>>
        /\ h' = 0 /\ prev' = NULL
        /\ pc' \in {"gc", "clientgc"}
        /\ pc' = "gc" => pc = "search" /\ NoFit
    BY <1>4, SearchedAll DEF ClientCollect, SearchCollect, StartCollector
  <2>2. /\ Merged' <=> Merged
        /\ NoFit' <=> NoFit
        /\ TailFree' <=> TailFree
        /\ Headers' = Headers
        /\ \A o \in Headers : NextBlob(o)' = NextBlob(o)
    BY <1>1, <2>1, SameBlocks
  <2>3. MergedBehind'
    <3>1. \A o \in Headers : NextBlob(o) \in Nat /\ 0 < NextBlob(o)
      BY <1>1, NextBlobIn DEF TypeOK
    <3> QED
      BY <2>1, <2>2, <3>1
  <2> QED
    BY <2>1, <2>2, <2>3
<1>5. CASE TakeFirst \/ SearchTake
  <2>1. PICK o : Fits(o, req) /\ Split(o, req) /\ pc' = "ready"
    BY <1>5 DEF TakeFirst, SearchTake
  <2>2. TailFree'
    BY <1>1, <2>1, SplitTailFree
  <2> QED
    BY <2>1, <2>2
<1>6. CASE StartSearch
  <2>1. UNCHANGED <<len, rc, req, lastFree>> /\ pc = "start" /\ pc' = "search" /\ h' = 0
    BY <1>1, <1>6 DEF StartSearch
  <2>2. (Merged' <=> Merged) /\ (TailFree' <=> TailFree) /\ Headers' = Headers
    BY <1>1, <2>1, SameBlocks
  <2>3. Headers \subseteq Nat /\ Cap # 0
    BY <1>1 DEF TypeOK
  <2> QED
    BY <2>1, <2>2, <2>3
<1>7. CASE SearchNext
  BY <1>7, SearchCInv
<1>8. CASE CollectMerge
  BY <1>8, MergeCInv
<1>9. CASE CollectFree \/ CollectUsed
  BY <1>9, CollectCInv
<1>10. CASE Retry \/ GiveUp \/ ClientCollected
  <2>1. /\ UNCHANGED <<len, rc, req>> /\ h = Cap /\ pc \in {"gc", "clientgc"}
        /\ pc' \in {"start", "exited", "ready"}
        /\ pc' = "exited" => pc = "gc" /\ gcFree' = lastFree
    BY <1>10 DEF Retry, GiveUp, ClientCollected
  <2>2. /\ Merged' <=> Merged
        /\ NoFit' <=> NoFit
        /\ TailFree' <=> TailFree
    BY <1>1, <2>1, SameBlocks
  <2>3. Merged
    <3>1. \A o \in Headers : o < Cap
      BY <1>1 DEF TypeOK
    <3> QED
      BY <2>1, <3>1 DEF Merged
  <2>4. GiveUpJustified'
    <3> SUFFICES ASSUME pc' = "exited", gcFree' # 0 PROVE NoFit'
      BY DEF NoFit
    <3> QED
      BY <2>1, <2>2
  <2> QED
    BY <2>1, <2>2, <2>3, <2>4
<1>11. CASE UNCHANGED vars
  BY <1>11 DEF vars, Headers, NextBlob, Merged, NoFit, TailFree, Fits
<1> QED
  BY <1>2, <1>3, <1>4, <1>5, <1>6, <1>7, <1>8, <1>9, <1>10, <1>11
     DEF Next, Client, Allocator

LEMMA CInvHolds == Spec => []CInv
<1>1. Init => CInv
  <2> SUFFICES ASSUME Init PROVE CInv
    OBVIOUS
  <2> QED
    BY DEF Init, CInv, MergedBehind, MergedOnRetry, SearchedBelow, NoFitOnRetry,
       OverrunOnlyPastTightTail, GiveUpJustified, TailFree, Headers
<1>2. IInv /\ CInv /\ [Next]_vars => CInv'
  BY NextCInv
<1> QED
  BY <1>1, <1>2, PoolInvariant, PTL DEF Spec

\* When __gc_collect reaches the end of the region no two neighbouring blocks
\* are free (value.c:225-230): one pass merges runs of any length.
THEOREM PoolFullyMerged == Spec => []FullyMerged
<1>1. IInv /\ CInv => FullyMerged
  <2> SUFFICES ASSUME IInv, CInv, pc \in {"gc", "clientgc"}, h = Cap,
                      NEW o \in Headers, rc[o] = 0, NextBlob(o) \in Headers
               PROVE  rc[NextBlob(o)] # 0
    BY DEF FullyMerged
  <2>1. NextBlob(o) < Cap
    <3>1. \A x \in Headers : x < Cap
      BY PoolAssumption DEF IInv, TypeOK
    <3> QED
      BY <3>1
  <2> QED
    BY <2>1 DEF CInv, MergedBehind
<1> QED
  BY <1>1, PoolInvariant, CInvHolds, PTL

\* __alloc_blob reads the word behind the region (value.c:74-95) only when the
\* last block is free and holds the request without a header for the rest.
THEOREM PoolOverrun == Spec => []OverrunOnlyPastTightTail
<1>1. CInv => OverrunOnlyPastTightTail
  BY DEF CInv
<1> QED
  BY <1>1, CInvHolds, PTL

\* exit(69) of __alloc_blob (value.c:83-90), after a pass that saw free memory:
\* the whole merged pool was searched and no block fits.
THEOREM PoolGiveUpJustified == Spec => []GiveUpJustified
<1>1. CInv => GiveUpJustified
  BY DEF CInv
<1> QED
  BY <1>1, CInvHolds, PTL
=============================================================================
