------------------------------ MODULE HashMap ------------------------------
(***************************************************************************)
(* The open-addressing hash map of hashmap.c, one probe per step.           *)
(*                                                                          *)
(* set_val calls __rehash when the load is reached and __rehash calls       *)
(* set_val for every entry it moves, so the two are suspended inside one    *)
(* another: `stack` holds their activations, the innermost first.           *)
(*                                                                          *)
(* Keys are compared by memcmp over the length of the SEARCHED key.  Extends *)
(* names the pairs for which that is not equality: <<stored, searched>> where *)
(* the stored key's text goes on where the searched one ends.  Names of      *)
(* globals and fields end in NUL and have no such pairs; the interned        *)
(* strings, whose keys point into the source text, do.                      *)
(***************************************************************************)
EXTENDS Integers, Sequences, FiniteSets

CONSTANTS
  Keys, Vals,
  Hash,        \* [Keys -> Nat]: hm->hash
  Extends,     \* pairs of different keys that memcmp takes for equal
  UnsetKeys,   \* the keys that clients unset; the interpreter unsets none
  InitialCap,  \* __HASHMAP_INITIAL_CAPACITY
  MaxCap,      \* bound of the model: no call of set_val makes a map of this
               \* capacity or more grow
  FREE,        \* a slot never used: key NULL, __key_len not 1
  TOMB,        \* a slot unset: key NULL, __key_len 1
  NONE         \* NULL, as a value

ASSUME MapAssumption ==
  /\ Hash \in [Keys -> Nat]
  /\ Extends \subseteq Keys \X Keys
  /\ UnsetKeys \subseteq Keys
  /\ InitialCap \in Nat \ {0}
  /\ MaxCap \in Nat
  /\ FREE \notin Keys /\ TOMB \notin Keys /\ FREE # TOMB
  /\ NONE \notin Vals

VARIABLES
  cap,    \* hm->cap
  len,    \* hm->len
  slots,  \* hm->__entries: [0 .. cap - 1 -> [key, val]]
  stack,  \* the calls under way
  ret     \* the last answer: <<key, value>> of a get_val

vars == <<cap, len, slots, stack, ret>>

Slot == [key : Keys \cup {FREE, TOMB}, val : Vals \cup {NONE}]

Entries(c) == [i \in 0 .. c - 1 |-> [key |-> FREE, val |-> NONE]]

Matches(stored, key) == stored = key \/ <<stored, key>> \in Extends

\* `hm->len >= __max_load(hm)` for a length l and a capacity c: half full.
M_AtLoad(l, c) == l >= c + c

AtLoad(l, c) == 2 * l >= c

Home(k) == Hash[k] % cap

Top == stack[1]

\* The innermost call goes on with its frame changed to f; or returns.
GoOn(f) == stack' = <<f>> \o Tail(stack)

Return == stack' = Tail(stack)

\* Slip: the index runs on past the end.
M_Probe(f) == [f EXCEPT !.i = f.i + 1]

Probe(f) == [f EXCEPT !.i = (f.i + 1) % cap]

SetFrame(k, v) == [op |-> "set", key |-> k, val |-> v, i |-> Home(k), at |-> "probe"]

Init ==
  /\ cap = InitialCap
  /\ len = 0
  /\ slots = Entries(InitialCap)
  /\ stack = <<>>
  /\ ret = <<>>

-----------------------------------------------------------------------------
(* Calls from outside. *)

CallSet(k, v) ==
  /\ stack = <<>>
  /\ cap < MaxCap \/ ~AtLoad(len + 1, cap)
  /\ stack' = <<SetFrame(k, v)>>
  /\ UNCHANGED <<cap, len, slots, ret>>

CallGet(k) ==
  /\ stack = <<>>
  /\ stack' = <<[op |-> "get", key |-> k, i |-> Home(k)]>>
  /\ UNCHANGED <<cap, len, slots, ret>>

CallUnset(k) ==
  /\ stack = <<>>
  /\ stack' = <<[op |-> "unset", key |-> k, i |-> Home(k)]>>
  /\ UNCHANGED <<cap, len, slots, ret>>

-----------------------------------------------------------------------------
(* get_val and unset_val: one turn of the loop. *)

Searching(op) == stack # <<>> /\ Top.op = op

Stored == slots[Top.i].key

Miss == Stored = FREE

Hit == Stored \in Keys /\ Matches(Stored, Top.key)

GetMiss ==
  /\ Searching("get")
  /\ Miss
  /\ ret' = <<Top.key, NONE>>
  /\ Return
  /\ UNCHANGED <<cap, len, slots>>

GetHit ==
  /\ Searching("get")
  /\ Hit
  /\ ret' = <<Top.key, slots[Top.i].val>>
  /\ Return
  /\ UNCHANGED <<cap, len, slots>>

UnsetMiss ==
  /\ Searching("unset")
  /\ Miss
  /\ Return
  /\ UNCHANGED <<cap, len, slots, ret>>

\* Slip: the length is counted down, so that unset slots are not counted.
M_UnsetCounts ==
  /\ Searching("unset")
  /\ Hit
  /\ slots' = [slots EXCEPT ![Top.i].key = TOMB]
  /\ len' = len - 1
  /\ Return
  /\ UNCHANGED <<cap, ret>>

\* The value stays behind in the slot, and the length is not counted down.
UnsetHit ==
  /\ Searching("unset")
  /\ Hit
  /\ slots' = [slots EXCEPT ![Top.i].key = TOMB]
  /\ Return
  /\ UNCHANGED <<cap, len, ret>>

SearchNext ==
  /\ Searching("get") \/ Searching("unset")
  /\ ~Miss /\ ~Hit
  /\ GoOn(Probe(Top))
  /\ UNCHANGED <<cap, len, slots, ret>>

-----------------------------------------------------------------------------
(* set_val *)

Setting(at) == stack # <<>> /\ Top.op = "set" /\ Top.at = at

Vacant == Stored \in {FREE, TOMB}

Write == slots' = [slots EXCEPT ![Top.i] = [key |-> Top.key, val |-> Top.val]]

\* __rehash is entered from the call of set_val that will go on at `at`.
EnterRehash(at) ==
  /\ cap' = 2 * cap
  /\ slots' = Entries(2 * cap)
  /\ stack' = <<[op |-> "rehash", old |-> slots, j |-> 0, at |-> "loop"],
                [Top EXCEPT !.at = at]>> \o Tail(stack)

\* Slip: the entry is written one slot on.
M_SetVacant ==
  /\ Setting("probe")
  /\ Vacant
  /\ ~AtLoad(len + 1, cap)
  /\ slots' = [slots EXCEPT ![(Top.i + 1) % cap] = [key |-> Top.key, val |-> Top.val]]
  /\ len' = len + 1
  /\ Return
  /\ UNCHANGED <<cap, ret>>

\* The first slot with no key will do, an unset one too.
SetVacant ==
  /\ Setting("probe")
  /\ Vacant
  /\ len' = len + 1
  /\ ~AtLoad(len + 1, cap)
  /\ Write
  /\ Return
  /\ UNCHANGED <<cap, ret>>

SetVacantRehash ==
  /\ Setting("probe")
  /\ Vacant
  /\ len' = len + 1
  /\ AtLoad(len + 1, cap)
  /\ EnterRehash("write")
  /\ UNCHANGED ret

\* Back from __rehash, the entry is written at the index computed before it.
SetWrite ==
  /\ Setting("write")
  /\ Write
  /\ Return
  /\ UNCHANGED <<cap, len, ret>>

\* Slip: the slot's key is compared by its presence only.
M_SetOverwrite ==
  /\ Setting("probe")
  /\ Stored \in Keys
  /\ slots' = [slots EXCEPT ![Top.i].val = Top.val]
  /\ Return
  /\ UNCHANGED <<cap, len, ret>>

SetOverwrite ==
  /\ Setting("probe")
  /\ Hit
  /\ slots' = [slots EXCEPT ![Top.i].val = Top.val]
  /\ Return
  /\ UNCHANGED <<cap, len, ret>>

SetPass ==
  /\ Setting("probe")
  /\ ~Vacant /\ ~Hit
  /\ ~AtLoad(len, cap)
  /\ GoOn(Probe(Top))
  /\ UNCHANGED <<cap, len, slots, ret>>

SetPassRehash ==
  /\ Setting("probe")
  /\ ~Vacant /\ ~Hit
  /\ AtLoad(len, cap)
  /\ EnterRehash("next")
  /\ UNCHANGED <<len, ret>>

\* Back from __rehash, the probe goes on in the new table from the old index.
SetResume ==
  /\ Setting("next")
  /\ GoOn([Probe(Top) EXCEPT !.at = "probe"])
  /\ UNCHANGED <<cap, len, slots, ret>>

-----------------------------------------------------------------------------
(* __rehash *)

Rehashing(at) == stack # <<>> /\ Top.op = "rehash" /\ Top.at = at

OldSlot == Top.old[Top.j]

RehashSkip ==
  /\ Rehashing("loop")
  /\ Top.j \in DOMAIN Top.old
  /\ OldSlot.key \in {FREE, TOMB}
  /\ GoOn([Top EXCEPT !.j = @ + 1])
  /\ UNCHANGED <<cap, len, slots, ret>>

RehashMove ==
  /\ Rehashing("loop")
  /\ Top.j \in DOMAIN Top.old
  /\ OldSlot.key \in Keys
  /\ stack' = <<SetFrame(OldSlot.key, OldSlot.val), [Top EXCEPT !.at = "moved"]>>
                \o Tail(stack)
  /\ UNCHANGED <<cap, len, slots, ret>>

\* The length is counted up once more for an entry set_val has counted.
RehashMoved ==
  /\ Rehashing("moved")
  /\ len' = len + 1
  /\ GoOn([Top EXCEPT !.j = @ + 1, !.at = "loop"])
  /\ UNCHANGED <<cap, slots, ret>>

RehashDone ==
  /\ Rehashing("loop")
  /\ Top.j \notin DOMAIN Top.old
  /\ Return
  /\ UNCHANGED <<cap, len, slots, ret>>

Client ==
  \/ \E k \in Keys : CallGet(k) \/ \E v \in Vals : CallSet(k, v)
  \/ \E k \in UnsetKeys : CallUnset(k)

Work ==
  \/ GetMiss \/ GetHit \/ UnsetMiss \/ UnsetHit \/ SearchNext
  \/ SetVacant \/ SetVacantRehash \/ SetWrite \/ SetOverwrite \/ SetPass
  \/ SetPassRehash \/ SetResume
  \/ RehashSkip \/ RehashMove \/ RehashMoved \/ RehashDone

Next == Client \/ Work

\* A call runs to its end; nothing makes a client call.
Spec == Init /\ [][Next]_vars /\ WF_vars(Work)
-----------------------------------------------------------------------------
(* Properties. *)

\* Types: an index a call holds stays inside the table, rehashed or not.
TypeOK ==
  /\ cap \in Nat \ {0}
  /\ len \in Nat
  /\ slots \in [0 .. cap - 1 -> Slot]
  /\ \A n \in DOMAIN stack :
       /\ stack[n].op \in {"get", "unset", "set", "rehash"}
       /\ stack[n].op # "rehash" =>
            stack[n].i \in 0 .. cap - 1 /\ stack[n].key \in Keys
       /\ stack[n].op = "set" =>
            stack[n].val \in Vals /\ stack[n].at \in {"probe", "write", "next"}
       /\ stack[n].op = "rehash" =>
            /\ stack[n].at \in {"loop", "moved"}
            /\ stack[n].old \in [DOMAIN stack[n].old -> Slot]
            /\ stack[n].j \in Nat
  /\ ret = <<>> \/ ret \in Keys \X (Vals \cup {NONE})

\* hm->len counts at least the slots that a search does not stop at, unset ones
\* included: that is why a table is never without a free slot.
LenCoversUsed == Cardinality({i \in 0 .. cap - 1 : slots[i].key # FREE}) <= len

\* What get_val(k) would answer: the first slot of k's probe path where it stops.
Path(k, d) == (Hash[k] + d) % cap

Stops(k, s) == s = FREE \/ (s \in Keys /\ Matches(s, k))

Lookup(k) ==
  IF \E d \in 0 .. cap - 1 : Stops(k, slots[Path(k, d)].key)
  THEN LET d == CHOOSE d \in 0 .. cap - 1 :
                  /\ Stops(k, slots[Path(k, d)].key)
                  /\ \A e \in 0 .. d - 1 : ~Stops(k, slots[Path(k, e)].key)
       IN IF slots[Path(k, d)].key = FREE THEN NONE ELSE slots[Path(k, d)].val
  ELSE NONE

\* Between calls, what is in the table is what get_val finds
\* (test/hashmap_test.c:7-10: a value set is the value got).
Findable ==
  stack = <<>> =>
    \A i \in 0 .. cap - 1 :
      slots[i].key \in Keys => Lookup(slots[i].key) = slots[i].val

\* Every call comes to an end: a probe meets a slot it stops at and nested
\* rehashing runs out.
Returns == stack # <<>> ~> stack = <<>>

\* The map does what KeyMap promises.
Holds(k) == {i \in 0 .. cap - 1 : slots[i].key = k}

Request(f) == IF f.op = "set" THEN <<f.op, f.key, f.val>> ELSE <<f.op, f.key>>

Map == INSTANCE KeyMap WITH
  m <- [k \in Keys |-> IF Holds(k) = {} THEN NONE
                       ELSE slots[CHOOSE i \in Holds(k) : TRUE].val],
  call <- IF stack = <<>> THEN <<>> ELSE Request(stack[Len(stack)])

ImplementsKeyMap == Map!Spec

=============================================================================
