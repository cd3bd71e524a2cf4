------------------------------- MODULE KeyMap -------------------------------
(***************************************************************************)
(* What the hash map promises: a call changes or reads the entry of its own *)
(* key and of no other.                                                     *)
(***************************************************************************)
CONSTANTS Keys, Vals, NONE

VARIABLES
  m,     \* each key's value
  call,  \* the call under way, or none: <<operation, key, value if it has one>>
  ret    \* the last answer of a get: <<key, value>>

vars == <<m, call, ret>>

Init == m = [k \in Keys |-> NONE] /\ call = <<>> /\ ret = <<>>

Call ==
  /\ call = <<>>
  /\ \E k \in Keys : \/ call' \in {<<"get", k>>, <<"unset", k>>}
                     \/ \E v \in Vals : call' = <<"set", k, v>>
  /\ UNCHANGED <<m, ret>>

Set(k, v) == call = <<"set", k, v>> /\ m' = [m EXCEPT ![k] = v] /\ UNCHANGED ret

Unset(k) == call = <<"unset", k>> /\ m' = [m EXCEPT ![k] = NONE] /\ UNCHANGED ret

Get(k) == call = <<"get", k>> /\ ret' = <<k, m[k]>> /\ UNCHANGED m

Answer ==
  /\ \E k \in Keys : Get(k) \/ Unset(k) \/ \E v \in Vals : Set(k, v)
  /\ call' = <<>>

Next == Call \/ Answer

Spec == Init /\ [][Next]_vars
=============================================================================
