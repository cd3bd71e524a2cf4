----------------------------- MODULE MCHashMap -----------------------------
EXTENDS HashMap, TLC

CONSTANTS k1, k2, k3, v1, v2

\* Two keys share the last slot as home, so that their path wraps to slot 0,
\* which is the third one's home.
MCHash == (k1 :> InitialCap - 1) @@ (k2 :> InitialCap - 1) @@ (k3 :> InitialCap)

\* k1 is k2 and more text, as "age" is "a" and more text.
MCExtends == {<<k1, k2>>}
=============================================================================
