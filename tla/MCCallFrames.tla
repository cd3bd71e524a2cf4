---------------------------- MODULE MCCallFrames ----------------------------
EXTENDS CallFrames

CONSTANTS f, g

\* A function of one argument, and a method written inside a function with one
\* live local.
MCArity == [x \in {f, g} |-> IF x = f THEN 1 ELSE 0]
MCOuter == [x \in {f, g} |-> IF x = f THEN 0 ELSE 1]
=============================================================================
