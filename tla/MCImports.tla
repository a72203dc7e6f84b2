------------------------------- MODULE MCImports --------------------------------
(* Instances of Imports for TLC. *)
EXTENDS Imports

CONSTANTS j1, j2, r1, r2

L(kind, key) == [kind |-> kind, key |-> key]

\* j1: a fact twice, a line whose fate depends on the configuration, and rejects.
\* j2 shares a fact with j1 and has a line that raises.
MixedFiles ==
    [j \in Jobs |-> IF j = j1
                    THEN <<L("fact", "a"), L("unknown", "b"), L("fact", "a"), L("garbage", "c")>>
                    ELSE <<L("fact", "a"), L("fatal", "b")>>]
===============================================================================
