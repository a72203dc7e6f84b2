------------------------------ MODULE MCAdmission -------------------------------
(* Keys, batches and instances of Admission for TLC. *)
EXTENDS Admission, TLC

CONSTANTS d1, d2, p1, p2, s1, s2, s3

Key(name, mode, scope, deps) == [name |-> name, mode |-> mode, scope |-> scope, deps |-> deps]

SomeKeys ==
    {Key("k1", "production", "deployment", {d1}), Key("k2", "test", "workspace", {})}

E(dep, offset) == [dep |-> dep, month |-> offset]

\* Two events of the month, and one of the coming days in a deployment that needs a grant.
SomeBatches == {<<E(d1, 0), E(d1, 0)>>, <<E(d2, 1)>>}

\* One process has two requests in flight.
TwoProcesses == [s \in {s1, s2, s3} |-> IF s = s3 THEN p2 ELSE p1]

SameProcess == Permutations({s1, s2})
===============================================================================
