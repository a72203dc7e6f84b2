-------------------------------- MODULE MCEngine --------------------------------
(* Instances of Engine for TLC. *)
EXTENDS Engine

CONSTANTS d1, d2, i1, i2

Fact(meters, effect, cases, corroborated) ==
    [meters |-> meters, effect |-> effect, cases |-> cases, corroborated |-> corroborated]

\* Evidence grows: the effect is weak and then clear, and cases are handled.
WeakThenClear == {Fact({"tokens_in"}, "weak", FALSE, FALSE), Fact({"tokens_in"}, "clear", TRUE, TRUE)}

\* All rates, in force when the period starts, and some, not yet in force.
SomeParameters ==
    {[from |-> 1, prices |-> {"tokens_in", "seats_active", "labor"}], [from |-> 9, prices |-> {"labor"}]}

Change(id, type, sided, at, deps) == [id |-> id, type |-> type, sided |-> sided, at |-> at, deps |-> deps]

\* A change of the whole workspace, and a later change of tool here.
SomeChanges ==
    {Change(1, "staffing", "one_sided", 3, {}), Change(2, "tool_change", "one_sided", 4, {d1})}
===============================================================================
