------------------------------ MODULE MCPipeline ------------------------------
(* Event rows, roster entries and instances of Pipeline for TLC. *)
EXTENDS Pipeline

CONSTANTS u1, u2, w1, k1, k2

Row(type, at, who, item, size, meter, qty) ==
    [type |-> type, dep |-> "d", src |-> "s", at |-> at, who |-> who, item |-> item,
     size |-> size, meter |-> meter, ref |-> "", qty |-> qty]

\* Events that share statistics, work item and meter rows; the second reading of
\* the counter does not fit beside the first.
SharedEvents ==
    {Row("activity", 1, u1, w1, None, None, 0),
     Row("lifecycle", 2, None, w1, "s", None, 0),
     Row("cost_meter", 1, None, None, None, "tokens_in", 2),
     Row("cost_meter", 2, None, None, None, "tokens_in", 1)}

Entry(user, kind, until, idents) == [user |-> user, kind |-> kind, until |-> until, idents |-> idents]

\* A person, and one who has left and whom the same value stands for in one
\* of the namespaces.
Entries == {Entry(u1, "user", None, {}), Entry(u2, "user", -1, {<<"crm", u1>>})}
===============================================================================
