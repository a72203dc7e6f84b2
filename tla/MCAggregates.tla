----------------------------- MODULE MCAggregates -----------------------------
(* Event rows and instances of Aggregates for TLC. *)
EXTENDS Aggregates, FiniteSetsExt

CONSTANTS u1, w1

Row(type, at, who, item, size, meter, qty) ==
    [type |-> type, dep |-> "d", src |-> "s", at |-> at, who |-> who, item |-> item,
     size |-> size, meter |-> meter, ref |-> "", qty |-> qty]

\* Events of one work item, two of which tell its size; deltas of a counter, one
\* of them too large, and readings of a gauge.  Times 1 and 2 are one day, 3 is
\* the next.
SomeEvents ==
    {Row("activity", 1, u1, w1, None, None, 0),
     Row("activity", 2, u1, None, None, None, 0),
     Row("lifecycle", 2, None, w1, "m", None, 0),
     Row("lifecycle", 3, None, w1, "s", None, 0),
     Row("cost_meter", 1, None, None, None, "tokens_in", 2),
     Row("cost_meter", 2, None, None, None, "tokens_in", 1),
     Row("cost_meter", 3, None, None, None, "tokens_in", 4),
     Row("cost_meter", 1, None, None, None, "seats_active", 3),
     Row("cost_meter", 2, None, None, None, "seats_active", 1)}

\* The units of a set of events are as many as the sum of their quantities.
ASSUME UnitsAreSums ==
    \A S \in SUBSET SomeEvents : Cardinality(Units(S)) = MapThenSumSet(LAMBDA e : e.qty, S)
===============================================================================
