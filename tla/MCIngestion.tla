----------------------------- MODULE MCIngestion ------------------------------
(* Instances of Ingestion for TLC. *)
EXTENDS Ingestion

CONSTANTS p1, p2, p3, d1

Ev(type, dep, origin, at, badId, defect) ==
    [type |-> type, dep |-> dep, fact |-> "f", scope |-> "", origin |-> origin, at |-> at,
     badId |-> badId, defect |-> defect]

Req(test, scope, batch) == [test |-> test, scope |-> scope, batch |-> batch]

\* An activity event and a lifecycle event of d1.
Act(badId, defect) == Ev("activity", d1, "customer_system", 0, badId, defect)
Life == Ev("lifecycle", d1, "customer_system", 0, FALSE, "none")

\* Racing senders of the same facts, and one whose key does not cover d1.
RaceRequests ==
    {Req(FALSE, {d1}, <<Life>>),
     Req(FALSE, {d1}, <<Life, Act(FALSE, "none")>>),
     Req(FALSE, {}, <<Life>>)}

\* An event that ages or comes to break a format, events that fail their
\* batch, and an event of the future sent with a test-mode key.
FaultRequests ==
    {Req(FALSE, {d1}, <<Act(TRUE, "none")>>),
     Req(FALSE, {d1}, <<Act(FALSE, "shape"), Act(FALSE, "unkeyable")>>),
     Req(FALSE, {d1}, <<Act(FALSE, "family")>>),
     Req(TRUE, {d1}, <<Ev("activity", d1, "customer_system", 1, TRUE, "none")>>)}

MixedRequests == RaceRequests \cup FaultRequests
===============================================================================
