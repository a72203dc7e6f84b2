------------------------------ MODULE Aggregates -------------------------------
(***************************************************************************)
(* What the pipeline promises about the event rows it has processed and    *)
(* the tables it keeps beside them (domain/policies/pipeline.py): every    *)
(* accepted event is folded into the live-serving daily aggregates in one  *)
(* indivisible step, at most once.  There are no workers, locks or         *)
(* crashes here; who the event is attributed to is left open.  Pipeline    *)
(* implements this module.                                                 *)
(***************************************************************************)
EXTENDS Integers, FiniteSets

CONSTANTS
    Events,         \* the event rows that may be ingested
    Users,          \* the users of the workspace
    WorkItems,      \* work_item_ref values
    GaugeMeters,    \* _GAUGE_METERS
    DayLength,      \* time units per day
    Capacity,       \* the largest value quantity_sum and gauge_last can hold
    None            \* SQL NULL

\* An event row is a record of its type, deployment, source, time, identity
\* value (user_ref or assignee_ref), work item, size_band, meter, meter_ref
\* and quantity; None where the payload has no such field.
ASSUME EventsAssumption ==
    /\ IsFiniteSet(Events)
    /\ DayLength \in Nat \ {0}
    /\ Capacity \in Nat
    /\ None \notin Users \cup WorkItems \cup Nat
    /\ \A e \in Events :
        /\ e.at \in Nat
        /\ e.qty \in Nat
        /\ e.item \in WorkItems \cup {None}

VARIABLES
    row,            \* the resolution columns of each event; status "absent" before it is ingested
    items,          \* work_items
    stats,          \* ingestion_stats_daily
    activity,       \* user_activity_daily: event_count
    meters          \* meter_usage_daily

vars == <<row, items, stats, activity, meters>>

-------------------------------------------------------------------------------
(* The rows an event is folded into *)

Day(e) == e.at \div DayLength

ItemOf(e) == IF e.type = "cost_meter" THEN None ELSE e.item     \* _ITEM_BEARING
StatsKey(e) == <<e.dep, e.src, Day(e)>>
ActivityKey(e, user) == <<e.dep, user, Day(e)>>
MeterKey(e) == <<e.dep, e.meter, e.ref, Day(e)>>

StatsKeys == {StatsKey(e) : e \in Events}
ActivityKeys == {ActivityKey(e, u) : e \in Events, u \in Users}
MeterKeys == {MeterKey(e) : e \in {f \in Events : f.type = "cost_meter"}}

Reasons == {"shared_account", "service_account", "bot_account", "unresolved_identity"}

Processed == {"resolved", "joined", "excluded"}

NoRow == [status |-> "absent", user |-> None, item |-> None, reason |-> None]
NoItem == [exists |-> FALSE, size |-> None]
NoStats == [accepted |-> 0, identity |-> 0, resolved |-> 0, activity |-> 0, joined |-> 0, last |-> -1]
NoMeter == [sum |-> 0, gauge |-> None]

-------------------------------------------------------------------------------
(* One event folded into one row *)

One(b) == IF b THEN 1 ELSE 0

Later(s, t) == IF s > t THEN s ELSE t       \* GREATEST

\* counted_resolved: attributed to a person and not excluded (BR-011).
CountedResolved(user, reason) == user # None /\ reason = None

\* The row that _process_event leaves behind.
Outcome(e, user, reason) ==
    [status |-> IF reason # None THEN "excluded"
                ELSE IF ItemOf(e) # None THEN "joined" ELSE "resolved",
     user |-> user, item |-> ItemOf(e), reason |-> reason]

\* Faulty: a later event without a size erases the size.
FoldItemOverwriting(old, e) ==
    [exists |-> TRUE, size |-> IF e.type = "lifecycle" THEN e.size ELSE None]

\* _join_work_item: COALESCE(EXCLUDED.size_type, work_items.size_type).  The
\* category column is treated alike.
FoldItem(old, e) ==
    [exists |-> TRUE,
     size |-> IF e.type = "lifecycle" /\ e.size # None THEN e.size ELSE old.size]

\* Faulty: the last event folded, not the latest one, is kept as last_event_at.
FoldStatsLastFolded(old, e, user, reason) ==
    [accepted |-> old.accepted + 1,
     identity |-> old.identity + One(e.who # None),
     resolved |-> old.resolved + One(CountedResolved(user, reason)),
     activity |-> old.activity + One(e.type = "activity"),
     joined   |-> old.joined + One(ItemOf(e) # None),
     last     |-> e.at]

\* The upsert of ingestion_stats_daily.
FoldStats(old, e, user, reason) ==
    [accepted |-> old.accepted + 1,
     identity |-> old.identity + One(e.who # None),
     resolved |-> old.resolved + One(CountedResolved(user, reason)),
     activity |-> old.activity + One(e.type = "activity"),
     joined   |-> old.joined + One(ItemOf(e) # None),
     last     |-> Later(old.last, e.at)]

\* Faulty: excluded accounts are counted as active users.
CountsActivityExcluded(e, user, reason) == e.type = "activity" /\ user # None

\* Whether user_activity_daily counts the event.
CountsActivity(e, user, reason) == e.type = "activity" /\ CountedResolved(user, reason)

\* Faulty: a gauge reading is added up as well.
FoldMeterAdding(old, e) ==
    IF e.meter \in GaugeMeters THEN [old EXCEPT !.gauge = e.qty, !.sum = @ + e.qty]
    ELSE [old EXCEPT !.sum = @ + e.qty]

\* Counters add deltas; gauges keep the reading folded last.
FoldMeter(old, e) ==
    IF e.meter \in GaugeMeters THEN [old EXCEPT !.gauge = e.qty] ELSE [old EXCEPT !.sum = @ + e.qty]

\* NUMERIC(20,6): a larger value is an error, and the transaction is undone.
Fits(m) == m.sum <= Capacity /\ (m.gauge # None => m.gauge <= Capacity)

-------------------------------------------------------------------------------
Init ==
    /\ row = [e \in Events |-> NoRow]
    /\ items = [i \in WorkItems |-> NoItem]
    /\ stats = [k \in StatsKeys |-> NoStats]
    /\ activity = [k \in ActivityKeys |-> 0]
    /\ meters = [k \in MeterKeys |-> NoMeter]

\* Ingestion commits the row of an event.
Ingest(e) ==
    /\ row[e].status = "absent"
    /\ row' = [row EXCEPT ![e].status = "accepted"]
    /\ UNCHANGED <<items, stats, activity, meters>>

\* What _resolve_identity can return: only an event that names somebody is
\* attributed, and only an attributed event is excluded.
Attributable(e, user, reason) ==
    /\ user # None => e.who # None
    /\ reason # None => user # None

\* An accepted event is attributed and folded, in one step.
Fold(e, user, reason) ==
    /\ row[e].status = "accepted"
    /\ Attributable(e, user, reason)
    /\ row' = [row EXCEPT ![e] = Outcome(e, user, reason)]
    /\ items' = IF ItemOf(e) = None THEN items
                ELSE [items EXCEPT ![ItemOf(e)] = FoldItem(@, e)]
    /\ stats' = [stats EXCEPT ![StatsKey(e)] = FoldStats(@, e, user, reason)]
    /\ activity' = IF CountsActivity(e, user, reason)
                   THEN [activity EXCEPT ![ActivityKey(e, user)] = @ + 1] ELSE activity
    /\ IF e.type = "cost_meter"
       THEN /\ Fits(FoldMeter(meters[MeterKey(e)], e))
            /\ meters' = [meters EXCEPT ![MeterKey(e)] = FoldMeter(@, e)]
       ELSE UNCHANGED meters

Next ==
    \/ \E e \in Events : Ingest(e)
    \/ \E e \in Events, user \in Users \cup {None}, reason \in Reasons \cup {None} :
            Fold(e, user, reason)

Spec == Init /\ [][Next]_vars

-------------------------------------------------------------------------------
(* Properties *)

\* Every variable has its type; a processed row has one of the outcomes that
\* ck_events_exclusion allows.
TypeOK ==
    /\ row \in [Events -> [status : Processed \cup {"absent", "accepted"}, user : Users \cup {None},
                           item : WorkItems \cup {None}, reason : Reasons \cup {None}]]
    /\ \A e \in Events : row[e].reason # None => row[e].status = "excluded"
    /\ items \in [WorkItems -> [exists : BOOLEAN, size : {e.size : e \in Events} \cup {None}]]
    /\ stats \in [StatsKeys -> [accepted : Nat, identity : Nat, resolved : Nat, activity : Nat,
                                joined : Nat, last : Nat \cup {-1}]]
    /\ activity \in [ActivityKeys -> Nat]
    /\ meters \in [MeterKeys -> [sum : 0..Capacity, gauge : (0..Capacity) \cup {None}]]

\* The processed events of a bucket of ingestion_stats_daily.
DoneIn(k) == {e \in Events : row[e].status \in Processed /\ StatsKey(e) = k}

\* The counters of ingestion_stats_daily are, at every moment, what counting
\* the processed event rows would give: no event is folded twice, folded
\* without being marked, or marked without being folded; and last_event_at is
\* the time of the latest of them, in whichever order they are folded.
StatsExact ==
    \A k \in StatsKeys :
        /\ stats[k].accepted = Cardinality(DoneIn(k))
        /\ stats[k].identity = Cardinality({e \in DoneIn(k) : e.who # None})
        /\ stats[k].resolved = Cardinality({e \in DoneIn(k) : CountedResolved(row[e].user, row[e].reason)})
        /\ stats[k].activity = Cardinality({e \in DoneIn(k) : e.type = "activity"})
        /\ stats[k].joined = Cardinality({e \in DoneIn(k) : row[e].item # None})
        /\ \A e \in DoneIn(k) : e.at <= stats[k].last
        /\ DoneIn(k) # {} => \E e \in DoneIn(k) : e.at = stats[k].last

\* user_activity_daily counts exactly the activity events whose row says that
\* they were attributed to the user and not excluded (BR-011): a shared,
\* service, bot or blocked account never shows up as an active user.
ActivityExact ==
    \A u \in Users : \A k \in {ActivityKey(e, u) : e \in Events} :
        activity[k] = Cardinality({e \in Events : /\ row[e].status \in {"resolved", "joined"}
                                                  /\ row[e].user = u
                                                  /\ e.type = "activity"
                                                  /\ ActivityKey(e, u) = k})

\* The processed cost_meter events of a bucket of meter_usage_daily.
MeteredIn(k) == {e \in Events : /\ row[e].status \in Processed
                                /\ e.type = "cost_meter"
                                /\ MeterKey(e) = k}

Deltas(k) == {e \in MeteredIn(k) : e.meter \notin GaugeMeters}
Readings(k) == {e \in MeteredIn(k) : e.meter \in GaugeMeters}

\* The units that a set of events reports: as many as their quantities add up to.
Units(S) == UNION {{e} \X (1..e.qty) : e \in S}

\* The counters of meter_usage_daily are the sums of the deltas of the
\* processed cost_meter events, each added once and no gauge among them; and a
\* gauge shows a reading that was really sent, in whichever order they are folded.
CountersExact ==
    \A k \in MeterKeys :
        /\ meters[k].sum = Cardinality(Units(Deltas(k)))
        /\ IF Readings(k) = {} THEN meters[k].gauge = None
           ELSE \E e \in Readings(k) : meters[k].gauge = e.qty

\* The processed events whose row names the work item, and what they say of its size.
JoinedTo(i) == {e \in Events : row[e].item = i}
SizesOf(i) == {e.size : e \in {f \in JoinedTo(i) : f.type = "lifecycle"}} \ {None}

\* work_items and the event rows agree: an item is there exactly when an event
\* is joined to it, and has a size exactly when a lifecycle event told one, and
\* then one that was told; events without a size leave it alone, in whichever
\* order they are folded.
ItemsExact ==
    \A i \in WorkItems :
        /\ items[i].exists <=> JoinedTo(i) # {}
        /\ IF SizesOf(i) = {} THEN items[i].size = None ELSE items[i].size \in SizesOf(i)
===============================================================================
