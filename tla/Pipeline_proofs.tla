---------------------------- MODULE Pipeline_proofs -----------------------------
(***************************************************************************)
(* First, what folding an accepted event in one step keeps true, for every *)
(* set of events, users and work items.  Then the workers of the pipeline: *)
(* they implement the atomic folding, for any number of them and of roster *)
(* changes, because whatever a transaction has drafted stays the fold of   *)
(* the committed rows while it holds their locks.  So what is proved of    *)
(* the folding holds of the tables that the workers keep.                  *)
(***************************************************************************)
EXTENDS Pipeline, FiniteSetTheorems, TLAPS

Rows == [status : Processed \cup {"absent", "accepted"}, user : Users \cup {None},
         item : WorkItems \cup {None}, reason : Reasons \cup {None}]

Sizes == {e.size : e \in Events} \cup {None}

StatsRows == [accepted : Nat, identity : Nat, resolved : Nat, activity : Nat, joined : Nat,
              last : Nat \cup {-1}]

MeterRows == [sum : 0..Capacity, gauge : (0..Capacity) \cup {None}]

-------------------------------------------------------------------------------
(* Types *)

\* What is known of an event.
LEMMA EventFacts ==
    ASSUME NEW e \in Events
    PROVE  /\ e.at \in Nat /\ e.qty \in Nat
           /\ ItemOf(e) \in WorkItems \cup {None}
           /\ StatsKey(e) \in StatsKeys
           /\ \A u \in Users : ActivityKey(e, u) \in ActivityKeys
           /\ e.type = "cost_meter" => MeterKey(e) \in MeterKeys
           /\ e.size \in Sizes
<1>1. e.at \in Nat /\ e.qty \in Nat /\ ItemOf(e) \in WorkItems \cup {None}
  BY EventsAssumption DEF ItemOf
<1>2. StatsKey(e) \in StatsKeys /\ e.size \in Sizes
  BY DEF StatsKeys, Sizes
<1>3. \A u \in Users : ActivityKey(e, u) \in ActivityKeys
  BY DEF ActivityKeys
<1>4. e.type = "cost_meter" => MeterKey(e) \in MeterKeys
  BY DEF MeterKeys
<1> QED
  BY <1>1, <1>2, <1>3, <1>4

\* None is no user, no work item and no number.
LEMMA NoneFacts == None \notin Users /\ None \notin WorkItems /\ None \notin Nat
  BY EventsAssumption

\* The row that an event leaves behind.
LEMMA OutcomeType ==
    ASSUME NEW e \in Events, NEW u \in Users \cup {None}, NEW r \in Reasons \cup {None}
    PROVE  /\ Outcome(e, u, r) \in Rows
           /\ Outcome(e, u, r).status \in Processed
           /\ Outcome(e, u, r).reason # None => Outcome(e, u, r).status = "excluded"
           /\ Outcome(e, u, r).status \in {"resolved", "joined"} <=> r = None
           /\ Outcome(e, u, r).user = u /\ Outcome(e, u, r).reason = r
           /\ Outcome(e, u, r).item = ItemOf(e)
  BY EventFacts DEF Outcome, Rows, Processed

\* The columns that an event is folded into.
LEMMA FoldTypes ==
    ASSUME NEW e \in Events, NEW u \in Users \cup {None}, NEW r \in Reasons \cup {None}
    PROVE  /\ \A s \in StatsRows : FoldStats(s, e, u, r) \in StatsRows
           /\ \A i \in [exists : BOOLEAN, size : Sizes] : FoldItem(i, e) \in [exists : BOOLEAN, size : Sizes]
           /\ \A m \in MeterRows : Fits(FoldMeter(m, e)) => FoldMeter(m, e) \in MeterRows
<1>1. e.at \in Nat /\ e.qty \in Nat /\ e.size \in Sizes
  BY EventFacts
<1>2. ASSUME NEW s \in StatsRows
      PROVE  FoldStats(s, e, u, r) \in StatsRows
  <2>1. \A b \in BOOLEAN : One(b) \in Nat
    BY DEF One
  <2>2. /\ One(e.who # None) \in Nat /\ One(CountedResolved(u, r)) \in Nat
        /\ One(e.type = "activity") \in Nat /\ One(ItemOf(e) # None) \in Nat
    BY <2>1 DEF CountedResolved
  <2>3. Later(s.last, e.at) \in Nat \cup {-1}
    BY <1>1 DEF StatsRows, Later
  <2> QED
    BY <2>2, <2>3 DEF StatsRows, FoldStats
<1>3. ASSUME NEW i \in [exists : BOOLEAN, size : Sizes]
      PROVE  FoldItem(i, e) \in [exists : BOOLEAN, size : Sizes]
  BY <1>1 DEF FoldItem
<1>4. ASSUME NEW m \in MeterRows, Fits(FoldMeter(m, e))
      PROVE  FoldMeter(m, e) \in MeterRows
  <2>1. Capacity \in Nat /\ e.qty # None
    BY <1>1, NoneFacts, EventsAssumption
  <2>2. CASE e.meter \in GaugeMeters
    <3>1. FoldMeter(m, e) = [m EXCEPT !.gauge = e.qty]
      BY <2>2 DEF FoldMeter
    <3>2. e.qty \in 0..Capacity
      BY <1>1, <1>4, <2>1, <3>1 DEF Fits, MeterRows
    <3> QED
      BY <3>1, <3>2 DEF MeterRows
  <2>3. CASE e.meter \notin GaugeMeters
    <3>1. FoldMeter(m, e) = [m EXCEPT !.sum = m.sum + e.qty]
      BY <2>3 DEF FoldMeter
    <3>2. m.sum + e.qty \in 0..Capacity
      BY <1>1, <1>4, <2>1, <3>1 DEF Fits, MeterRows
    <3> QED
      BY <3>1, <3>2 DEF MeterRows
  <2> QED
    BY <2>2, <2>3
<1> QED
  BY <1>2, <1>3, <1>4

\* The initial tables are well typed.
LEMMA TypeInit == Init => TypeOK
<1> SUFFICES ASSUME Init PROVE TypeOK
  OBVIOUS
<1>1. /\ NoRow \in Rows /\ NoRow.reason = None
      /\ NoItem \in [exists : BOOLEAN, size : Sizes]
      /\ NoStats \in StatsRows
      /\ NoMeter \in MeterRows
  BY EventsAssumption DEF NoRow, NoItem, NoStats, NoMeter, Rows, Sizes, StatsRows, MeterRows
<1> QED
  BY <1>1 DEF Init, TypeOK, Rows, Sizes, StatsRows, MeterRows

\* Every step keeps the types.
LEMMA TypeNext == TypeOK /\ [Next]_vars => TypeOK'
<1> SUFFICES ASSUME TypeOK, [Next]_vars
             PROVE  TypeOK'
  OBVIOUS
<1>t. /\ row \in [Events -> Rows]
      /\ \A e \in Events : row[e].reason # None => row[e].status = "excluded"
      /\ items \in [WorkItems -> [exists : BOOLEAN, size : Sizes]]
      /\ stats \in [StatsKeys -> StatsRows]
      /\ activity \in [ActivityKeys -> Nat]
      /\ meters \in [MeterKeys -> MeterRows]
  BY DEF TypeOK, Rows, Sizes, StatsRows, MeterRows
<1> SUFFICES /\ row' \in [Events -> Rows]
             /\ \A e \in Events : row'[e].reason # None => row'[e].status = "excluded"
             /\ items' \in [WorkItems -> [exists : BOOLEAN, size : Sizes]]
             /\ stats' \in [StatsKeys -> StatsRows]
             /\ activity' \in [ActivityKeys -> Nat]
             /\ meters' \in [MeterKeys -> MeterRows]
  BY DEF TypeOK, Rows, Sizes, StatsRows, MeterRows
<1>1. CASE \E e \in Events : Ingest(e)
  <2>1. PICK e \in Events : Ingest(e)
    BY <1>1
  <2>2. row[e].reason = None
    BY <2>1, <1>t DEF Ingest
  <2>3. row' \in [Events -> Rows] /\ row'[e].reason = None
    BY <2>1, <2>2, <1>t DEF Ingest, Rows
  <2>4. \A f \in Events \ {e} : row'[f] = row[f]
    BY <2>1, <1>t DEF Ingest
  <2> QED
    BY <2>1, <2>3, <2>4, <1>t DEF Ingest
<1>2. ASSUME NEW e \in Events, NEW u \in Users \cup {None}, NEW r \in Reasons \cup {None}, Fold(e, u, r)
      PROVE  /\ row' \in [Events -> Rows]
             /\ \A f \in Events : row'[f].reason # None => row'[f].status = "excluded"
             /\ items' \in [WorkItems -> [exists : BOOLEAN, size : Sizes]]
             /\ stats' \in [StatsKeys -> StatsRows]
             /\ activity' \in [ActivityKeys -> Nat]
             /\ meters' \in [MeterKeys -> MeterRows]
  <2>1. row' = [row EXCEPT ![e] = Outcome(e, u, r)]
    BY <1>2 DEF Fold
  <2>2. /\ row' \in [Events -> Rows]
        /\ \A f \in Events : row'[f].reason # None => row'[f].status = "excluded"
    <3>1. /\ Outcome(e, u, r) \in Rows
          /\ Outcome(e, u, r).reason # None => Outcome(e, u, r).status = "excluded"
      BY OutcomeType
    <3> QED
      BY <2>1, <1>t, <3>1
  <2>3. items' \in [WorkItems -> [exists : BOOLEAN, size : Sizes]]
    <3>1. ItemOf(e) # None => ItemOf(e) \in WorkItems
      BY EventFacts
    <3>2. \A i \in WorkItems : FoldItem(items[i], e) \in [exists : BOOLEAN, size : Sizes]
      BY <1>t, FoldTypes
    <3> QED
      BY <1>2, <1>t, <3>1, <3>2 DEF Fold
  <2>4. stats' \in [StatsKeys -> StatsRows]
    <3>1. FoldStats(stats[StatsKey(e)], e, u, r) \in StatsRows
      BY <1>t, EventFacts, FoldTypes
    <3> QED
      BY <1>2, <1>t, <3>1 DEF Fold
  <2>5. activity' \in [ActivityKeys -> Nat]
    <3>1. CASE CountsActivity(e, u, r)
      <4>1. ActivityKey(e, u) \in ActivityKeys
        BY <3>1, EventFacts DEF CountsActivity, CountedResolved
      <4>2. activity' = [activity EXCEPT ![ActivityKey(e, u)] = activity[ActivityKey(e, u)] + 1]
        BY <1>2, <3>1 DEF Fold
      <4> QED
        BY <4>1, <4>2, <1>t
    <3>2. CASE ~CountsActivity(e, u, r)
      BY <1>2, <1>t, <3>2 DEF Fold
    <3> QED
      BY <3>1, <3>2
  <2>6. meters' \in [MeterKeys -> MeterRows]
    <3>1. CASE e.type = "cost_meter"
      <4>1. MeterKey(e) \in MeterKeys
        BY <3>1, EventFacts
      <4>2. FoldMeter(meters[MeterKey(e)], e) \in MeterRows
        BY <1>2, <1>t, <3>1, <4>1, FoldTypes DEF Fold
      <4> QED
        BY <1>2, <1>t, <3>1, <4>2 DEF Fold
    <3>2. CASE e.type # "cost_meter"
      BY <1>2, <1>t, <3>2 DEF Fold
    <3> QED
      BY <3>1, <3>2
  <2> QED
    BY <2>2, <2>3, <2>4, <2>5, <2>6
<1>3. CASE UNCHANGED vars
  BY <1>3, <1>t DEF vars
<1> QED
  BY <1>1, <1>2, <1>3 DEF Next

\* The aggregate tables stay within their columns, and a row that is excluded,
\* and no other, says why.
THEOREM Typed == Spec => []TypeOK
  BY TypeInit, TypeNext, PTL DEF Spec

-------------------------------------------------------------------------------
(* The counters *)

\* The row of an event that is folded was accepted, so it was not processed; it
\* is now, and no other row changes.
LEMMA FoldRow ==
    ASSUME TypeOK, NEW e \in Events, NEW u \in Users \cup {None}, NEW r \in Reasons \cup {None}, Fold(e, u, r)
    PROVE  /\ row[e].status = "accepted" /\ row'[e] = Outcome(e, u, r)
           /\ row'[e].status \in Processed
           /\ \A f \in Events \ {e} : row'[f] = row[f]
<1>1. row \in [Events -> Rows]
  BY DEF TypeOK, Rows
<1>2. row[e].status = "accepted" /\ row' = [row EXCEPT ![e] = Outcome(e, u, r)]
  BY DEF Fold
<1> QED
  BY <1>1, <1>2, OutcomeType

\* Ingestion processes no row.
LEMMA IngestRow ==
    ASSUME TypeOK, NEW e \in Events, Ingest(e)
    PROVE  \A f \in Events : \/ row'[f] = row[f]
                             \/ row[f].status = "absent" /\ row'[f].status = "accepted"
<1>1. row \in [Events -> Rows]
  BY DEF TypeOK, Rows
<1> QED
  BY <1>1 DEF Ingest, Rows

\* A set of events that may get one more member.
LEMMA AddOne ==
    ASSUME NEW S \in SUBSET Events, NEW T, NEW e, e \notin S, NEW b \in BOOLEAN,
           T = IF b THEN S \cup {e} ELSE S
    PROVE  Cardinality(T) = Cardinality(S) + One(b) /\ Cardinality(S) \in Nat
<1>1. IsFiniteSet(S) /\ Cardinality(S) \in Nat
  BY EventsAssumption, FS_Subset, FS_CardinalityType
<1>2. Cardinality(S \cup {e}) = Cardinality(S) + 1
  BY <1>1, FS_AddElement
<1> QED
  BY <1>1, <1>2 DEF One

\* The processed events of a bucket that are counted in each of its columns.
WithIdentity(k) == {e \in DoneIn(k) : e.who # None}
Resolved(k) == {e \in DoneIn(k) : CountedResolved(row[e].user, row[e].reason)}
Active(k) == {e \in DoneIn(k) : e.type = "activity"}
Joined(k) == {e \in DoneIn(k) : row[e].item # None}

\* A bucket that no event is in has no last event.
LastIsNone == \A k \in StatsKeys : DoneIn(k) = {} => stats[k].last = -1

\* What a fold does to the counted sets.
LEMMA FoldSets ==
    ASSUME TypeOK, NEW e \in Events, NEW u \in Users \cup {None}, NEW r \in Reasons \cup {None}, Fold(e, u, r),
           NEW k \in StatsKeys
    PROVE  /\ DoneIn(k)' = IF StatsKey(e) = k THEN DoneIn(k) \cup {e} ELSE DoneIn(k)
           /\ e \notin DoneIn(k)
           /\ WithIdentity(k)' = IF StatsKey(e) = k /\ e.who # None THEN WithIdentity(k) \cup {e} ELSE WithIdentity(k)
           /\ Resolved(k)' = IF StatsKey(e) = k /\ CountedResolved(u, r) THEN Resolved(k) \cup {e} ELSE Resolved(k)
           /\ Active(k)' = IF StatsKey(e) = k /\ e.type = "activity" THEN Active(k) \cup {e} ELSE Active(k)
           /\ Joined(k)' = IF StatsKey(e) = k /\ ItemOf(e) # None THEN Joined(k) \cup {e} ELSE Joined(k)
<1>1. /\ row[e].status = "accepted" /\ row'[e].status \in Processed
      /\ row'[e].user = u /\ row'[e].reason = r /\ row'[e].item = ItemOf(e)
      /\ \A f \in Events \ {e} : row'[f] = row[f]
  BY FoldRow, OutcomeType
<1>2. e \notin DoneIn(k)
  BY <1>1 DEF DoneIn, Processed
<1>3. DoneIn(k)' = IF StatsKey(e) = k THEN DoneIn(k) \cup {e} ELSE DoneIn(k)
  BY <1>1 DEF DoneIn
<1>4. DoneIn(k) \subseteq Events
  BY DEF DoneIn
<1>5. WithIdentity(k)' = IF StatsKey(e) = k /\ e.who # None THEN WithIdentity(k) \cup {e} ELSE WithIdentity(k)
  BY <1>3 DEF WithIdentity
<1>6. Active(k)' = IF StatsKey(e) = k /\ e.type = "activity" THEN Active(k) \cup {e} ELSE Active(k)
  BY <1>3 DEF Active
<1>7. Resolved(k)' = IF StatsKey(e) = k /\ CountedResolved(u, r) THEN Resolved(k) \cup {e} ELSE Resolved(k)
  BY <1>1, <1>2, <1>3, <1>4 DEF Resolved
<1>8. Joined(k)' = IF StatsKey(e) = k /\ ItemOf(e) # None THEN Joined(k) \cup {e} ELSE Joined(k)
  BY <1>1, <1>2, <1>3, <1>4 DEF Joined
<1> QED
  BY <1>2, <1>3, <1>5, <1>6, <1>7, <1>8

\* The last event of a bucket.
LastExact(k) ==
    /\ \A e \in DoneIn(k) : e.at <= stats[k].last
    /\ DoneIn(k) # {} => \E e \in DoneIn(k) : e.at = stats[k].last

\* Folding an event of the bucket, or of another one.
LEMMA StatsFold ==
    ASSUME TypeOK, StatsExact, LastIsNone,
           NEW e \in Events, NEW u \in Users \cup {None}, NEW r \in Reasons \cup {None}, Fold(e, u, r)
    PROVE  StatsExact' /\ LastIsNone'
<1>t. stats \in [StatsKeys -> StatsRows] /\ StatsKey(e) \in StatsKeys /\ e.at \in Nat
  BY EventFacts DEF TypeOK, StatsRows
<1>u. stats' = [stats EXCEPT ![StatsKey(e)] = FoldStats(stats[StatsKey(e)], e, u, r)]
  BY DEF Fold
<1> SUFFICES ASSUME NEW k \in StatsKeys
             PROVE  /\ stats'[k].accepted = Cardinality(DoneIn(k)')
                    /\ stats'[k].identity = Cardinality(WithIdentity(k)')
                    /\ stats'[k].resolved = Cardinality(Resolved(k)')
                    /\ stats'[k].activity = Cardinality(Active(k)')
                    /\ stats'[k].joined = Cardinality(Joined(k)')
                    /\ LastExact(k)'
                    /\ DoneIn(k)' = {} => stats'[k].last = -1
  BY DEF StatsExact, LastIsNone, LastExact, WithIdentity, Resolved, Active, Joined
<1>k. /\ stats[k].accepted = Cardinality(DoneIn(k))
      /\ stats[k].identity = Cardinality(WithIdentity(k))
      /\ stats[k].resolved = Cardinality(Resolved(k))
      /\ stats[k].activity = Cardinality(Active(k))
      /\ stats[k].joined = Cardinality(Joined(k))
      /\ LastExact(k)
      /\ DoneIn(k) = {} => stats[k].last = -1
      /\ stats[k] \in StatsRows
  BY <1>t DEF StatsExact, LastIsNone, LastExact, WithIdentity, Resolved, Active, Joined
<1>s. /\ DoneIn(k)' = IF StatsKey(e) = k THEN DoneIn(k) \cup {e} ELSE DoneIn(k)
      /\ e \notin DoneIn(k)
      /\ WithIdentity(k)' = IF StatsKey(e) = k /\ e.who # None THEN WithIdentity(k) \cup {e} ELSE WithIdentity(k)
      /\ Resolved(k)' = IF StatsKey(e) = k /\ CountedResolved(u, r) THEN Resolved(k) \cup {e} ELSE Resolved(k)
      /\ Active(k)' = IF StatsKey(e) = k /\ e.type = "activity" THEN Active(k) \cup {e} ELSE Active(k)
      /\ Joined(k)' = IF StatsKey(e) = k /\ ItemOf(e) # None THEN Joined(k) \cup {e} ELSE Joined(k)
  BY FoldSets
<1>1. CASE StatsKey(e) # k
  <2>1. stats'[k] = stats[k]
    BY <1>1, <1>t, <1>u
  <2>2. /\ DoneIn(k)' = DoneIn(k) /\ WithIdentity(k)' = WithIdentity(k) /\ Resolved(k)' = Resolved(k)
        /\ Active(k)' = Active(k) /\ Joined(k)' = Joined(k)
    BY <1>1, <1>s
  <2>3. LastExact(k)'
    BY <1>k, <2>1, <2>2 DEF LastExact
  <2> QED
    BY <1>k, <2>1, <2>2, <2>3
<1>2. CASE StatsKey(e) = k
  <2>1. stats'[k] = FoldStats(stats[k], e, u, r)
    BY <1>2, <1>t, <1>u
  <2>2. /\ stats'[k].accepted = stats[k].accepted + 1
        /\ stats'[k].identity = stats[k].identity + One(e.who # None)
        /\ stats'[k].resolved = stats[k].resolved + One(CountedResolved(u, r))
        /\ stats'[k].activity = stats[k].activity + One(e.type = "activity")
        /\ stats'[k].joined = stats[k].joined + One(ItemOf(e) # None)
        /\ stats'[k].last = Later(stats[k].last, e.at)
    BY <2>1 DEF FoldStats
  <2>3. /\ DoneIn(k) \in SUBSET Events /\ WithIdentity(k) \in SUBSET Events /\ e \notin WithIdentity(k)
        /\ Resolved(k) \in SUBSET Events /\ e \notin Resolved(k)
        /\ Active(k) \in SUBSET Events /\ e \notin Active(k)
        /\ Joined(k) \in SUBSET Events /\ e \notin Joined(k)
    BY <1>s DEF DoneIn, WithIdentity, Resolved, Active, Joined
  <2>4. Cardinality(DoneIn(k)') = Cardinality(DoneIn(k)) + 1
    <3>1. Cardinality(DoneIn(k)') = Cardinality(DoneIn(k)) + One(TRUE)
      BY <1>2, <1>s, <2>3, AddOne
    <3> QED
      BY <3>1 DEF One
  <2>5. Cardinality(WithIdentity(k)') = Cardinality(WithIdentity(k)) + One(e.who # None)
    BY <1>2, <1>s, <2>3, AddOne
  <2>6. Cardinality(Resolved(k)') = Cardinality(Resolved(k)) + One(CountedResolved(u, r))
    <3>1. CountedResolved(u, r) \in BOOLEAN
      BY DEF CountedResolved
    <3> QED
      BY <1>2, <1>s, <2>3, <3>1, AddOne
  <2>7. Cardinality(Active(k)') = Cardinality(Active(k)) + One(e.type = "activity")
    BY <1>2, <1>s, <2>3, AddOne
  <2>8. Cardinality(Joined(k)') = Cardinality(Joined(k)) + One(ItemOf(e) # None)
    BY <1>2, <1>s, <2>3, AddOne
  <2>9. LastExact(k)'
    <3>1. stats[k].last \in Nat \cup {-1}
      BY <1>k DEF StatsRows
    <3>2. \A f \in DoneIn(k) : f.at \in Nat
      BY <2>3, EventFacts
    <3>3. DoneIn(k)' = DoneIn(k) \cup {e}
      BY <1>2, <1>s
    <3>4. \A f \in DoneIn(k)' : f.at <= stats'[k].last
      BY <1>k, <1>t, <2>2, <3>1, <3>2, <3>3 DEF LastExact, Later
    <3>5. \E f \in DoneIn(k)' : f.at = stats'[k].last
      <4>1. CASE stats[k].last > e.at
        <5>1. DoneIn(k) # {} /\ stats'[k].last = stats[k].last
          BY <4>1, <1>k, <1>t, <2>2, <3>1 DEF Later
        <5> QED
          BY <5>1, <1>k, <3>3 DEF LastExact
      <4>2. CASE ~(stats[k].last > e.at)
        BY <4>2, <2>2, <3>3 DEF Later
      <4> QED
        BY <4>1, <4>2
    <3> QED
      BY <3>4, <3>5 DEF LastExact
  <2>10. DoneIn(k)' # {}
    BY <1>2, <1>s
  <2> QED
    BY <1>k, <2>2, <2>4, <2>5, <2>6, <2>7, <2>8, <2>9, <2>10
<1> QED
  BY <1>1, <1>2

\* The counters of ingestion_stats_daily are what counting the processed rows
\* would give, and last_event_at is the latest of them, for any events in any
\* order: no event is folded twice, or folded without being marked.
THEOREM StatsTrue == Spec => []StatsExact
<1> DEFINE StatsInv == TypeOK /\ StatsExact /\ LastIsNone
<1>1. Init => StatsInv
  <2> SUFFICES ASSUME Init PROVE StatsInv
    OBVIOUS
  <2>1. TypeOK
    BY TypeInit
  <2>2. \A e \in Events : row[e].status = "absent"
    BY DEF Init, NoRow
  <2>3. \A k \in StatsKeys : DoneIn(k) = {}
    BY <2>2 DEF DoneIn, Processed
  <2>4. \A k \in StatsKeys : stats[k] = NoStats
    BY DEF Init
  <2>5. Cardinality({}) = 0
    BY FS_EmptySet
  <2>6. ASSUME NEW k \in StatsKeys
        PROVE  /\ WithIdentity(k) = {} /\ Resolved(k) = {} /\ Active(k) = {} /\ Joined(k) = {}
    BY <2>3 DEF WithIdentity, Resolved, Active, Joined
  <2>7. StatsExact
    <3> SUFFICES ASSUME NEW k \in StatsKeys
                 PROVE  /\ stats[k].accepted = Cardinality(DoneIn(k))
                        /\ stats[k].identity = Cardinality(WithIdentity(k))
                        /\ stats[k].resolved = Cardinality(Resolved(k))
                        /\ stats[k].activity = Cardinality(Active(k))
                        /\ stats[k].joined = Cardinality(Joined(k))
                        /\ LastExact(k)
      BY DEF StatsExact, LastExact, WithIdentity, Resolved, Active, Joined
    <3> QED
      BY <2>3, <2>4, <2>5, <2>6 DEF NoStats, LastExact
  <2>8. LastIsNone
    BY <2>4 DEF LastIsNone, NoStats
  <2> QED
    BY <2>1, <2>7, <2>8
<1>2. StatsInv /\ [Next]_vars => StatsInv'
  <2> SUFFICES ASSUME TypeOK, StatsExact, LastIsNone, [Next]_vars
               PROVE  StatsInv'
    OBVIOUS
  <2>1. TypeOK'
    BY TypeNext
  <2>2. ASSUME NEW e \in Events, NEW u \in Users \cup {None}, NEW r \in Reasons \cup {None}, Fold(e, u, r)
        PROVE  StatsExact' /\ LastIsNone'
    BY <2>2, StatsFold
  <2>3. CASE \/ \E e \in Events : Ingest(e)
             \/ UNCHANGED vars
    <3>1. \A f \in Events : \/ row'[f] = row[f]
                            \/ row[f].status = "absent" /\ row'[f].status = "accepted"
      BY <2>3, IngestRow DEF vars
    <3>2. stats' = stats
      BY <2>3 DEF Ingest, vars
    <3>3. ASSUME NEW k
          PROVE  DoneIn(k)' = DoneIn(k) /\ \A e \in DoneIn(k) : row'[e] = row[e]
      BY <3>1 DEF DoneIn, Processed
    <3>4. ASSUME NEW k
          PROVE  /\ WithIdentity(k)' = WithIdentity(k) /\ Resolved(k)' = Resolved(k)
                 /\ Active(k)' = Active(k) /\ Joined(k)' = Joined(k)
      BY <3>3 DEF WithIdentity, Resolved, Active, Joined
    <3>5. StatsExact'
      <4> SUFFICES ASSUME NEW k \in StatsKeys
                   PROVE  /\ stats'[k].accepted = Cardinality(DoneIn(k)')
                          /\ stats'[k].identity = Cardinality(WithIdentity(k)')
                          /\ stats'[k].resolved = Cardinality(Resolved(k)')
                          /\ stats'[k].activity = Cardinality(Active(k)')
                          /\ stats'[k].joined = Cardinality(Joined(k)')
                          /\ LastExact(k)'
        BY DEF StatsExact, LastExact, WithIdentity, Resolved, Active, Joined
      <4>1. /\ stats[k].accepted = Cardinality(DoneIn(k))
            /\ stats[k].identity = Cardinality(WithIdentity(k))
            /\ stats[k].resolved = Cardinality(Resolved(k))
            /\ stats[k].activity = Cardinality(Active(k))
            /\ stats[k].joined = Cardinality(Joined(k))
            /\ LastExact(k)
        BY DEF StatsExact, LastExact, WithIdentity, Resolved, Active, Joined
      <4>2. LastExact(k)'
        BY <4>1, <3>2, <3>3 DEF LastExact
      <4> QED
        BY <4>1, <4>2, <3>2, <3>3, <3>4
    <3>6. LastIsNone'
      BY <3>2, <3>3 DEF LastIsNone
    <3> QED
      BY <2>1, <3>5, <3>6
  <2> QED
    BY <2>1, <2>2, <2>3 DEF Next
<1>3. StatsInv => StatsExact
  OBVIOUS
<1> QED
  BY <1>1, <1>2, <1>3, PTL DEF Spec

-------------------------------------------------------------------------------
(* The active users *)

\* The events that user_activity_daily counts for a user in a bucket.
ActiveFor(u, k) == {e \in Events : /\ row[e].status \in {"resolved", "joined"}
                                   /\ row[e].user = u
                                   /\ e.type = "activity"
                                   /\ ActivityKey(e, u) = k}

\* The buckets of a user.
BucketsOf(u) == {ActivityKey(e, u) : e \in Events}

\* A bucket belongs to one user.
LEMMA BucketUser ==
    ASSUME NEW e, NEW f, NEW u, NEW v, ActivityKey(e, u) = ActivityKey(f, v)
    PROVE  u = v
  BY DEF ActivityKey

\* Folding an event counts it for the user it is attributed to, and for nobody
\* else, unless it is excluded.
LEMMA ActivityFold ==
    ASSUME TypeOK, ActivityExact,
           NEW e \in Events, NEW u \in Users \cup {None}, NEW r \in Reasons \cup {None}, Fold(e, u, r)
    PROVE  ActivityExact'
<1>t. activity \in [ActivityKeys -> Nat]
  BY DEF TypeOK
<1>1. /\ row[e].status = "accepted" /\ row'[e] = Outcome(e, u, r)
      /\ row'[e].status \in {"resolved", "joined"} <=> r = None
      /\ row'[e].user = u
      /\ \A f \in Events \ {e} : row'[f] = row[f]
  BY FoldRow, OutcomeType
<1> SUFFICES ASSUME NEW v \in Users, NEW k \in BucketsOf(v)
             PROVE  activity'[k] = Cardinality(ActiveFor(v, k)')
  BY DEF ActivityExact, ActiveFor, BucketsOf
<1> DEFINE counted == CountsActivity(e, u, r) /\ u = v /\ ActivityKey(e, v) = k
<1>2. /\ activity[k] = Cardinality(ActiveFor(v, k))
      /\ k \in ActivityKeys
  BY EventFacts DEF ActivityExact, ActiveFor, BucketsOf
<1>3. ActiveFor(v, k) \in SUBSET Events /\ e \notin ActiveFor(v, k)
  BY <1>1 DEF ActiveFor
<1>4. v # None
  BY NoneFacts
<1>5. counted \in BOOLEAN /\ (counted <=> r = None /\ u = v /\ e.type = "activity" /\ ActivityKey(e, v) = k)
  BY <1>4 DEF CountsActivity, CountedResolved
<1>6. ActiveFor(v, k)' = IF counted THEN ActiveFor(v, k) \cup {e} ELSE ActiveFor(v, k)
  <2> HIDE DEF counted
  <2>1. \A f \in Events \ {e} : f \in ActiveFor(v, k)' <=> f \in ActiveFor(v, k)
    BY <1>1 DEF ActiveFor
  <2>2. e \in ActiveFor(v, k)' <=> counted
    BY <1>1, <1>5 DEF ActiveFor
  <2>3. ActiveFor(v, k)' \subseteq Events
    BY DEF ActiveFor
  <2> QED
    BY <2>1, <2>2, <2>3, <1>3
<1>7. Cardinality(ActiveFor(v, k)') = activity[k] + One(counted) /\ activity[k] \in Nat
  <2> HIDE DEF counted
  <2> QED
    BY <1>2, <1>3, <1>5, <1>6, AddOne
<1>8. activity'[k] = activity[k] + One(counted)
  <2>1. CASE counted
    <3>1. activity' = [activity EXCEPT ![k] = activity[k] + 1]
      BY <2>1 DEF Fold
    <3> QED
      BY <3>1, <2>1, <1>2, <1>t DEF One
  <2>2. CASE ~counted
    <3>1. activity'[k] = activity[k]
      <4>1. CASE CountsActivity(e, u, r)
        <5>1. ActivityKey(e, u) # k
          <6>1. PICK f \in Events : k = ActivityKey(f, v)
            BY DEF BucketsOf
          <6> QED
            BY <6>1, <4>1, <2>2, BucketUser
        <5>2. activity' = [activity EXCEPT ![ActivityKey(e, u)] = activity[ActivityKey(e, u)] + 1]
          BY <4>1 DEF Fold
        <5> QED
          BY <5>1, <5>2, <1>t, <1>2
      <4>2. CASE ~CountsActivity(e, u, r)
        BY <4>2 DEF Fold
      <4> QED
        BY <4>1, <4>2
    <3> QED
      BY <3>1, <2>2, <1>7 DEF One
  <2> QED
    BY <2>1, <2>2
<1> QED
  BY <1>7, <1>8

\* user_activity_daily counts exactly the activity events attributed to the user
\* and not excluded, for any events: no shared, service, bot or blocked account
\* shows up as an active user (BR-011).
THEOREM ActivityTrue == Spec => []ActivityExact
<1> DEFINE ActivityInv == TypeOK /\ ActivityExact
<1>1. Init => ActivityInv
  <2> SUFFICES ASSUME Init PROVE ActivityInv
    OBVIOUS
  <2>1. \A u, k : ActiveFor(u, k) = {}
    BY DEF Init, NoRow, ActiveFor
  <2>2. ASSUME NEW u \in Users, NEW k \in BucketsOf(u)
        PROVE  activity[k] = Cardinality(ActiveFor(u, k))
    <3>1. activity[k] = 0
      BY EventFacts DEF Init, BucketsOf
    <3> QED
      BY <3>1, <2>1, FS_EmptySet
  <2> QED
    BY <2>2, TypeInit DEF ActivityExact, ActiveFor, BucketsOf
<1>2. ActivityInv /\ [Next]_vars => ActivityInv'
  <2> SUFFICES ASSUME TypeOK, ActivityExact, [Next]_vars
               PROVE  ActivityExact'
    BY TypeNext
  <2>1. ASSUME NEW e \in Events, NEW u \in Users \cup {None}, NEW r \in Reasons \cup {None}, Fold(e, u, r)
        PROVE  ActivityExact'
    BY <2>1, ActivityFold
  <2>2. CASE \/ \E e \in Events : Ingest(e)
             \/ UNCHANGED vars
    <3>1. \A f \in Events : \/ row'[f] = row[f]
                            \/ row[f].status = "absent" /\ row'[f].status = "accepted"
      BY <2>2, IngestRow DEF vars
    <3>2. activity' = activity
      BY <2>2 DEF Ingest, vars
    <3>3. ASSUME NEW u, NEW k
          PROVE  ActiveFor(u, k)' = ActiveFor(u, k)
      BY <3>1 DEF ActiveFor
    <3>4. ASSUME NEW u \in Users, NEW k \in BucketsOf(u)
          PROVE  activity'[k] = Cardinality(ActiveFor(u, k)')
      <4>1. activity[k] = Cardinality(ActiveFor(u, k))
        BY DEF ActivityExact, ActiveFor, BucketsOf
      <4> QED
        BY <4>1, <3>2, <3>3
    <3> QED
      BY <3>4 DEF ActivityExact, ActiveFor, BucketsOf
  <2> QED
    BY <2>1, <2>2 DEF Next
<1>3. ActivityInv => ActivityExact
  OBVIOUS
<1> QED
  BY <1>1, <1>2, <1>3, PTL DEF Spec

-------------------------------------------------------------------------------
(* The meters *)

\* An event reports as many units as its quantity says.
LEMMA UnitsOfOne ==
    ASSUME NEW e \in Events
    PROVE  /\ IsFiniteSet({e} \X (1..e.qty))
           /\ Cardinality({e} \X (1..e.qty)) = e.qty
<1>1. e.qty \in Nat
  BY EventFacts
<1>2. IsFiniteSet({e}) /\ Cardinality({e}) = 1
  BY FS_Singleton
<1>3. IsFiniteSet(1..e.qty) /\ Cardinality(1..e.qty) = e.qty
  <2>1. 1 \in Int /\ e.qty \in Int
    BY <1>1
  <2>2. IsFiniteSet(1..e.qty) /\ Cardinality(1..e.qty) = IF 1 > e.qty THEN 0 ELSE e.qty - 1 + 1
    BY <2>1, FS_Interval
  <2>3. (IF 1 > e.qty THEN 0 ELSE e.qty - 1 + 1) = e.qty
    BY <1>1
  <2> QED
    BY <2>2, <2>3
<1>4. /\ IsFiniteSet({e} \X (1..e.qty))
      /\ Cardinality({e} \X (1..e.qty)) = Cardinality({e}) * Cardinality(1..e.qty)
  BY <1>2, <1>3, FS_Product
<1>5. 1 * e.qty = e.qty
  BY <1>1
<1> QED
  BY <1>2, <1>3, <1>4, <1>5

\* Finitely many events report finitely many units.
LEMMA UnitsFinite ==
    ASSUME NEW S \in SUBSET Events
    PROVE  IsFiniteSet(Units(S)) /\ Cardinality(Units(S)) \in Nat
<1> DEFINE T == {{e} \X (1..e.qty) : e \in S}
           f == [e \in S |-> {e} \X (1..e.qty)]
<1>1. IsFiniteSet(S)
  BY EventsAssumption, FS_Subset
<1>2. f \in Surjection(S, T)
  BY DEF Surjection
<1>3. IsFiniteSet(T)
  <2> HIDE DEF T, f
  <2> QED
    BY <1>1, <1>2, FS_Surjection
<1>4. \A U \in T : IsFiniteSet(U)
  BY UnitsOfOne
<1>5. IsFiniteSet(UNION T)
  <2> HIDE DEF T
  <2> QED
    BY <1>3, <1>4, FS_UNION
<1> QED
  BY <1>5, FS_CardinalityType DEF Units

\* One more event adds its quantity.
LEMMA AddUnits ==
    ASSUME NEW S \in SUBSET Events, NEW e \in Events, e \notin S
    PROVE  Cardinality(Units(S \cup {e})) = Cardinality(Units(S)) + e.qty
<1> DEFINE own == {e} \X (1..e.qty)
<1>1. Units(S \cup {e}) = Units(S) \cup own
  BY DEF Units
<1>2. Units(S) \cap own = {}
  BY DEF Units
<1>3. Cardinality(Units(S) \cap own) = 0
  BY <1>2, FS_EmptySet
<1>4. IsFiniteSet(own) /\ Cardinality(own) = e.qty /\ e.qty \in Nat
  BY UnitsOfOne, EventFacts
<1>5. IsFiniteSet(Units(S)) /\ Cardinality(Units(S)) \in Nat
  BY UnitsFinite
<1> HIDE DEF own
<1>6. Cardinality(Units(S) \cup own) = Cardinality(Units(S)) + Cardinality(own) - Cardinality(Units(S) \cap own)
  BY <1>4, <1>5, FS_Union
<1>7. \A m, n \in Nat : m + n - 0 = m + n
  OBVIOUS
<1> QED
  BY <1>1, <1>3, <1>4, <1>5, <1>6, <1>7

\* A bucket shows the sum of its deltas, and a reading of its gauge.
BucketExact(k) ==
    /\ meters[k].sum = Cardinality(Units(Deltas(k)))
    /\ IF Readings(k) = {} THEN meters[k].gauge = None
       ELSE \E e \in Readings(k) : meters[k].gauge = e.qty

\* Folding a delta adds its quantity to its counter, folding a reading replaces
\* the gauge, and nothing else changes.
LEMMA CountersFold ==
    ASSUME TypeOK, CountersExact,
           NEW e \in Events, NEW u \in Users \cup {None}, NEW r \in Reasons \cup {None}, Fold(e, u, r),
           NEW k \in MeterKeys
    PROVE  BucketExact(k)'
<1>t. meters \in [MeterKeys -> MeterRows] /\ meters[k] \in MeterRows
  BY DEF TypeOK, MeterRows
<1>1. /\ row[e].status \notin Processed /\ row'[e].status \in Processed
      /\ \A f \in Events \ {e} : row'[f] = row[f]
  BY FoldRow DEF Processed
<1>2. BucketExact(k)
  BY DEF CountersExact, BucketExact
<1>3. e \notin MeteredIn(k) /\ MeteredIn(k) \subseteq Events
  BY <1>1 DEF MeteredIn
<1>4. Deltas(k) \in SUBSET Events /\ e \notin Deltas(k)
  BY <1>3 DEF Deltas
<1>5. CASE e.type = "cost_meter" /\ MeterKey(e) = k
  <2>1. MeteredIn(k)' = MeteredIn(k) \cup {e}
    BY <1>1, <1>5 DEF MeteredIn
  <2>2. meters'[k] = FoldMeter(meters[k], e)
    BY <1>5, <1>t DEF Fold
  <2>3. CASE e.meter \notin GaugeMeters
    <3>1. Deltas(k)' = Deltas(k) \cup {e} /\ Readings(k)' = Readings(k)
      BY <2>1, <2>3 DEF Deltas, Readings
    <3>2. meters'[k].sum = meters[k].sum + e.qty /\ meters'[k].gauge = meters[k].gauge
      BY <1>t, <2>2, <2>3 DEF FoldMeter, MeterRows
    <3>3. Cardinality(Units(Deltas(k) \cup {e})) = Cardinality(Units(Deltas(k))) + e.qty
      BY <1>4, AddUnits
    <3>4. meters'[k].sum = Cardinality(Units(Deltas(k)'))
      BY <1>2, <3>1, <3>2, <3>3 DEF BucketExact
    <3> QED
      BY <1>2, <3>1, <3>2, <3>4 DEF BucketExact, Units
  <2>4. CASE e.meter \in GaugeMeters
    <3>1. Deltas(k)' = Deltas(k) /\ Readings(k)' = Readings(k) \cup {e}
      BY <2>1, <2>4 DEF Deltas, Readings
    <3>2. meters'[k].sum = meters[k].sum /\ meters'[k].gauge = e.qty
      BY <1>t, <2>2, <2>4 DEF FoldMeter, MeterRows
    <3> QED
      BY <1>2, <3>1, <3>2 DEF BucketExact, Units
  <2> QED
    BY <2>3, <2>4
<1>6. CASE ~(e.type = "cost_meter" /\ MeterKey(e) = k)
  <2>1. MeteredIn(k)' = MeteredIn(k)
    BY <1>1, <1>6 DEF MeteredIn
  <2>2. Deltas(k)' = Deltas(k) /\ Readings(k)' = Readings(k)
    BY <2>1 DEF Deltas, Readings
  <2>3. meters'[k] = meters[k]
    BY <1>6, <1>t DEF Fold
  <2> QED
    BY <1>2, <2>2, <2>3 DEF BucketExact, Units
<1> QED
  BY <1>5, <1>6

\* The counters of meter_usage_daily are the sums of the processed deltas and its
\* gauges show a processed reading, for any events in any order: a delta is added
\* once, also when others did not fit, and a gauge never is.
THEOREM CountersTrue == Spec => []CountersExact
<1> DEFINE CountersInv == TypeOK /\ CountersExact
<1>1. Init => CountersInv
  <2> SUFFICES ASSUME Init PROVE CountersExact
    BY TypeInit
  <2>1. ASSUME NEW k \in MeterKeys
        PROVE  BucketExact(k)
    <3>1. Deltas(k) = {} /\ Readings(k) = {}
      BY DEF Init, NoRow, MeteredIn, Deltas, Readings, Processed
    <3>2. Units({}) = {}
      BY DEF Units
    <3>3. meters[k].sum = 0 /\ meters[k].gauge = None
      BY DEF Init, NoMeter
    <3> QED
      BY <3>1, <3>2, <3>3, FS_EmptySet DEF BucketExact
  <2> QED
    BY <2>1 DEF CountersExact, BucketExact
<1>2. CountersInv /\ [Next]_vars => CountersInv'
  <2> SUFFICES ASSUME TypeOK, CountersExact, [Next]_vars
               PROVE  \A k \in MeterKeys : BucketExact(k)'
    BY TypeNext DEF CountersExact, BucketExact, Units
  <2>1. ASSUME NEW e \in Events, NEW u \in Users \cup {None}, NEW r \in Reasons \cup {None}, Fold(e, u, r)
        PROVE  \A k \in MeterKeys : BucketExact(k)'
    BY <2>1, CountersFold
  <2>2. CASE \/ \E e \in Events : Ingest(e)
             \/ UNCHANGED vars
    <3>1. \A f \in Events : \/ row'[f] = row[f]
                            \/ row[f].status = "absent" /\ row'[f].status = "accepted"
      BY <2>2, IngestRow DEF vars
    <3>2. meters' = meters
      BY <2>2 DEF Ingest, vars
    <3>3. ASSUME NEW k
          PROVE  Deltas(k)' = Deltas(k) /\ Readings(k)' = Readings(k)
      <4>1. MeteredIn(k)' = MeteredIn(k)
        BY <3>1 DEF MeteredIn, Processed
      <4> QED
        BY <4>1 DEF Deltas, Readings
    <3>4. ASSUME NEW k \in MeterKeys
          PROVE  BucketExact(k)'
      <4>1. BucketExact(k)
        BY DEF CountersExact, BucketExact
      <4> QED
        BY <4>1, <3>2, <3>3 DEF BucketExact, Units
    <3> QED
      BY <3>4
  <2> QED
    BY <2>1, <2>2 DEF Next
<1>3. CountersInv => CountersExact
  OBVIOUS
<1> QED
  BY <1>1, <1>2, <1>3, PTL DEF Spec

-------------------------------------------------------------------------------
(* The work items *)

\* Only a processed row names a work item.
Unjoined == \A e \in Events : row[e].status \notin Processed => row[e].item = None

\* A work item and the rows that name it agree.
ItemExact(i) ==
    /\ items[i].exists <=> JoinedTo(i) # {}
    /\ IF SizesOf(i) = {} THEN items[i].size = None ELSE items[i].size \in SizesOf(i)

\* Folding an event joins it to the work item it bears, and to no other.
LEMMA ItemsFold ==
    ASSUME TypeOK, ItemsExact, Unjoined,
           NEW e \in Events, NEW u \in Users \cup {None}, NEW r \in Reasons \cup {None}, Fold(e, u, r)
    PROVE  ItemsExact' /\ Unjoined'
<1>t. items \in [WorkItems -> [exists : BOOLEAN, size : Sizes]]
  BY DEF TypeOK, Sizes
<1>1. /\ row[e].status \notin Processed /\ row'[e].status \in Processed
      /\ row'[e].item = ItemOf(e)
      /\ \A f \in Events \ {e} : row'[f] = row[f]
  BY FoldRow, OutcomeType DEF Processed
<1>2. Unjoined'
  BY <1>1 DEF Unjoined
<1>3. ASSUME NEW i \in WorkItems
      PROVE  ItemExact(i)'
  <2>1. ItemExact(i) /\ i # None
    BY NoneFacts DEF ItemsExact, ItemExact
  <2>2. e \notin JoinedTo(i)
    BY <1>1, <2>1 DEF Unjoined, JoinedTo
  <2>3. CASE ItemOf(e) = i
    <3>1. JoinedTo(i)' = JoinedTo(i) \cup {e}
      BY <1>1, <2>3 DEF JoinedTo
    <3>2. items'[i] = FoldItem(items[i], e)
      BY <1>t, <2>1, <2>3 DEF Fold
    <3>3. CASE e.type = "lifecycle" /\ e.size # None
      <4>1. items'[i].exists = TRUE /\ items'[i].size = e.size
        BY <3>2, <3>3 DEF FoldItem
      <4>2. e.size \in SizesOf(i)'
        BY <3>1, <3>3 DEF SizesOf
      <4> QED
        BY <3>1, <4>1, <4>2 DEF ItemExact
    <3>4. CASE ~(e.type = "lifecycle" /\ e.size # None)
      <4>1. items'[i].exists = TRUE /\ items'[i].size = items[i].size
        BY <3>2, <3>4 DEF FoldItem
      <4>2. SizesOf(i)' = SizesOf(i)
        BY <3>1, <3>4 DEF SizesOf
      <4> QED
        BY <2>1, <3>1, <4>1, <4>2 DEF ItemExact
    <3> QED
      BY <3>3, <3>4
  <2>4. CASE ItemOf(e) # i
    <3>1. JoinedTo(i)' = JoinedTo(i)
      BY <1>1, <2>2, <2>4 DEF JoinedTo
    <3>2. items'[i] = items[i]
      BY <1>t, <2>4 DEF Fold
    <3> QED
      BY <2>1, <3>1, <3>2 DEF ItemExact, SizesOf
  <2> QED
    BY <2>3, <2>4
<1> QED
  BY <1>2, <1>3 DEF ItemsExact, ItemExact

\* work_items and the event rows agree, for any events in any order: an item is
\* there when an event is joined to it, and its size is one that a lifecycle event
\* told, which no event without a size takes away.
THEOREM ItemsTrue == Spec => []ItemsExact
<1> DEFINE ItemsInv == TypeOK /\ ItemsExact /\ Unjoined
<1>1. Init => ItemsInv
  <2> SUFFICES ASSUME Init PROVE ItemsExact /\ Unjoined
    BY TypeInit
  <2>1. \A e \in Events : row[e].item = None
    BY DEF Init, NoRow
  <2>2. \A i \in WorkItems : JoinedTo(i) = {} /\ SizesOf(i) = {}
    BY <2>1, NoneFacts DEF JoinedTo, SizesOf
  <2>3. \A i \in WorkItems : items[i].exists = FALSE /\ items[i].size = None
    BY DEF Init, NoItem
  <2> QED
    BY <2>1, <2>2, <2>3 DEF ItemsExact, Unjoined
<1>2. ItemsInv /\ [Next]_vars => ItemsInv'
  <2> SUFFICES ASSUME TypeOK, ItemsExact, Unjoined, [Next]_vars
               PROVE  ItemsExact' /\ Unjoined'
    BY TypeNext
  <2>1. ASSUME NEW e \in Events, NEW u \in Users \cup {None}, NEW r \in Reasons \cup {None}, Fold(e, u, r)
        PROVE  ItemsExact' /\ Unjoined'
    BY <2>1, ItemsFold
  <2>2. CASE \/ \E e \in Events : Ingest(e)
             \/ UNCHANGED vars
    <3>1. \A f \in Events : row'[f].item = row[f].item
      <4>1. row \in [Events -> Rows]
        BY DEF TypeOK, Rows
      <4> QED
        BY <2>2, <4>1 DEF Ingest, vars, Rows
    <3>2. \A f \in Events : \/ row'[f] = row[f]
                            \/ row[f].status = "absent" /\ row'[f].status = "accepted"
      BY <2>2, IngestRow DEF vars
    <3>3. items' = items
      BY <2>2 DEF Ingest, vars
    <3>4. \A i : JoinedTo(i)' = JoinedTo(i)
      BY <3>1 DEF JoinedTo
    <3>5. ItemsExact'
      BY <3>3, <3>4 DEF ItemsExact, SizesOf
    <3>6. Unjoined'
      BY <3>1, <3>2 DEF Unjoined, Processed
    <3> QED
      BY <3>5, <3>6
  <2> QED
    BY <2>1, <2>2 DEF Next
<1>3. ItemsInv => ItemsExact
  OBVIOUS
<1> QED
  BY <1>1, <1>2, <1>3, PTL DEF Spec

-------------------------------------------------------------------------------
(* The workers *)

\* The statements of a worker.
Statements == {"idle", "namespace", "identify", "profile", "join", "stats", "activity", "meter", "commit"}

ItemRows == [exists : BOOLEAN, size : {e.size : e \in Events} \cup {None}]
Tasks == [event : Events \cup {None}, ns : Namespaces \cup {None},
          user : Users \cup {None}, reason : Reasons \cup {None}]

-------------------------------------------------------------------------------
(* The inductive invariant *)

\* The committed rows.
TablesOK ==
    /\ row = [e \in Events |-> row[e]]
    /\ items \in [WorkItems -> ItemRows]
    /\ stats = [k \in StatsKeys |-> stats[k]]
    /\ activity \in [ActivityKeys -> Nat]
    /\ meters \in [MeterKeys -> MeterRows]

\* The state of the workers.
WorkersOK ==
    /\ namespace \in Namespaces \cup {None}
    /\ pc \in [Workers -> Statements]
    /\ task \in [Workers -> Tasks]
    /\ held = [w \in Workers |-> held[w]]
    /\ draft = [w \in Workers |-> [item |-> draft[w].item, stats |-> draft[w].stats,
                                   activity |-> draft[w].activity, meter |-> draft[w].meter]]

\* No row is locked by two transactions.
LocksExclusive == \A v, w \in Workers : v # w => held[v] \cap held[w] = {}

\* What a worker knows of the event it has locked.
Known(w) ==
    LET t == task[w] IN
    /\ pc[w] # "idle" => /\ t.event \in Events
                         /\ row[t.event].status = "accepted"
                         /\ <<"event", t.event>> \in held[w]
                         /\ Attributable(t.event, t.user, t.reason)
    /\ pc[w] \in {"namespace", "identify", "profile"} => t.event.who # None /\ t.reason = None
    /\ pc[w] \in {"namespace", "identify"} => t.user = None
    /\ pc[w] = "profile" => t.user # None

\* What a worker has drafted is the fold of the rows that are committed, which
\* it has locked.
ItemDrafted(w) ==
    LET e == task[w].event IN
    IF pc[w] \in {"stats", "activity", "meter", "commit"} /\ ItemOf(e) # None
    THEN /\ <<"item", ItemOf(e)>> \in held[w]
         /\ draft[w].item = FoldItem(items[ItemOf(e)], e)
    ELSE draft[w].item = None

StatsDrafted(w) ==
    LET t == task[w] IN
    pc[w] \in {"activity", "meter", "commit"} =>
        /\ <<"stats", StatsKey(t.event)>> \in held[w]
        /\ draft[w].stats = FoldStats(stats[StatsKey(t.event)], t.event, t.user, t.reason)

ActivityDrafted(w) ==
    LET t == task[w]
        k == ActivityKey(t.event, t.user) IN
    IF pc[w] \in {"meter", "commit"} /\ CountsActivity(t.event, t.user, t.reason)
    THEN <<"activity", k>> \in held[w] /\ draft[w].activity = activity[k] + 1
    ELSE draft[w].activity = None

MeterDrafted(w) ==
    LET e == task[w].event
        m == FoldMeter(meters[MeterKey(e)], e) IN
    IF pc[w] = "commit" /\ e.type = "cost_meter"
    THEN <<"meter", MeterKey(e)>> \in held[w] /\ draft[w].meter = m /\ Fits(m)
    ELSE draft[w].meter = None

Drafted(w) == ItemDrafted(w) /\ StatsDrafted(w) /\ ActivityDrafted(w) /\ MeterDrafted(w)

Inv ==
    /\ TablesOK
    /\ WorkersOK
    /\ LocksExclusive
    /\ \A w \in Workers : Known(w) /\ Drafted(w)

-------------------------------------------------------------------------------
(* The folds *)

\* Folding keeps the rows within their columns.
LEMMA FoldRows ==
    ASSUME NEW e \in Events
    PROVE  /\ ItemOf(e) \in WorkItems \cup {None}
           /\ StatsKey(e) \in StatsKeys
           /\ \A u \in Users : ActivityKey(e, u) \in ActivityKeys
           /\ e.type = "cost_meter" => MeterKey(e) \in MeterKeys
           /\ \A i \in ItemRows : FoldItem(i, e) \in ItemRows
           /\ \A m \in MeterRows : Fits(FoldMeter(m, e)) => FoldMeter(m, e) \in MeterRows
<1>1. /\ e.qty \in Nat /\ e.qty # None /\ Capacity \in Nat
      /\ e.size \in {f.size : f \in Events} \cup {None}
  BY EventsAssumption, PipelineAssumption
<1>2. ItemOf(e) \in WorkItems \cup {None}
  BY EventsAssumption, PipelineAssumption DEF ItemOf
<1>3. StatsKey(e) \in StatsKeys
  BY DEF StatsKeys
<1>4. \A u \in Users : ActivityKey(e, u) \in ActivityKeys
  BY DEF ActivityKeys
<1>5. e.type = "cost_meter" => MeterKey(e) \in MeterKeys
  BY DEF MeterKeys
<1>6. ASSUME NEW i \in ItemRows
      PROVE  FoldItem(i, e) \in ItemRows
  BY <1>1 DEF FoldItem, ItemRows
<1>7. ASSUME NEW m \in MeterRows, Fits(FoldMeter(m, e))
      PROVE  FoldMeter(m, e) \in MeterRows
  <2>1. CASE e.meter \in GaugeMeters
    <3>1. FoldMeter(m, e) = [m EXCEPT !.gauge = e.qty]
      BY <2>1 DEF FoldMeter
    <3>2. e.qty \in 0..Capacity
      BY <1>1, <1>7, <3>1 DEF Fits, MeterRows
    <3> QED
      BY <3>1, <3>2 DEF MeterRows
  <2>2. CASE e.meter \notin GaugeMeters
    <3>1. FoldMeter(m, e) = [m EXCEPT !.sum = m.sum + e.qty]
      BY <2>2 DEF FoldMeter
    <3>2. m.sum + e.qty \in 0..Capacity
      BY <1>1, <1>7, <3>1 DEF Fits, MeterRows
    <3> QED
      BY <3>1, <3>2 DEF MeterRows
  <2> QED
    BY <2>1, <2>2
<1> QED
  BY <1>2, <1>3, <1>4, <1>5, <1>6, <1>7

-------------------------------------------------------------------------------
(* What stays as it was *)

\* A step leaves everything of the other workers alone.
Only(w) ==
    \A v \in Workers \ {w} :
        /\ pc'[v] = pc[v]
        /\ task'[v] = task[v]
        /\ draft'[v] = draft[v]
        /\ held'[v] = held[v]

\* A worker whose own state is left alone, and whose locked rows are, keeps
\* knowing what it knew, and its draft stays the fold of the committed rows.
LEMMA Undisturbed ==
    ASSUME WorkersOK, NEW v \in Workers, Known(v), Drafted(v),
           pc'[v] = pc[v], task'[v] = task[v], draft'[v] = draft[v], held'[v] = held[v],
           pc[v] # "idle" => row'[task[v].event] = row[task[v].event],
           \A i \in WorkItems : <<"item", i>> \in held[v] => items'[i] = items[i],
           \A k \in StatsKeys : <<"stats", k>> \in held[v] => stats'[k] = stats[k],
           \A k \in ActivityKeys : <<"activity", k>> \in held[v] => activity'[k] = activity[k],
           \A k \in MeterKeys : <<"meter", k>> \in held[v] => meters'[k] = meters[k]
    PROVE  Known(v)' /\ Drafted(v)'
<1> DEFINE t == task[v]
           e == t.event
<1>e. pc[v] # "idle" => e \in Events /\ t.user \in Users \cup {None}
  BY DEF Known, WorkersOK, Tasks
<1>k. pc[v] # "idle" =>
        /\ ItemOf(e) # None => ItemOf(e) \in WorkItems
        /\ StatsKey(e) \in StatsKeys
        /\ CountsActivity(e, t.user, t.reason) => ActivityKey(e, t.user) \in ActivityKeys
        /\ e.type = "cost_meter" => MeterKey(e) \in MeterKeys
  BY <1>e, FoldRows DEF CountsActivity, CountedResolved
<1>1. Known(v)'
  BY DEF Known
<1>2. ItemDrafted(v)'
  BY <1>k DEF Drafted, ItemDrafted
<1>3. StatsDrafted(v)'
  BY <1>k DEF Drafted, StatsDrafted
<1>4. ActivityDrafted(v)'
  BY <1>k DEF Drafted, ActivityDrafted
<1>5. MeterDrafted(v)'
  BY <1>k DEF Drafted, MeterDrafted
<1> QED
  BY <1>1, <1>2, <1>3, <1>4, <1>5 DEF Drafted

\* So do the other workers when a worker takes a step that commits nothing.
LEMMA OthersUndisturbed ==
    ASSUME Inv, NEW w \in Workers, Only(w), UNCHANGED tables
    PROVE  \A v \in Workers \ {w} : Known(v)' /\ Drafted(v)'
<1> SUFFICES ASSUME NEW v \in Workers \ {w}
             PROVE  Known(v)' /\ Drafted(v)'
  OBVIOUS
<1>1. WorkersOK /\ Known(v) /\ Drafted(v)
  BY DEF Inv
<1>2. pc'[v] = pc[v] /\ task'[v] = task[v] /\ draft'[v] = draft[v] /\ held'[v] = held[v]
  BY DEF Only
<1>3. row' = row /\ items' = items /\ stats' = stats /\ activity' = activity /\ meters' = meters
  BY DEF tables
<1> QED
  BY <1>1, <1>2, <1>3, Undisturbed

\* Locks stay exclusive when a worker gives locks up or takes one that is free.
LEMMA LocksKept ==
    ASSUME LocksExclusive, NEW w \in Workers, Only(w), NEW x,
           held'[w] \subseteq held[w] \/ (held'[w] \subseteq held[w] \cup {x} /\ Free(w, x))
    PROVE  LocksExclusive'
<1> SUFFICES ASSUME NEW v \in Workers, NEW u \in Workers, v # u
             PROVE  held'[v] \cap held'[u] = {}
  BY DEF LocksExclusive
<1>1. held[v] \cap held[u] = {}
  BY DEF LocksExclusive
<1>2. (v # w => held'[v] = held[v]) /\ (u # w => held'[u] = held[u])
  BY DEF Only
<1>3. Free(w, x) => (v # w => x \notin held[v]) /\ (u # w => x \notin held[u])
  BY DEF Free
<1> QED
  BY <1>1, <1>2, <1>3

\* The end of a transaction: its worker is idle and holds nothing.
LEMMA Ended ==
    ASSUME Inv, NEW w \in Workers, End(w), namespace' = namespace
    PROVE  /\ Only(w) /\ held'[w] = {}
           /\ WorkersOK' /\ Known(w)' /\ Drafted(w)' /\ LocksExclusive'
<1>1. /\ pc \in [Workers -> Statements] /\ task \in [Workers -> Tasks]
      /\ held = [v \in Workers |-> held[v]]
      /\ draft = [v \in Workers |-> [item |-> draft[v].item, stats |-> draft[v].stats,
                                     activity |-> draft[v].activity, meter |-> draft[v].meter]]
      /\ namespace \in Namespaces \cup {None}
  BY DEF Inv, WorkersOK
<1>2. /\ pc' = [pc EXCEPT ![w] = "idle"]
      /\ task' = [task EXCEPT ![w] = NoTask]
      /\ draft' = [draft EXCEPT ![w] = NoDraft]
      /\ held' = [held EXCEPT ![w] = {}]
  BY DEF End
<1>3. pc'[w] = "idle" /\ draft'[w] = NoDraft /\ held'[w] = {}
  BY <1>1, <1>2
<1>4. Only(w)
  BY <1>1, <1>2 DEF Only
<1>5. WorkersOK'
  <2>1. NoTask \in Tasks
    BY DEF NoTask, Tasks
  <2>2. pc' \in [Workers -> Statements] /\ task' \in [Workers -> Tasks]
    BY <1>1, <1>2, <2>1 DEF Statements
  <2>3. held' = [v \in Workers |-> held'[v]]
    BY <1>1, <1>2
  <2>4. draft' = [v \in Workers |-> [item |-> draft'[v].item, stats |-> draft'[v].stats,
                                     activity |-> draft'[v].activity, meter |-> draft'[v].meter]]
    BY <1>1, <1>2 DEF NoDraft
  <2> QED
    BY <1>1, <2>2, <2>3, <2>4 DEF WorkersOK
<1>6. Known(w)'
  BY <1>3 DEF Known
<1>7. Drafted(w)'
  BY <1>3 DEF Drafted, ItemDrafted, StatsDrafted, ActivityDrafted, MeterDrafted, NoDraft
<1>8. LocksExclusive'
  BY <1>3, <1>4, LocksKept DEF Inv
<1> QED
  BY <1>3, <1>4, <1>5, <1>6, <1>7, <1>8

\* An upsert: the row is locked, and one field of the draft is written.
LEMMA Wrote ==
    ASSUME WorkersOK, NEW w \in Workers, NEW x, NEW value,
           NEW field \in {"item", "stats", "activity", "meter"}, Write(w, x, field, value)
    PROVE  /\ held'[w] = held[w] \cup {x}
           /\ draft'[w].item = IF field = "item" THEN value ELSE draft[w].item
           /\ draft'[w].stats = IF field = "stats" THEN value ELSE draft[w].stats
           /\ draft'[w].activity = IF field = "activity" THEN value ELSE draft[w].activity
           /\ draft'[w].meter = IF field = "meter" THEN value ELSE draft[w].meter
<1>1. /\ held = [v \in Workers |-> held[v]]
      /\ draft = [v \in Workers |-> [item |-> draft[v].item, stats |-> draft[v].stats,
                                     activity |-> draft[v].activity, meter |-> draft[v].meter]]
  BY DEF WorkersOK
<1>2. /\ held' = [held EXCEPT ![w] = held[w] \cup {x}]
      /\ draft' = [draft EXCEPT ![w] = [draft[w] EXCEPT ![field] = value]]
  BY DEF Write
<1>3. draft[w] = [item |-> draft[w].item, stats |-> draft[w].stats,
                  activity |-> draft[w].activity, meter |-> draft[w].meter]
  BY <1>1
<1>4. draft'[w] = [draft[w] EXCEPT ![field] = value] /\ held'[w] = held[w] \cup {x}
  BY <1>1, <1>2
<1>5. CASE field = "item"
  BY <1>5, <1>3, <1>4
<1>6. CASE field = "stats"
  BY <1>6, <1>3, <1>4
<1>7. CASE field = "activity"
  BY <1>7, <1>3, <1>4
<1>8. CASE field = "meter"
  BY <1>8, <1>3, <1>4
<1> QED
  BY <1>5, <1>6, <1>7, <1>8

\* The shape of the drafts stays, and nothing happens to the other drafts and locks.
LEMMA WroteShape ==
    ASSUME WorkersOK, NEW w \in Workers, NEW x, NEW value,
           NEW field \in {"item", "stats", "activity", "meter"}, Write(w, x, field, value)
    PROVE  /\ \A v \in Workers \ {w} : draft'[v] = draft[v] /\ held'[v] = held[v]
           /\ held' = [v \in Workers |-> held'[v]]
           /\ draft' = [v \in Workers |-> [item |-> draft'[v].item, stats |-> draft'[v].stats,
                                           activity |-> draft'[v].activity, meter |-> draft'[v].meter]]
<1>1. /\ held = [v \in Workers |-> held[v]]
      /\ draft = [v \in Workers |-> [item |-> draft[v].item, stats |-> draft[v].stats,
                                     activity |-> draft[v].activity, meter |-> draft[v].meter]]
  BY DEF WorkersOK
<1>2. /\ held' = [held EXCEPT ![w] = held[w] \cup {x}]
      /\ draft' = [draft EXCEPT ![w] = [draft[w] EXCEPT ![field] = value]]
  BY DEF Write
<1>3. draft[w] = [item |-> draft[w].item, stats |-> draft[w].stats,
                  activity |-> draft[w].activity, meter |-> draft[w].meter]
  BY <1>1
<1>4. [draft[w] EXCEPT ![field] = value]
        = [item |-> IF field = "item" THEN value ELSE draft[w].item,
           stats |-> IF field = "stats" THEN value ELSE draft[w].stats,
           activity |-> IF field = "activity" THEN value ELSE draft[w].activity,
           meter |-> IF field = "meter" THEN value ELSE draft[w].meter]
  <2>1. CASE field = "item"
    BY <2>1, <1>3
  <2>2. CASE field = "stats"
    BY <2>2, <1>3
  <2>3. CASE field = "activity"
    BY <2>3, <1>3
  <2>4. CASE field = "meter"
    BY <2>4, <1>3
  <2> QED
    BY <2>1, <2>2, <2>3, <2>4
<1>5. draft'[w] = [draft[w] EXCEPT ![field] = value] /\ \A v \in Workers \ {w} : draft'[v] = draft[v]
  BY <1>1, <1>2
<1>6. /\ held' = [v \in Workers |-> held'[v]]
      /\ \A v \in Workers \ {w} : held'[v] = held[v]
  BY <1>1, <1>2
<1>7. draft' = [v \in Workers |-> [item |-> draft'[v].item, stats |-> draft'[v].stats,
                                   activity |-> draft'[v].activity, meter |-> draft'[v].meter]]
  <2>1. draft' = [v \in Workers |-> draft'[v]]
    BY <1>1, <1>2
  <2>2. \A v \in Workers : draft'[v] = [item |-> draft'[v].item, stats |-> draft'[v].stats,
                                        activity |-> draft'[v].activity, meter |-> draft'[v].meter]
    <3>1. draft'[w] = [item |-> draft'[w].item, stats |-> draft'[w].stats,
                       activity |-> draft'[w].activity, meter |-> draft'[w].meter]
      BY <1>4, <1>5
    <3>2. \A v \in Workers : draft[v] = [item |-> draft[v].item, stats |-> draft[v].stats,
                                         activity |-> draft[v].activity, meter |-> draft[v].meter]
      BY <1>1
    <3> QED
      BY <3>1, <3>2, <1>5
  <2> QED
    BY <2>1, <2>2
<1> QED
  BY <1>5, <1>6, <1>7

\* The invariant after a step of one worker that commits nothing.
LEMMA WorkerStep ==
    ASSUME Inv, NEW w \in Workers, Only(w), UNCHANGED tables,
           WorkersOK', LocksExclusive', Known(w)', Drafted(w)'
    PROVE  Inv'
<1>1. TablesOK'
  BY DEF Inv, TablesOK, tables
<1>2. \A v \in Workers \ {w} : Known(v)' /\ Drafted(v)'
  BY OthersUndisturbed
<1> QED
  BY <1>1, <1>2 DEF Inv

-------------------------------------------------------------------------------
(* The statements of a worker, one by one *)

\* Taking an event locks a row that nobody has; nothing is drafted yet.
LEMMA TakeStep == ASSUME Inv, NEW w \in Workers, Take(w) PROVE Inv'
<1>t. WorkersOK /\ Known(w) /\ Drafted(w) /\ LocksExclusive
  BY DEF Inv
<1>1. PICK e \in Lockable(w) :
        /\ task' = [task EXCEPT ![w] = [NoTask EXCEPT !.event = e]]
        /\ held' = [held EXCEPT ![w] = {<<"event", e>>}]
        /\ pc' = [pc EXCEPT ![w] = IF e.who = None THEN "join" ELSE "namespace"]
  BY DEF Take, Goto
<1>2. pc[w] = "idle" /\ UNCHANGED <<tables, roster, draft>>
  BY DEF Take
<1>3. e \in Events /\ row[e].status = "accepted" /\ Free(w, <<"event", e>>)
  BY DEF Lockable
<1>4. /\ task'[w] = [event |-> e, ns |-> None, user |-> None, reason |-> None]
      /\ held'[w] = {<<"event", e>>}
      /\ pc'[w] = IF e.who = None THEN "join" ELSE "namespace"
  BY <1>t, <1>1 DEF WorkersOK, NoTask
<1>5. Only(w)
  BY <1>t, <1>1, <1>2 DEF Only, WorkersOK
<1>6. WorkersOK'
  <2>1. [NoTask EXCEPT !.event = e] \in Tasks
    BY <1>3 DEF NoTask, Tasks
  <2>2. pc' \in [Workers -> Statements] /\ task' \in [Workers -> Tasks]
    BY <1>t, <1>1, <2>1 DEF WorkersOK, Statements
  <2>3. held' = [v \in Workers |-> held'[v]]
    BY <1>t, <1>1 DEF WorkersOK
  <2> QED
    BY <1>t, <1>2, <2>2, <2>3 DEF WorkersOK, roster
<1>7. LocksExclusive'
  BY <1>t, <1>3, <1>4, <1>5, LocksKept
<1>8. Known(w)'
  BY <1>2, <1>3, <1>4 DEF Known, Attributable, tables
<1>9. Drafted(w)'
  <2>1. draft'[w] = draft[w]
    BY <1>2
  <2>2. draft[w].item = None /\ draft[w].activity = None /\ draft[w].meter = None
    BY <1>t, <1>2 DEF Drafted, ItemDrafted, ActivityDrafted, MeterDrafted
  <2> QED
    BY <1>4, <2>1, <2>2 DEF Drafted, ItemDrafted, StatsDrafted, ActivityDrafted, MeterDrafted
<1> QED
  BY <1>2, <1>5, <1>6, <1>7, <1>8, <1>9, WorkerStep

\* A worker that reads the roster takes no lock and drafts nothing.
LEMMA ReadStep ==
    ASSUME Inv, NEW w \in Workers, UNCHANGED <<tables, roster, draft, held>>,
           pc[w] \in {"namespace", "identify", "profile"},
           NEW step \in {"identify", "profile", "join"}, Goto(w, step),
           NEW t \in Tasks, task' = [task EXCEPT ![w] = t],
           t.event = task[w].event,
           Attributable(t.event, t.user, t.reason),
           step \in {"identify", "profile"} => t.reason = None,
           step = "identify" => t.user = None,
           step = "profile" => t.user # None
    PROVE  Inv'
<1>t. WorkersOK /\ Known(w) /\ Drafted(w) /\ LocksExclusive
  BY DEF Inv
<1>1. pc' = [pc EXCEPT ![w] = step] /\ pc'[w] = step /\ task'[w] = t
  BY <1>t DEF Goto, WorkersOK
<1>2. Only(w)
  BY <1>t, <1>1 DEF Only, WorkersOK
<1>3. WorkersOK'
  BY <1>t, <1>1 DEF WorkersOK, roster, Statements
<1>4. LocksExclusive'
  BY <1>t DEF LocksExclusive
<1>5. Known(w)'
  BY <1>t, <1>1 DEF Known, tables
<1>6. Drafted(w)'
  <2>1. draft[w].item = None /\ draft[w].activity = None /\ draft[w].meter = None
    BY <1>t DEF Drafted, ItemDrafted, ActivityDrafted, MeterDrafted
  <2> QED
    BY <1>1, <2>1 DEF Drafted, ItemDrafted, StatsDrafted, ActivityDrafted, MeterDrafted
<1> QED
  BY <1>2, <1>3, <1>4, <1>5, <1>6, WorkerStep

\* The namespace of the event is read: the task knows it, and nothing is drafted yet.
LEMMA FindNamespaceStep == ASSUME Inv, NEW w \in Workers, FindNamespace(w) PROVE Inv'
<1>t. WorkersOK /\ Known(w) /\ task[w] \in Tasks
  BY DEF Inv, WorkersOK
<1> DEFINE t == [task[w] EXCEPT !.ns = namespace]
<1>1. /\ pc[w] = "namespace" /\ Goto(w, "identify") /\ task' = [task EXCEPT ![w] = t]
      /\ UNCHANGED <<tables, roster, draft, held>>
  BY DEF FindNamespace
<1>2. /\ t \in Tasks /\ t.event = task[w].event
      /\ t.user = task[w].user /\ t.reason = task[w].reason
  BY <1>t DEF Tasks, WorkersOK
<1>3. t.user = None /\ t.reason = None
  BY <1>t, <1>1, <1>2 DEF Known
<1>4. Attributable(t.event, t.user, t.reason)
  BY <1>3 DEF Attributable
<1> HIDE DEF t
<1> QED
  BY <1>1, <1>2, <1>3, <1>4, ReadStep

\* The identifier is looked up: a user is known, or the reason why not.
LEMMA IdentifyStep == ASSUME Inv, NEW w \in Workers, Identify(w) PROVE Inv'
<1>t. WorkersOK /\ Known(w) /\ task[w] \in Tasks
  BY DEF Inv, WorkersOK
<1>1. pc[w] = "identify" /\ UNCHANGED <<tables, roster, draft, held>>
  BY DEF Identify
<1>2. task[w].event.who # None /\ task[w].reason = None /\ task[w].user = None
  BY <1>t, <1>1 DEF Known
<1>3. ASSUME NEW u \in Users, task' = [task EXCEPT ![w].user = u], Goto(w, "profile")
      PROVE  Inv'
  <2> DEFINE t == [task[w] EXCEPT !.user = u]
  <2>1. /\ t \in Tasks /\ t.event = task[w].event /\ t.user = u /\ t.reason = task[w].reason
        /\ task' = [task EXCEPT ![w] = t]
    BY <1>t, <1>3 DEF Tasks
  <2>2. u # None
    BY EventsAssumption, PipelineAssumption
  <2> HIDE DEF t
  <2>3. Attributable(t.event, t.user, t.reason)
    BY <1>2, <2>1 DEF Attributable
  <2>4. t.reason = None /\ t.user # None /\ pc[w] \in {"namespace", "identify", "profile"}
    BY <1>1, <1>2, <2>1, <2>2
  <2>5. t \in Tasks /\ task' = [task EXCEPT ![w] = t] /\ t.event = task[w].event
    BY <2>1
  <2> QED
    BY <1>1, <1>3, <2>3, <2>4, <2>5, ReadStep
<1>4. ASSUME UNCHANGED task, Goto(w, "join")
      PROVE  Inv'
  <2>1. task' = [task EXCEPT ![w] = task[w]]
    BY <1>t, <1>4 DEF WorkersOK
  <2>2. Attributable(task[w].event, task[w].user, task[w].reason)
    BY <1>2 DEF Attributable
  <2> QED
    BY <1>t, <1>1, <1>2, <1>4, <2>1, <2>2, ReadStep
<1>5. \A ns, value : Candidates(ns, value) \subseteq Users
  BY DEF Candidates
<1> QED
  BY <1>3, <1>4, <1>5 DEF Identify

\* The type of the user is read, and with it whether the event is excluded.
LEMMA ProfileStep == ASSUME Inv, NEW w \in Workers, Profile(w) PROVE Inv'
<1>t. WorkersOK /\ Known(w) /\ task[w] \in Tasks
  BY DEF Inv, WorkersOK
<1>1. pc[w] = "profile" /\ Goto(w, "join") /\ UNCHANGED <<tables, roster, draft, held>>
  BY DEF Profile
<1>2. task[w].event.who # None /\ task[w].reason = None /\ task[w].user # None
  BY <1>t, <1>1 DEF Known
<1>3. ASSUME NEW r \in Reasons \cup {None}, task' = [task EXCEPT ![w].reason = r]
      PROVE  Inv'
  <2> DEFINE t == [task[w] EXCEPT !.reason = r]
  <2>1. /\ t \in Tasks /\ t.event = task[w].event /\ t.user = task[w].user /\ t.reason = r
        /\ task' = [task EXCEPT ![w] = t]
    BY <1>t, <1>3 DEF Tasks
  <2> HIDE DEF t
  <2>2. Attributable(t.event, t.user, t.reason)
    BY <1>2, <2>1 DEF Attributable
  <2> QED
    BY <1>1, <2>1, <2>2, ReadStep
<1>4. ASSUME task' = [task EXCEPT ![w].user = None]
      PROVE  Inv'
  <2> DEFINE t == [task[w] EXCEPT !.user = None]
  <2>1. /\ t \in Tasks /\ t.event = task[w].event /\ t.user = None /\ t.reason = task[w].reason
        /\ task' = [task EXCEPT ![w] = t]
    BY <1>t, <1>4 DEF Tasks
  <2> HIDE DEF t
  <2>2. Attributable(t.event, t.user, t.reason)
    BY <1>2, <2>1 DEF Attributable
  <2> QED
    BY <1>1, <2>1, <2>2, ReadStep
<1>5. "unresolved_identity" \in Reasons /\ \A k : Exclusion(k) \in Reasons \cup {None}
  BY DEF Reasons, Exclusion
<1> QED
  BY <1>3, <1>4, <1>5 DEF Profile

\* An upsert locks the row that it folds, so the draft is the fold of the
\* committed row; or the event has no such row, and nothing is drafted.
LEMMA DraftStep ==
    ASSUME Inv, NEW w \in Workers, UNCHANGED <<tables, roster, task>>, NEW x,
           pc[w] # "idle", NEW step \in {"stats", "activity", "meter", "commit"}, Goto(w, step),
           \/ UNCHANGED <<draft, held>>
           \/ \E f \in {"item", "stats", "activity", "meter"} : \E value : Write(w, x, f, value),
           Drafted(w)'
    PROVE  Inv'
<1>t. WorkersOK /\ Known(w) /\ LocksExclusive
  BY DEF Inv
<1>1. /\ pc'[w] = step /\ \A v \in Workers \ {w} : pc'[v] = pc[v]
      /\ pc' \in [Workers -> Statements]
  BY <1>t DEF Goto, WorkersOK, Statements
<1>2. /\ held[w] \subseteq held'[w]
      /\ \A v \in Workers \ {w} : draft'[v] = draft[v] /\ held'[v] = held[v]
      /\ held' = [v \in Workers |-> held'[v]]
      /\ draft' = [v \in Workers |-> [item |-> draft'[v].item, stats |-> draft'[v].stats,
                                      activity |-> draft'[v].activity, meter |-> draft'[v].meter]]
      /\ held'[w] \subseteq held[w] \/ (held'[w] \subseteq held[w] \cup {x} /\ Free(w, x))
  <2>1. CASE UNCHANGED <<draft, held>>
    BY <2>1, <1>t DEF WorkersOK
  <2>2. CASE \E f \in {"item", "stats", "activity", "meter"} : \E value : Write(w, x, f, value)
    <3>1. PICK f \in {"item", "stats", "activity", "meter"} : \E value : Write(w, x, f, value)
      BY <2>2
    <3>2. Free(w, x) /\ held'[w] = held[w] \cup {x}
      BY <3>1, <1>t DEF Write, WorkersOK
    <3>3. \A v \in Workers \ {w} : draft'[v] = draft[v] /\ held'[v] = held[v]
      BY <3>1, <1>t DEF Write, WorkersOK
    <3>4. /\ held' = [v \in Workers |-> held'[v]]
          /\ draft' = [v \in Workers |-> [item |-> draft'[v].item, stats |-> draft'[v].stats,
                                          activity |-> draft'[v].activity, meter |-> draft'[v].meter]]
      BY <3>1, <1>t, WroteShape
    <3> QED
      BY <3>2, <3>3, <3>4
  <2> QED
    BY <2>1, <2>2
<1>3. Only(w)
  BY <1>1, <1>2 DEF Only
<1>4. WorkersOK'
  BY <1>t, <1>1, <1>2 DEF WorkersOK, roster
<1>5. LocksExclusive'
  BY <1>t, <1>2, <1>3, LocksKept
<1>6. Known(w)'
  BY <1>t, <1>1, <1>2 DEF Known, tables
<1> QED
  BY <1>3, <1>4, <1>5, <1>6, WorkerStep

\* The first upsert: the draft of the work item is the fold of the committed one.
LEMMA JoinStep == ASSUME Inv, NEW w \in Workers, Join(w) PROVE Inv'
<1>t. Known(w) /\ Drafted(w) /\ WorkersOK
  BY DEF Inv
<1> DEFINE e == task[w].event
           i == ItemOf(e)
<1>1. /\ pc[w] = "join" /\ Goto(w, "stats") /\ UNCHANGED <<tables, roster, task>>
      /\ IF i = None THEN UNCHANGED <<draft, held>>
         ELSE Write(w, <<"item", i>>, "item", FoldItem(items[i], e))
  BY DEF Join
<1>2. pc'[w] = "stats" /\ task' = task /\ items' = items
  BY <1>1, <1>t DEF Goto, WorkersOK, tables
<1>3. draft[w].item = None /\ draft[w].activity = None /\ draft[w].meter = None
  BY <1>1, <1>t DEF Drafted, ItemDrafted, ActivityDrafted, MeterDrafted
<1>4. Drafted(w)'
  <2>1. CASE i = None
    BY <2>1, <1>1, <1>2, <1>3 DEF Drafted, ItemDrafted, StatsDrafted, ActivityDrafted, MeterDrafted
  <2>2. CASE i # None
    <3>1. /\ <<"item", i>> \in held'[w] /\ draft'[w].item = FoldItem(items[i], e)
          /\ draft'[w].activity = draft[w].activity /\ draft'[w].meter = draft[w].meter
      <4> HIDE DEF e, i
      <4> QED
        BY <2>2, <1>1, <1>t, Wrote
    <3> QED
      BY <2>2, <3>1, <1>2, <1>3 DEF Drafted, ItemDrafted, StatsDrafted, ActivityDrafted, MeterDrafted
  <2> QED
    BY <2>1, <2>2
<1>5. \/ UNCHANGED <<draft, held>>
      \/ \E f \in {"item", "stats", "activity", "meter"} : \E value : Write(w, <<"item", i>>, f, value)
  BY <1>1
<1> HIDE DEF e, i
<1> QED
  BY <1>1, <1>4, <1>5, DraftStep

\* The daily counters are folded while their row is locked.
LEMMA StatsStep == ASSUME Inv, NEW w \in Workers, Stats(w) PROVE Inv'
<1>t. Known(w) /\ Drafted(w) /\ WorkersOK
  BY DEF Inv
<1> DEFINE e == task[w].event
           k == StatsKey(e)
           s == FoldStats(stats[k], e, task[w].user, task[w].reason)
<1>1. /\ pc[w] = "stats" /\ Goto(w, "activity") /\ UNCHANGED <<tables, roster, task>>
      /\ Write(w, <<"stats", k>>, "stats", s)
  BY DEF Stats
<1>2. pc'[w] = "activity" /\ task' = task /\ items' = items /\ stats' = stats
  BY <1>1, <1>t DEF Goto, WorkersOK, tables
<1>3. draft[w].activity = None /\ draft[w].meter = None
  BY <1>1, <1>t DEF Drafted, ActivityDrafted, MeterDrafted
<1>4. Drafted(w)'
  <2>1. /\ held'[w] = held[w] \cup {<<"stats", k>>} /\ draft'[w].stats = s
        /\ draft'[w].item = draft[w].item /\ draft'[w].activity = draft[w].activity
        /\ draft'[w].meter = draft[w].meter
    <3> HIDE DEF e, k, s
    <3> QED
      BY <1>1, <1>t, Wrote
  <2>2. ItemDrafted(w)'
    BY <1>1, <1>2, <1>t, <2>1 DEF Drafted, ItemDrafted
  <2> QED
    BY <1>2, <1>3, <2>1, <2>2 DEF Drafted, StatsDrafted, ActivityDrafted, MeterDrafted
<1>5. \E f \in {"item", "stats", "activity", "meter"} : \E value : Write(w, <<"stats", k>>, f, value)
  BY <1>1
<1> HIDE DEF e, k, s
<1> QED
  BY <1>1, <1>4, <1>5, DraftStep

\* The activity of the user is folded while its row is locked, if it counts.
LEMMA ActivityStep == ASSUME Inv, NEW w \in Workers, Activity(w) PROVE Inv'
<1>t. Known(w) /\ Drafted(w) /\ WorkersOK
  BY DEF Inv
<1> DEFINE e == task[w].event
           k == ActivityKey(e, task[w].user)
           counted == CountsActivity(e, task[w].user, task[w].reason)
<1>1. /\ pc[w] = "activity" /\ Goto(w, "meter") /\ UNCHANGED <<tables, roster, task>>
      /\ IF counted THEN Write(w, <<"activity", k>>, "activity", activity[k] + 1)
         ELSE UNCHANGED <<draft, held>>
  BY DEF Activity
<1>2. pc'[w] = "meter" /\ task' = task /\ items' = items /\ stats' = stats /\ activity' = activity
  BY <1>1, <1>t DEF Goto, WorkersOK, tables
<1>3. draft[w].activity = None /\ draft[w].meter = None
  BY <1>1, <1>t DEF Drafted, ActivityDrafted, MeterDrafted
<1>4. Drafted(w)'
  <2>1. CASE counted
    <3>1. /\ held'[w] = held[w] \cup {<<"activity", k>>} /\ draft'[w].activity = activity[k] + 1
          /\ draft'[w].item = draft[w].item /\ draft'[w].stats = draft[w].stats
          /\ draft'[w].meter = draft[w].meter
      <4>1. Write(w, <<"activity", k>>, "activity", activity[k] + 1)
        BY <1>1, <2>1
      <4> HIDE DEF e, k, counted
      <4> QED
        BY <4>1, <1>t, Wrote
    <3>2. ItemDrafted(w)'
      BY <1>1, <1>2, <1>t, <3>1 DEF Drafted, ItemDrafted
    <3>3. StatsDrafted(w)'
      BY <1>1, <1>2, <1>t, <3>1 DEF Drafted, StatsDrafted
    <3> QED
      BY <2>1, <1>2, <1>3, <3>1, <3>2, <3>3 DEF Drafted, ActivityDrafted, MeterDrafted
  <2>2. CASE ~counted
    BY <2>2, <1>1, <1>2, <1>3, <1>t DEF Drafted, ItemDrafted, StatsDrafted, ActivityDrafted, MeterDrafted
  <2> QED
    BY <2>1, <2>2
<1>5. \/ UNCHANGED <<draft, held>>
      \/ \E f \in {"item", "stats", "activity", "meter"} : \E value : Write(w, <<"activity", k>>, f, value)
  BY <1>1
<1> HIDE DEF e, k, counted
<1> QED
  BY <1>1, <1>4, <1>5, DraftStep

\* A quantity that does not fit ends the transaction instead.
LEMMA MeterStep == ASSUME Inv, NEW w \in Workers, Meter(w) PROVE Inv'
<1>t. Known(w) /\ Drafted(w) /\ WorkersOK
  BY DEF Inv
<1> DEFINE e == task[w].event
           k == MeterKey(e)
           m == FoldMeter(meters[k], e)
<1>1. pc[w] = "meter" /\ UNCHANGED <<tables, roster>>
  BY DEF Meter
<1>2. draft[w].meter = None
  BY <1>1, <1>t DEF Drafted, MeterDrafted
<1>3. items' = items /\ stats' = stats /\ activity' = activity /\ meters' = meters
  BY <1>1 DEF tables
<1>4. ASSUME e.type # "cost_meter", Goto(w, "commit"), UNCHANGED <<task, draft, held>>
      PROVE  Inv'
  <2>1. pc'[w] = "commit" /\ task' = task /\ draft' = draft /\ held' = held
    BY <1>4, <1>t DEF Goto, WorkersOK
  <2>2. Drafted(w)'
    BY <1>1, <1>2, <1>3, <1>4, <1>t, <2>1
       DEF Drafted, ItemDrafted, StatsDrafted, ActivityDrafted, MeterDrafted
  <2> HIDE DEF e, k, m
  <2> QED
    BY <1>1, <1>4, <2>2, DraftStep
<1>5. ASSUME e.type = "cost_meter", Fits(m), Write(w, <<"meter", k>>, "meter", m),
             Goto(w, "commit"), UNCHANGED task
      PROVE  Inv'
  <2>1. pc'[w] = "commit" /\ task' = task
    BY <1>5, <1>t DEF Goto, WorkersOK
  <2>2. /\ held'[w] = held[w] \cup {<<"meter", k>>} /\ draft'[w].meter = m
        /\ draft'[w].item = draft[w].item /\ draft'[w].stats = draft[w].stats
        /\ draft'[w].activity = draft[w].activity
    <3> HIDE DEF e, k, m
    <3> QED
      BY <1>5, <1>t, Wrote
  <2>3. ItemDrafted(w)' /\ StatsDrafted(w)'
    BY <1>1, <1>3, <1>t, <2>1, <2>2 DEF Drafted, ItemDrafted, StatsDrafted
  <2>4. ActivityDrafted(w)'
    BY <1>1, <1>3, <1>t, <2>1, <2>2 DEF Drafted, ActivityDrafted
  <2>5. MeterDrafted(w)'
    BY <1>3, <1>5, <2>1, <2>2 DEF MeterDrafted
  <2>6. \E f \in {"item", "stats", "activity", "meter"} : \E value : Write(w, <<"meter", k>>, f, value)
    BY <1>5
  <2> HIDE DEF e, k, m
  <2> QED
    BY <1>1, <1>5, <2>3, <2>4, <2>5, <2>6, DraftStep DEF Drafted
<1>6. ASSUME End(w)
      PROVE  Inv'
  BY <1>1, <1>6, Ended, WorkerStep DEF roster
<1> QED
  BY <1>4, <1>5, <1>6 DEF Meter

\* A worker that dies gives up its locks and drafts and leaves the tables alone.
LEMMA CrashStep == ASSUME Inv, NEW w \in Workers, Crash(w) PROVE Inv'
<1>1. End(w) /\ UNCHANGED tables /\ namespace' = namespace
  BY DEF Crash, roster
<1> QED
  BY <1>1, Ended, WorkerStep

-------------------------------------------------------------------------------
(* The commit *)

\* The drafts of a worker that commits are the fold of its event: the commit is
\* the atomic fold of Aggregates.
LEMMA CommitFolds ==
    ASSUME Inv, NEW w \in Workers, Commit(w)
    PROVE  /\ task[w].event \in Events
           /\ task[w].user \in Users \cup {None} /\ task[w].reason \in Reasons \cup {None}
           /\ Fold(task[w].event, task[w].user, task[w].reason)
<1> DEFINE t == task[w]
           e == t.event
           d == draft[w]
<1>t. TablesOK /\ Known(w) /\ Drafted(w)
  BY DEF Inv
<1>1. /\ pc[w] = "commit"
      /\ row' = [row EXCEPT ![e] = Outcome(e, t.user, t.reason)]
      /\ items' = IF d.item = None THEN items ELSE [items EXCEPT ![ItemOf(e)] = d.item]
      /\ stats' = [stats EXCEPT ![StatsKey(e)] = d.stats]
      /\ activity' = IF d.activity = None THEN activity
                     ELSE [activity EXCEPT ![ActivityKey(e, t.user)] = d.activity]
      /\ meters' = IF d.meter = None THEN meters ELSE [meters EXCEPT ![MeterKey(e)] = d.meter]
  BY DEF Commit
<1>2. /\ e \in Events /\ row[e].status = "accepted" /\ Attributable(e, t.user, t.reason)
      /\ t.user \in Users \cup {None} /\ t.reason \in Reasons \cup {None}
  BY <1>t, <1>1 DEF Known, Inv, WorkersOK, Tasks
<1>3. items' = IF ItemOf(e) = None THEN items
               ELSE [items EXCEPT ![ItemOf(e)] = FoldItem(items[ItemOf(e)], e)]
  <2>1. CASE ItemOf(e) = None
    BY <2>1, <1>1, <1>t DEF Drafted, ItemDrafted
  <2>2. CASE ItemOf(e) # None
    <3>1. d.item = FoldItem(items[ItemOf(e)], e)
      BY <2>2, <1>1, <1>t DEF Drafted, ItemDrafted
    <3>2. items[ItemOf(e)] \in ItemRows
      BY <2>2, <1>2, <1>t, FoldRows DEF TablesOK
    <3>3. d.item \in ItemRows
      BY <1>2, <3>1, <3>2, FoldRows
    <3>4. None \notin ItemRows
      BY EventsAssumption, PipelineAssumption DEF ItemRows
    <3> QED
      BY <2>2, <1>1, <3>1, <3>3, <3>4
  <2> QED
    BY <2>1, <2>2
<1>4. stats' = [stats EXCEPT ![StatsKey(e)] = FoldStats(stats[StatsKey(e)], e, t.user, t.reason)]
  BY <1>1, <1>t DEF Drafted, StatsDrafted
<1>5. activity' = IF CountsActivity(e, t.user, t.reason)
                  THEN [activity EXCEPT ![ActivityKey(e, t.user)] = activity[ActivityKey(e, t.user)] + 1]
                  ELSE activity
  <2>1. CASE ~CountsActivity(e, t.user, t.reason)
    BY <2>1, <1>1, <1>t DEF Drafted, ActivityDrafted
  <2>2. CASE CountsActivity(e, t.user, t.reason)
    <3>1. d.activity = activity[ActivityKey(e, t.user)] + 1
      BY <2>2, <1>1, <1>t DEF Drafted, ActivityDrafted
    <3>2. t.user \in Users
      BY <2>2, <1>2 DEF CountsActivity, CountedResolved
    <3>3. activity[ActivityKey(e, t.user)] \in Nat
      <4>1. ActivityKey(e, t.user) \in ActivityKeys
        BY <1>2, <3>2, FoldRows
      <4> QED
        BY <4>1, <1>t DEF TablesOK
    <3>4. d.activity # None
      <4>1. d.activity \in Nat
        BY <3>1, <3>3
      <4> QED
        BY <4>1, EventsAssumption, PipelineAssumption
    <3> QED
      BY <2>2, <1>1, <3>1, <3>4
  <2> QED
    BY <2>1, <2>2
<1>6. IF e.type = "cost_meter"
      THEN /\ Fits(FoldMeter(meters[MeterKey(e)], e))
           /\ meters' = [meters EXCEPT ![MeterKey(e)] = FoldMeter(meters[MeterKey(e)], e)]
      ELSE UNCHANGED meters
  <2>1. CASE e.type # "cost_meter"
    BY <2>1, <1>1, <1>t DEF Drafted, MeterDrafted
  <2>2. CASE e.type = "cost_meter"
    <3>1. /\ d.meter = FoldMeter(meters[MeterKey(e)], e)
          /\ Fits(FoldMeter(meters[MeterKey(e)], e))
      BY <2>2, <1>1, <1>t DEF Drafted, MeterDrafted
    <3>2. meters[MeterKey(e)] \in MeterRows
      BY <2>2, <1>2, <1>t, FoldRows DEF TablesOK
    <3>3. d.meter \in MeterRows
      BY <1>2, <3>1, <3>2, FoldRows
    <3>4. None \notin MeterRows
      BY EventsAssumption, PipelineAssumption DEF MeterRows
    <3> QED
      BY <2>2, <1>1, <3>1, <3>3, <3>4
  <2> QED
    BY <2>1, <2>2
<1> QED
  BY <1>1, <1>2, <1>3, <1>4, <1>5, <1>6 DEF Fold

\* The rows that a commit writes are rows that its worker has locked.
LEMMA CommitStep == ASSUME Inv, NEW w \in Workers, Commit(w) PROVE Inv'
<1> DEFINE t == task[w]
           e == t.event
<1>t. TablesOK /\ Known(w) /\ Drafted(w) /\ WorkersOK /\ LocksExclusive
  BY DEF Inv
<1>1. pc[w] = "commit" /\ End(w) /\ UNCHANGED roster
  BY DEF Commit
<1>2. Only(w) /\ WorkersOK' /\ Known(w)' /\ Drafted(w)' /\ LocksExclusive'
  BY <1>1, Ended DEF roster
<1>3. /\ e \in Events /\ t.user \in Users \cup {None}
      /\ row[e].status = "accepted" /\ <<"event", e>> \in held[w]
      /\ row' = [row EXCEPT ![e] = Outcome(e, t.user, t.reason)]
      /\ items' = IF ItemOf(e) = None THEN items
                  ELSE [items EXCEPT ![ItemOf(e)] = FoldItem(items[ItemOf(e)], e)]
      /\ stats' = [stats EXCEPT ![StatsKey(e)] = FoldStats(stats[StatsKey(e)], e, t.user, t.reason)]
      /\ activity' = IF CountsActivity(e, t.user, t.reason)
                     THEN [activity EXCEPT ![ActivityKey(e, t.user)] = activity[ActivityKey(e, t.user)] + 1]
                     ELSE activity
      /\ IF e.type = "cost_meter"
         THEN /\ Fits(FoldMeter(meters[MeterKey(e)], e))
              /\ meters' = [meters EXCEPT ![MeterKey(e)] = FoldMeter(meters[MeterKey(e)], e)]
         ELSE UNCHANGED meters
  BY <1>t, <1>1, CommitFolds DEF Fold, Known
<1>4. /\ ItemOf(e) # None => <<"item", ItemOf(e)>> \in held[w]
      /\ <<"stats", StatsKey(e)>> \in held[w]
      /\ CountsActivity(e, t.user, t.reason) => <<"activity", ActivityKey(e, t.user)>> \in held[w]
      /\ e.type = "cost_meter" => <<"meter", MeterKey(e)>> \in held[w]
  BY <1>1, <1>t DEF Drafted, ItemDrafted, StatsDrafted, ActivityDrafted, MeterDrafted
<1>5. TablesOK'
  <2>1. row' = [f \in Events |-> row'[f]] /\ stats' = [k \in StatsKeys |-> stats'[k]]
    BY <1>t, <1>3 DEF TablesOK
  <2>2. items' \in [WorkItems -> ItemRows]
    <3>1. ItemOf(e) # None => ItemOf(e) \in WorkItems
      BY <1>3, FoldRows
    <3>2. \A i \in WorkItems : FoldItem(items[i], e) \in ItemRows
      BY <1>3, <1>t, FoldRows DEF TablesOK
    <3> QED
      BY <1>t, <1>3, <3>1, <3>2 DEF TablesOK
  <2>3. activity' \in [ActivityKeys -> Nat]
    <3>1. CASE CountsActivity(e, t.user, t.reason)
      <4>1. t.user \in Users
        BY <3>1, <1>3 DEF CountsActivity, CountedResolved
      <4>2. ActivityKey(e, t.user) \in ActivityKeys
        BY <4>1, <1>3, FoldRows
      <4> QED
        BY <3>1, <4>2, <1>t, <1>3 DEF TablesOK
    <3>2. CASE ~CountsActivity(e, t.user, t.reason)
      BY <3>2, <1>t, <1>3 DEF TablesOK
    <3> QED
      BY <3>1, <3>2
  <2>4. meters' \in [MeterKeys -> MeterRows]
    <3>1. CASE e.type = "cost_meter"
      <4>1. MeterKey(e) \in MeterKeys
        BY <3>1, <1>3, FoldRows
      <4>2. FoldMeter(meters[MeterKey(e)], e) \in MeterRows
        BY <3>1, <4>1, <1>3, <1>t, FoldRows DEF TablesOK
      <4> QED
        BY <3>1, <4>2, <1>t, <1>3 DEF TablesOK
    <3>2. CASE e.type # "cost_meter"
      BY <3>2, <1>t, <1>3 DEF TablesOK
    <3> QED
      BY <3>1, <3>2
  <2> QED
    BY <2>1, <2>2, <2>3, <2>4 DEF TablesOK
<1>6. ASSUME NEW v \in Workers \ {w}
      PROVE  Known(v)' /\ Drafted(v)'
  <2>1. held[v] \cap held[w] = {}
    BY <1>t DEF LocksExclusive
  <2>2. WorkersOK /\ Known(v) /\ Drafted(v)
    BY DEF Inv
  <2>3. pc'[v] = pc[v] /\ task'[v] = task[v] /\ draft'[v] = draft[v] /\ held'[v] = held[v]
    BY <1>2 DEF Only
  <2>4. pc[v] # "idle" => row'[task[v].event] = row[task[v].event]
    BY <1>3, <1>t, <2>1, <2>2 DEF TablesOK, Known
  <2>5. \A i \in WorkItems : <<"item", i>> \in held[v] => items'[i] = items[i]
    BY <1>3, <1>4, <1>t, <2>1 DEF TablesOK
  <2>6. \A k \in StatsKeys : <<"stats", k>> \in held[v] => stats'[k] = stats[k]
    BY <1>3, <1>4, <1>t, <2>1 DEF TablesOK
  <2>7. \A k \in ActivityKeys : <<"activity", k>> \in held[v] => activity'[k] = activity[k]
    BY <1>3, <1>4, <1>t, <2>1 DEF TablesOK
  <2>8. \A k \in MeterKeys : <<"meter", k>> \in held[v] => meters'[k] = meters[k]
    BY <1>3, <1>4, <1>t, <2>1 DEF TablesOK
  <2> QED
    BY <2>2, <2>3, <2>4, <2>5, <2>6, <2>7, <2>8, Undisturbed
<1> QED
  BY <1>2, <1>5, <1>6 DEF Inv

-------------------------------------------------------------------------------
(* What happens around the workers *)

\* Ingestion writes the row of an event that nobody can have taken.
LEMMA IngestStep == ASSUME Inv, NEW e \in Events, IngestEvent(e) PROVE Inv'
<1>t. TablesOK /\ WorkersOK /\ LocksExclusive
  BY DEF Inv
<1>1. /\ row[e].status = "absent" /\ row' = [row EXCEPT ![e].status = "accepted"]
      /\ items' = items /\ stats' = stats /\ activity' = activity /\ meters' = meters
      /\ namespace' = namespace /\ pc' = pc /\ task' = task /\ draft' = draft /\ held' = held
  BY DEF IngestEvent, Ingest, roster
<1>2. ASSUME NEW v \in Workers
      PROVE  Known(v)' /\ Drafted(v)'
  <2>1. Known(v) /\ Drafted(v)
    BY DEF Inv
  <2>2. pc[v] # "idle" => row'[task[v].event] = row[task[v].event]
    <3>1. pc[v] # "idle" => task[v].event \in Events \ {e}
      BY <1>1, <2>1 DEF Known
    <3> QED
      BY <1>1, <1>t, <3>1 DEF TablesOK
  <2> QED
    BY <1>1, <1>t, <2>1, <2>2, Undisturbed
<1>3. TablesOK'
  BY <1>t, <1>1 DEF TablesOK
<1>4. WorkersOK' /\ LocksExclusive'
  BY <1>t, <1>1 DEF WorkersOK, LocksExclusive
<1> QED
  BY <1>2, <1>3, <1>4 DEF Inv

\* A change of the roster disturbs no transaction: what a worker has read of it,
\* it has read.
LEMMA RosterStep ==
    ASSUME Inv, Change \/ UNCHANGED pipeVars, namespace' \in Namespaces \cup {None}
    PROVE  Inv' /\ UNCHANGED tables
<1>t. TablesOK /\ WorkersOK /\ LocksExclusive
  BY DEF Inv
<1>1. UNCHANGED <<tables, pc, task, draft, held>>
  BY DEF Change, pipeVars
<1>2. ASSUME NEW v \in Workers
      PROVE  Known(v)' /\ Drafted(v)'
  <2>1. Known(v) /\ Drafted(v)
    BY DEF Inv
  <2> QED
    BY <1>1, <1>t, <2>1, Undisturbed DEF tables
<1>3. TablesOK' /\ WorkersOK' /\ LocksExclusive'
  BY <1>t, <1>1 DEF TablesOK, WorkersOK, LocksExclusive, tables
<1> QED
  BY <1>1, <1>2, <1>3 DEF Inv

-------------------------------------------------------------------------------
(* The pipeline implements the atomic folding *)

\* The invariant holds of empty tables and idle workers.
LEMMA InvInit == PipeInit => Inv
<1> SUFFICES ASSUME PipeInit PROVE Inv
  OBVIOUS
<1>1. TablesOK
  <2>1. NoItem \in ItemRows /\ NoMeter \in MeterRows
    BY EventsAssumption, PipelineAssumption DEF NoItem, NoMeter, ItemRows, MeterRows
  <2> QED
    BY <2>1 DEF PipeInit, Init, TablesOK
<1>2. WorkersOK
  BY DEF PipeInit, WorkersOK, Statements, Tasks, NoTask, NoDraft
<1>3. LocksExclusive
  BY DEF PipeInit, LocksExclusive
<1>4. \A w \in Workers : Known(w)
  BY DEF PipeInit, Known
<1>5. \A w \in Workers : Drafted(w)
  BY DEF PipeInit, NoDraft, Drafted, ItemDrafted, StatsDrafted, ActivityDrafted, MeterDrafted
<1> QED
  BY <1>1, <1>2, <1>3, <1>4, <1>5 DEF Inv

\* Every step keeps the invariant, and is a fold, an ingestion or no step of
\* Aggregates.
LEMMA InvNext == Inv /\ [PipeNext]_pipeVars => Inv' /\ [Next]_vars
<1> SUFFICES ASSUME Inv, [PipeNext]_pipeVars
             PROVE  Inv' /\ [Next]_vars
  OBVIOUS
<1>s. UNCHANGED tables => UNCHANGED vars
  BY DEF tables, vars
<1>1. ASSUME NEW w \in Workers, Take(w)
      PROVE  Inv' /\ [Next]_vars
  BY <1>1, <1>s, TakeStep DEF Take
<1>2. ASSUME NEW w \in Workers, FindNamespace(w)
      PROVE  Inv' /\ [Next]_vars
  BY <1>2, <1>s, FindNamespaceStep DEF FindNamespace
<1>3. ASSUME NEW w \in Workers, Identify(w)
      PROVE  Inv' /\ [Next]_vars
  BY <1>3, <1>s, IdentifyStep DEF Identify
<1>4. ASSUME NEW w \in Workers, Profile(w)
      PROVE  Inv' /\ [Next]_vars
  BY <1>4, <1>s, ProfileStep DEF Profile
<1>5. ASSUME NEW w \in Workers, Join(w)
      PROVE  Inv' /\ [Next]_vars
  BY <1>5, <1>s, JoinStep DEF Join
<1>6. ASSUME NEW w \in Workers, Stats(w)
      PROVE  Inv' /\ [Next]_vars
  BY <1>6, <1>s, StatsStep DEF Stats
<1>7. ASSUME NEW w \in Workers, Activity(w)
      PROVE  Inv' /\ [Next]_vars
  BY <1>7, <1>s, ActivityStep DEF Activity
<1>8. ASSUME NEW w \in Workers, Meter(w)
      PROVE  Inv' /\ [Next]_vars
  BY <1>8, <1>s, MeterStep DEF Meter
<1>9. ASSUME NEW w \in Workers, Commit(w)
      PROVE  Inv' /\ [Next]_vars
  <2>1. \E e \in Events, user \in Users \cup {None}, reason \in Reasons \cup {None} :
            Fold(e, user, reason)
    BY <1>9, CommitFolds
  <2> QED
    BY <1>9, <2>1, CommitStep DEF Next
<1>10. ASSUME NEW w \in Workers, Crash(w)
       PROVE  Inv' /\ [Next]_vars
  BY <1>10, <1>s, CrashStep DEF Crash
<1>11. ASSUME NEW e \in Events, IngestEvent(e)
       PROVE  Inv' /\ [Next]_vars
  BY <1>11, IngestStep DEF IngestEvent, Next
<1>12. CASE \/ \E r \in RosterItems : UpsertRoster(r)
            \/ \E u \in Users : BlockUser(u)
            \/ \E n \in Namespaces : DeclareNamespace(n)
            \/ UNCHANGED pipeVars
  <2>1. namespace \in Namespaces \cup {None}
    BY DEF Inv, WorkersOK
  <2>2. (Change \/ UNCHANGED pipeVars) /\ namespace' \in Namespaces \cup {None}
    BY <1>12, <2>1 DEF UpsertRoster, BlockUser, DeclareNamespace, pipeVars, roster
  <2> QED
    BY <2>2, <1>s, RosterStep
<1> QED
  BY <1>1, <1>2, <1>3, <1>4, <1>5, <1>6, <1>7, <1>8, <1>9, <1>10, <1>11, <1>12 DEF PipeNext, Step

\* The statements, waits and deaths of any number of workers implement the
\* atomic folding of Aggregates: an event is folded exactly when its row is
\* marked, no update of a shared row is lost, and a dead worker leaves no trace.
THEOREM Refinement == PipeSpec => ImplementsAggregates
<1>1. PipeInit => Init
  BY DEF PipeInit
<1> QED
  BY <1>1, InvInit, InvNext, PTL DEF PipeSpec, ImplementsAggregates, Spec

\* So the tables that the workers keep are exact at every moment, whichever of
\* them wait, die or start again: no increment is lost and none is made twice.
THEOREM WorkersExact == PipeSpec => [](StatsExact /\ ActivityExact /\ CountersExact /\ ItemsExact)
<1>1. PipeSpec => Spec
  BY Refinement DEF ImplementsAggregates
<1> QED
  BY <1>1, StatsTrue, ActivityTrue, CountersTrue, ItemsTrue, PTL

-------------------------------------------------------------------------------
(* Workers that wait for each other *)

\* The row that a worker's next statement has to lock.
Wants(w, x) ==
    LET t == task[w] IN
    \/ pc[w] = "join" /\ ItemOf(t.event) # None /\ x = <<"item", ItemOf(t.event)>>
    \/ pc[w] = "stats" /\ x = <<"stats", StatsKey(t.event)>>
    \/ /\ pc[w] = "activity" /\ CountsActivity(t.event, t.user, t.reason)
       /\ x = <<"activity", ActivityKey(t.event, t.user)>>
    \/ pc[w] = "meter" /\ t.event.type = "cost_meter" /\ x = <<"meter", MeterKey(t.event)>>

\* PostgreSQL makes the statement of w wait for the transaction of v.
WaitsFor(w, v) == v # w /\ \E x \in held[v] : Wants(w, x)

\* Among any workers there is one that waits for none of the others: two
\* transactions that fold events of the same work item, deployment, user and
\* meter never wait for each other, and neither do more of them in a circle.
NoCircularWait ==
    \A S \in SUBSET Workers : S # {} => \E w \in S : \A v \in S : ~WaitsFor(w, v)

\* The rows are locked in the order of the statements: which statements a worker
\* with locks L may be at.
InOrder(s, L) ==
    \A x \in L :
        /\ x[1] = "item" => s \in {"stats", "activity", "meter", "commit"}
        /\ x[1] = "stats" => s \in {"activity", "meter", "commit"}
        /\ x[1] = "activity" => s \in {"meter", "commit"}
        /\ x[1] = "meter" => s = "commit"

LocksInOrder == \A w \in Workers : InOrder(pc[w], held[w])

OrderInv == Inv /\ LocksInOrder

\* A step of one worker, given what it does to that worker's locks.
LEMMA OrderKept ==
    ASSUME LocksInOrder, NEW w \in Workers,
           \A v \in Workers \ {w} : pc'[v] = pc[v] /\ held'[v] = held[v],
           InOrder(pc'[w], held'[w])
    PROVE  LocksInOrder'
<1> SUFFICES ASSUME NEW v \in Workers
             PROVE  InOrder(pc'[v], held'[v])
  BY DEF LocksInOrder
<1>1. InOrder(pc[v], held[v])
  BY DEF LocksInOrder
<1> QED
  BY <1>1

\* The statements of a worker only add the row of their own kind.
LEMMA StepInOrder ==
    ASSUME OrderInv, NEW w \in Workers, Step(w) \/ Crash(w)
    PROVE  LocksInOrder'
<1>t. /\ pc \in [Workers -> Statements] /\ held = [v \in Workers |-> held[v]]
      /\ LocksInOrder /\ InOrder(pc[w], held[w])
  BY DEF OrderInv, Inv, WorkersOK, LocksInOrder
<1>g. \A s : Goto(w, s) => pc'[w] = s /\ \A v \in Workers \ {w} : pc'[v] = pc[v]
  BY <1>t DEF Goto
<1>w. \A x, f, y : Write(w, x, f, y) =>
          held'[w] = held[w] \cup {x} /\ \A v \in Workers \ {w} : held'[v] = held[v]
  BY <1>t DEF Write
<1>e. End(w) => LocksInOrder'
  <2>1. End(w) => /\ held'[w] = {}
                  /\ \A v \in Workers \ {w} : pc'[v] = pc[v] /\ held'[v] = held[v]
    BY <1>t DEF End
  <2>2. InOrder(pc'[w], {})
    BY DEF InOrder
  <2> QED
    BY <1>t, <2>1, <2>2, OrderKept
<1>1. CASE Take(w)
  <2>1. PICK e \in Events : /\ held' = [held EXCEPT ![w] = {<<"event", e>>}]
                            /\ Goto(w, IF e.who = None THEN "join" ELSE "namespace")
    BY <1>1 DEF Take, Lockable
  <2>2. held'[w] = {<<"event", e>>} /\ \A v \in Workers \ {w} : pc'[v] = pc[v] /\ held'[v] = held[v]
    BY <1>t, <1>g, <2>1
  <2>3. InOrder(pc'[w], {<<"event", e>>})
    BY DEF InOrder
  <2> QED
    BY <1>t, <2>2, <2>3, OrderKept
<1>2. CASE FindNamespace(w) \/ Identify(w) \/ Profile(w)
  <2>1. held' = held /\ pc[w] \in {"namespace", "identify", "profile"} /\ \E s : Goto(w, s)
    BY <1>2 DEF FindNamespace, Identify, Profile
  <2>2. InOrder(pc'[w], held'[w])
    BY <1>t, <2>1 DEF InOrder
  <2> QED
    BY <1>t, <1>g, <2>1, <2>2, OrderKept
<1>3. CASE Join(w)
  <2>1. /\ pc[w] = "join" /\ Goto(w, "stats")
        /\ held' = held \/ \E i, y : Write(w, <<"item", i>>, "item", y)
    BY <1>3 DEF Join
  <2>2. \A i : InOrder("stats", held[w] \cup {<<"item", i>>}) /\ InOrder("stats", held[w])
    BY <1>t, <2>1 DEF InOrder
  <2>3. \A v \in Workers \ {w} : pc'[v] = pc[v] /\ held'[v] = held[v]
    BY <1>g, <1>w, <2>1
  <2>4. pc'[w] = "stats"
    BY <1>g, <2>1
  <2>5. held'[w] = held[w] \/ \E i : held'[w] = held[w] \cup {<<"item", i>>}
    BY <1>w, <2>1
  <2>6. InOrder(pc'[w], held'[w])
    BY <2>2, <2>4, <2>5
  <2> QED
    BY <1>t, <2>3, <2>6, OrderKept
<1>4. CASE Stats(w)
  <2>1. /\ pc[w] = "stats" /\ Goto(w, "activity")
        /\ \E i, y : Write(w, <<"stats", i>>, "stats", y)
    BY <1>4 DEF Stats
  <2>2. \A i : InOrder("activity", held[w] \cup {<<"stats", i>>})
    BY <1>t, <2>1 DEF InOrder
  <2>3. \A v \in Workers \ {w} : pc'[v] = pc[v] /\ held'[v] = held[v]
    BY <1>g, <1>w, <2>1
  <2>4. pc'[w] = "activity"
    BY <1>g, <2>1
  <2>5. \E i : held'[w] = held[w] \cup {<<"stats", i>>}
    BY <1>w, <2>1
  <2>6. InOrder(pc'[w], held'[w])
    BY <2>2, <2>4, <2>5
  <2> QED
    BY <1>t, <2>3, <2>6, OrderKept
<1>5. CASE Activity(w)
  <2>1. /\ pc[w] = "activity" /\ Goto(w, "meter")
        /\ held' = held \/ \E i, y : Write(w, <<"activity", i>>, "activity", y)
    BY <1>5 DEF Activity
  <2>2. \A i : InOrder("meter", held[w] \cup {<<"activity", i>>}) /\ InOrder("meter", held[w])
    BY <1>t, <2>1 DEF InOrder
  <2>3. \A v \in Workers \ {w} : pc'[v] = pc[v] /\ held'[v] = held[v]
    BY <1>g, <1>w, <2>1
  <2>4. pc'[w] = "meter"
    BY <1>g, <2>1
  <2>5. held'[w] = held[w] \/ \E i : held'[w] = held[w] \cup {<<"activity", i>>}
    BY <1>w, <2>1
  <2>6. InOrder(pc'[w], held'[w])
    BY <2>2, <2>4, <2>5
  <2> QED
    BY <1>t, <2>3, <2>6, OrderKept
<1>6. CASE Meter(w)
  <2>1. CASE End(w)
    BY <1>e, <2>1
  <2>2. CASE /\ Goto(w, "commit")
             /\ held' = held \/ \E i, y : Write(w, <<"meter", i>>, "meter", y)
    <3>1. \A i : InOrder("commit", held[w] \cup {<<"meter", i>>}) /\ InOrder("commit", held[w])
      BY <1>t DEF InOrder
    <3>2. \A v \in Workers \ {w} : pc'[v] = pc[v] /\ held'[v] = held[v]
      BY <1>g, <1>w, <2>2
    <3>3. pc'[w] = "commit"
      BY <1>g, <2>2
    <3>4. held'[w] = held[w] \/ \E i : held'[w] = held[w] \cup {<<"meter", i>>}
      BY <1>w, <2>2
    <3>5. InOrder(pc'[w], held'[w])
      BY <3>1, <3>3, <3>4
    <3> QED
      BY <1>t, <3>2, <3>5, OrderKept
  <2> QED
    BY <1>6, <2>1, <2>2 DEF Meter
<1>7. CASE Commit(w) \/ Crash(w)
  BY <1>7, <1>e DEF Commit, Crash
<1> QED
  BY <1>1, <1>2, <1>3, <1>4, <1>5, <1>6, <1>7 DEF Step

\* Nobody else touches the workers' locks.
LEMMA OrderNext == OrderInv /\ [PipeNext]_pipeVars => OrderInv'
<1> SUFFICES ASSUME OrderInv, [PipeNext]_pipeVars
             PROVE  OrderInv'
  OBVIOUS
<1>1. Inv'
  BY InvNext DEF OrderInv
<1>2. ASSUME NEW w \in Workers, Step(w) \/ Crash(w)
      PROVE  LocksInOrder'
  BY <1>2, StepInOrder
<1>3. ASSUME UNCHANGED <<pc, held>>
      PROVE  LocksInOrder'
  BY <1>3 DEF OrderInv, LocksInOrder
<1>4. LocksInOrder'
  BY <1>2, <1>3 DEF PipeNext, IngestEvent, UpsertRoster, BlockUser, DeclareNamespace, Change, pipeVars
<1> QED
  BY <1>1, <1>4 DEF OrderInv

\* How many statements a worker has left, counted from the first that locks a
\* row others may hold.
Left(s) ==
    CASE s = "commit" -> 1 [] s = "meter" -> 2 [] s = "activity" -> 3 [] s = "stats" -> 4
      [] OTHER -> 5

\* A worker waits only for workers that have fewer statements left.
LEMMA WaitsForLater ==
    ASSUME OrderInv, NEW w \in Workers, NEW v \in Workers, WaitsFor(w, v)
    PROVE  Left(pc[v]) < Left(pc[w])
<1>1. PICK x \in held[v] : Wants(w, x)
  BY DEF WaitsFor
<1>2. /\ x[1] = "item" => pc[v] \in {"stats", "activity", "meter", "commit"}
      /\ x[1] = "stats" => pc[v] \in {"activity", "meter", "commit"}
      /\ x[1] = "activity" => pc[v] \in {"meter", "commit"}
      /\ x[1] = "meter" => pc[v] = "commit"
  BY DEF OrderInv, LocksInOrder, InOrder
<1>3. \/ pc[w] = "join" /\ x[1] = "item"
      \/ pc[w] = "stats" /\ x[1] = "stats"
      \/ pc[w] = "activity" /\ x[1] = "activity"
      \/ pc[w] = "meter" /\ x[1] = "meter"
  BY <1>1 DEF Wants
<1> QED
  BY <1>2, <1>3 DEF Left

\* No deadlock among any number of workers, whatever rows their events share:
\* the upserts of pipeline.py lock the tables in one order, and one row of each.
THEOREM NoDeadlock == PipeSpec => []NoCircularWait
<1>1. PipeInit => OrderInv
  BY InvInit DEF PipeInit, OrderInv, LocksInOrder, InOrder
<1>2. OrderInv => NoCircularWait
  <2> SUFFICES ASSUME OrderInv, NEW S \in SUBSET Workers, S # {}
               PROVE  \E w \in S : \A v \in S : ~WaitsFor(w, v)
    BY DEF NoCircularWait
  <2> DEFINE N == {Left(pc[w]) : w \in S}
  <2>1. N \subseteq 1..5 /\ N # {}
    BY DEF Left
  <2>2. PICK n \in N : \A m \in N : n <= m
    <3> HIDE DEF N
    <3>1. \A m \in N : m = 1 \/ m = 2 \/ m = 3 \/ m = 4 \/ m = 5
      BY <2>1
    <3>2. 1 \in N \/ 2 \in N \/ 3 \in N \/ 4 \in N \/ 5 \in N
      BY <2>1, <3>1
    <3>3. CASE 1 \in N
      BY <3>1, <3>3
    <3>4. CASE 1 \notin N /\ 2 \in N
      BY <3>1, <3>4
    <3>5. CASE 1 \notin N /\ 2 \notin N /\ 3 \in N
      BY <3>1, <3>5
    <3>6. CASE 1 \notin N /\ 2 \notin N /\ 3 \notin N
      BY <3>1, <3>2, <3>6
    <3> QED
      BY <3>3, <3>4, <3>5, <3>6
  <2>3. PICK w \in S : n = Left(pc[w])
    OBVIOUS
  <2>4. \A v \in S : Left(pc[v]) \in Nat /\ Left(pc[w]) <= Left(pc[v])
    BY <2>1, <2>2, <2>3
  <2>5. ASSUME NEW v \in S, WaitsFor(w, v)
        PROVE  FALSE
    <3>1. Left(pc[v]) < Left(pc[w])
      BY <2>5, WaitsForLater
    <3> QED
      BY <2>3, <2>4, <3>1
  <2> QED
    BY <2>5
<1> QED
  BY <1>1, <1>2, OrderNext, PTL DEF PipeSpec
===============================================================================
