---------------------------- MODULE Admission_proofs ----------------------------
(***************************************************************************)
(* What admission guarantees for every set of keys, processes and requests *)
(* in flight, every rate and quota, and every bound.                       *)
(***************************************************************************)
EXTENDS Admission, FiniteSetTheorems, SequenceTheorems, TLAPS

Steps == {"idle", "key", "grants", "principal", "rate", "quota", "store"}

Requests == [pc : Steps, key : Keys \cup {None}, batch : Batches \cup {<<>>}, pos : Nat \ {0},
             granted : SUBSET Deployments, rpm : Nat, sent : 0..MaxMonths, checked : 0..MaxMonths,
             late : BOOLEAN]

Months == 0..MaxMonths + 1

TypeOK ==
    /\ status \in [Keys -> {"absent", "active", "revoked"}]
    /\ grants \in [Keys -> SUBSET Deployments]
    /\ rpm \in Nat /\ quota \in Nat
    /\ top \in [rpm : Nat, quota : Nat]
    /\ hits \in [Procs -> [window : Nat, count : Nat]]
    /\ used \in [Months -> Nat]
    /\ counted \in [Months -> Nat]
    /\ writes \subseteq Keys \X Deployments \X BOOLEAN
    /\ req \in [Slots -> Requests]
    /\ now \in Nat /\ month \in 1..MaxMonths
    /\ admitted \in Nat /\ restarts \in Nat
    /\ edits \in Nat /\ requests \in Nat

\* A request that is served has a key, and a batch with an event that comes next.
InFlight ==
    \A s \in Slots : req[s].pc # "idle" =>
        /\ req[s].key \in Keys
        /\ req[s].batch \in Batches
        /\ req[s].pos \in 1..Len(req[s].batch)
        /\ req[s].sent \in 1..MaxMonths

Base == TypeOK /\ InFlight

-------------------------------------------------------------------------------
(* Types *)

\* The numbers among the constants.
LEMMA Numbers ==
    /\ WindowLength \in Nat \ {0}
    /\ DefaultRate \in Nat /\ InitialQuota \in Nat
    /\ \A r \in Rates : r \in Nat
    /\ \A q \in Quotas : q \in Nat
    /\ MaxMonths \in Nat \ {0}
  BY AdmissionAssumption

\* An idle slot is well typed.
LEMMA IdleType == Idle \in Requests
  BY Numbers DEF Idle, Requests, Steps

\* The window of a second, counted from the start.
LEMMA WindowType ==
    ASSUME NEW t \in Nat
    PROVE  Window(t) \in Nat
  BY Numbers DEF Window

\* What is known of the batches.
LEMMA BatchType ==
    ASSUME NEW b \in Batches
    PROVE  /\ Len(b) \in Nat \ {0}
           /\ \A n \in 1..Len(b) : b[n].dep \in Deployments /\ b[n].month \in {-1, 0, 1}
<1> DEFINE Event == [dep : Deployments, month : {-1, 0, 1}]
<1>1. b \in Seq(Event) /\ b # <<>>
  BY AdmissionAssumption
<1>2. \A e \in Event : e.dep \in Deployments /\ e.month \in {-1, 0, 1}
  OBVIOUS
<1> HIDE DEF Event
<1>3. Len(b) \in Nat /\ Len(b) # 0
  BY <1>1, EmptySeq
<1>4. \A n \in 1..Len(b) : b[n] \in Event
  BY <1>1
<1> QED
  BY <1>2, <1>3, <1>4

\* What is known of a request that is served.
LEMMA Served ==
    ASSUME Base, NEW s \in Slots, req[s].pc # "idle"
    PROVE  /\ req[s] \in Requests
           /\ req[s].key \in Keys
           /\ req[s].batch \in Batches
           /\ Len(req[s].batch) \in Nat
           /\ req[s].pos \in 1..Len(req[s].batch)
           /\ req[s].batch[req[s].pos].dep \in Deployments
           /\ req[s].sent + req[s].batch[req[s].pos].month \in Months
<1>1. /\ req[s] \in Requests
      /\ req[s].key \in Keys
      /\ req[s].batch \in Batches
      /\ req[s].pos \in 1..Len(req[s].batch)
      /\ req[s].sent \in 1..MaxMonths
  BY DEF Base, TypeOK, InFlight
<1>2. Len(req[s].batch) \in Nat
  BY <1>1, BatchType
<1>3. /\ req[s].batch[req[s].pos].dep \in Deployments
      /\ req[s].batch[req[s].pos].month \in {-1, 0, 1}
  BY <1>1, BatchType
<1>4. req[s].sent + req[s].batch[req[s].pos].month \in Months
  <2>1. ASSUME NEW a \in 1..MaxMonths, NEW x \in {-1, 0, 1}
        PROVE  a + x \in 0..MaxMonths + 1
    BY Numbers
  <2> QED
    BY <1>1, <1>3, <2>1 DEF Months
<1> QED
  BY <1>1, <1>2, <1>3, <1>4

\* The counters have an entry for the current month.
LEMMA MonthType ==
    ASSUME TypeOK
    PROVE  month \in Months /\ month \in 0..MaxMonths
  BY Numbers DEF TypeOK, Months

\* The initial state is well typed.
LEMMA BaseInit == Init => Base
<1> SUFFICES ASSUME Init PROVE Base
  OBVIOUS
<1>1. \A s \in Slots : req[s] = Idle
  BY DEF Init
<1>2. InFlight
  BY <1>1 DEF InFlight, Idle
<1>3. status \in [Keys -> {"absent", "active", "revoked"}] /\ grants \in [Keys -> SUBSET Deployments]
  BY AdmissionAssumption DEF Init
<1>4. req \in [Slots -> Requests]
  BY IdleType DEF Init
<1>5. /\ rpm \in Nat /\ quota \in Nat /\ top \in [rpm : Nat, quota : Nat]
      /\ hits \in [Procs -> [window : Nat, count : Nat]]
      /\ used \in [Months -> Nat] /\ counted \in [Months -> Nat]
      /\ writes = {}
      /\ now \in Nat /\ month \in 1..MaxMonths
      /\ admitted \in Nat /\ restarts \in Nat /\ edits \in Nat /\ requests \in Nat
  BY AdmissionAssumption DEF Init, Months
<1> QED
  BY <1>2, <1>3, <1>4, <1>5 DEF Base, TypeOK

\* Everything that operators, the clock and imports do leaves the requests alone.
LEMMA OperateQuiet ==
    ASSUME Operate \/ Tick
    PROVE  UNCHANGED <<req, hits, counted, writes, requests, restarts>>
  BY DEF Operate, Tick, key_issue, key_revoke, grant_add, limits_set, plan_set, Import, Edit,
         store, limiter, clock, admin

\* A request that takes a step becomes one that is well typed and in flight, or idle.
LEMMA ReplaceRequest ==
    ASSUME Base, NEW s \in Slots, NEW r \in Requests, req' = [req EXCEPT ![s] = r],
           r.pc # "idle" => /\ r.key \in Keys /\ r.batch \in Batches
                            /\ r.pos \in 1..Len(r.batch) /\ r.sent \in 1..MaxMonths
    PROVE  req' \in [Slots -> Requests] /\ InFlight'
  BY DEF Base, TypeOK, InFlight

\* The request that a step of the handler leaves in its slot.
LEMMA HandleRequest ==
    ASSUME Base, NEW s \in Slots, Handle(s)
    PROVE  \E r \in Requests :
              /\ req' = [req EXCEPT ![s] = r]
              /\ r.pc # "idle" => /\ r.key = req[s].key /\ r.batch = req[s].batch
                                  /\ r.pos \in 1..Len(r.batch) /\ r.sent = req[s].sent
                                  /\ r.late = req[s].late /\ r.pc # "key"
                                  /\ r.granted \in {req[s].granted, grants[req[s].key]}
  <1>t. req \in [Slots -> Requests]
    BY DEF Base, TypeOK
  <1>p. req[s].pc # "idle"
    BY DEF Handle, ResolveKey, ReadGrants, ReadRate, CheckRate, CheckQuota, Store
  <1>s. /\ req[s].key \in Keys /\ req[s].batch \in Batches
        /\ Len(req[s].batch) \in Nat /\ req[s].pos \in 1..Len(req[s].batch)
    BY <1>p, Served
  <1>f. ASSUME Finish(s)
        PROVE  \E r \in Requests : /\ req' = [req EXCEPT ![s] = r] /\ r.pc = "idle"
    BY <1>f, IdleType DEF Finish, Idle
  <1>g. ASSUME NEW step \in Steps, Goto(s, step)
        PROVE  \E r \in Requests :
                  /\ req' = [req EXCEPT ![s] = r]
                  /\ r = [req[s] EXCEPT !.pc = step]
    <2>1. [req[s] EXCEPT !.pc = step] \in Requests
      BY <1>t DEF Requests
    <2> QED
      BY <1>g, <1>t, <2>1 DEF Goto
  <1>1. CASE ResolveKey(s)
    <2>1. CASE Finish(s)
      BY <2>1, <1>f
    <2>2. ASSUME NEW step \in {"grants", "principal"}, Goto(s, step)
          PROVE  \E r \in Requests : /\ req' = [req EXCEPT ![s] = r]
                                     /\ r = [req[s] EXCEPT !.pc = step]
      BY <2>2, <1>g DEF Steps
    <2> QED
      BY <1>1, <1>s, <1>t, <2>1, <2>2 DEF ResolveKey, Requests
  <1>2. CASE ReadGrants(s)
    <2>1. grants[req[s].key] \in SUBSET Deployments
      BY <1>s DEF Base, TypeOK
    <2> DEFINE r == [req[s] EXCEPT !.pc = "principal", !.granted = grants[req[s].key]]
    <2>2. r \in Requests
      BY <2>1, <1>t DEF Requests, Steps
    <2>3. req' = [req EXCEPT ![s] = r]
      BY <1>2, <1>t DEF ReadGrants
    <2> QED
      BY <2>2, <2>3, <1>s, <1>t DEF Requests
  <1>3. CASE ReadRate(s)
    <2> DEFINE r == [req[s] EXCEPT !.pc = "rate", !.rpm = rpm]
    <2>2. r \in Requests
      BY <1>t DEF Requests, Steps, Base, TypeOK
    <2>3. req' = [req EXCEPT ![s] = r]
      BY <1>3, <1>t DEF ReadRate
    <2> QED
      BY <2>2, <2>3, <1>s, <1>t DEF Requests
  <1>4. CASE CheckRate(s)
    <2>1. CASE Finish(s)
      BY <2>1, <1>f
    <2>2. CASE Goto(s, "quota")
      <3>1. \E r \in Requests : /\ req' = [req EXCEPT ![s] = r]
                                /\ r = [req[s] EXCEPT !.pc = "quota"]
        BY <2>2, <1>g DEF Steps
      <3> QED
        BY <3>1, <1>s, <1>t DEF Requests
    <2> QED
      BY <1>4, <2>1, <2>2 DEF CheckRate
  <1>5. CASE CheckQuota(s)
    <2>1. CASE Finish(s)
      BY <2>1, <1>f
    <2>2. CASE req' = [req EXCEPT ![s].pc = "store", ![s].checked = month]
      <3> DEFINE r == [req[s] EXCEPT !.pc = "store", !.checked = month]
      <3>1. month \in 0..MaxMonths
        BY Numbers DEF Base, TypeOK
      <3>2. r \in Requests
        BY <3>1, <1>t DEF Requests, Steps
      <3>3. req' = [req EXCEPT ![s] = r]
        BY <2>2, <1>t
      <3> QED
        BY <3>2, <3>3, <1>s, <1>t DEF Requests
    <2> QED
      BY <1>5, <2>1, <2>2 DEF CheckQuota
  <1>6. CASE Store(s)
    <2>1. CASE Finish(s)
      BY <2>1, <1>f
    <2>2. CASE req[s].pos # Len(req[s].batch) /\ req' = [req EXCEPT ![s].pos = @ + 1]
      <3> DEFINE r == [req[s] EXCEPT !.pos = @ + 1]
      <3>1. req[s].pos + 1 \in 1..Len(req[s].batch) /\ req[s].pos + 1 \in Nat \ {0}
        BY <2>2, <1>s
      <3>2. r \in Requests
        BY <3>1, <1>t DEF Requests
      <3>3. req' = [req EXCEPT ![s] = r]
        BY <2>2, <1>t
      <3>4. r.pc = "store"
        BY <1>6, <1>t DEF Store, Requests
      <3> QED
        BY <3>1, <3>2, <3>3, <3>4, <1>s, <1>t DEF Requests
    <2> QED
      BY <1>6, <2>1, <2>2 DEF Store
  <1> QED
    BY <1>1, <1>2, <1>3, <1>4, <1>5, <1>6 DEF Handle

\* Every step leaves requests that are well typed, in flight or idle.
LEMMA RequestsNext == Base /\ [Next]_vars => req' \in [Slots -> Requests] /\ InFlight'
<1> SUFFICES ASSUME Base, [Next]_vars
             PROVE  req' \in [Slots -> Requests] /\ InFlight'
  OBVIOUS
<1>t. req \in [Slots -> Requests] /\ InFlight
  BY DEF Base, TypeOK
<1>1. ASSUME NEW s \in Slots, NEW k \in Keys, NEW b \in Batches, Arrive(s, k, b)
      PROVE  req' \in [Slots -> Requests] /\ InFlight'
  <2> DEFINE r == [Idle EXCEPT !.pc = "key", !.key = k, !.batch = b, !.sent = month,
                               !.late = status[k] = "revoked"]
  <2>1. month \in 0..MaxMonths /\ month \in 1..MaxMonths
    BY Numbers DEF Base, TypeOK
  <2>2. r \in Requests
    BY <2>1, IdleType DEF Requests, Steps
  <2>3. req' = [req EXCEPT ![s] = r]
    BY <1>1 DEF Arrive
  <2>4. r.key \in Keys /\ r.batch \in Batches /\ r.sent \in 1..MaxMonths /\ r.pos = 1 /\ r.batch = b
    BY <2>1 DEF Idle
  <2>5. 1 \in 1..Len(b)
    BY BatchType
  <2> HIDE DEF r
  <2> QED
    BY <2>2, <2>3, <2>4, <2>5, ReplaceRequest
<1>2. ASSUME NEW s \in Slots, Handle(s)
      PROVE  req' \in [Slots -> Requests] /\ InFlight'
  <2>1. PICK r \in Requests :
              /\ req' = [req EXCEPT ![s] = r]
              /\ r.pc # "idle" => /\ r.key = req[s].key /\ r.batch = req[s].batch
                                  /\ r.pos \in 1..Len(r.batch) /\ r.sent = req[s].sent
    BY <1>2, HandleRequest
  <2>2. req[s].pc # "idle"
    BY <1>2 DEF Handle, ResolveKey, ReadGrants, ReadRate, CheckRate, CheckQuota, Store
  <2>3. r.pc # "idle" => r.key \in Keys /\ r.batch \in Batches /\ r.sent \in 1..MaxMonths
    BY <2>1, <2>2, <1>t DEF InFlight
  <2> QED
    BY <2>1, <2>3, ReplaceRequest
<1>3. CASE Operate \/ Tick
  BY <1>3, <1>t, OperateQuiet DEF InFlight
<1>4. ASSUME NEW p \in Procs, Restart(p)
      PROVE  req' \in [Slots -> Requests] /\ InFlight'
  <2>1. \A s \in Slots : req'[s] = Idle \/ req'[s] = req[s]
    BY <1>4 DEF Restart
  <2>2. req' \in [Slots -> Requests]
    BY <1>4, <1>t, IdleType DEF Restart
  <2>3. Idle.pc = "idle"
    BY DEF Idle
  <2> QED
    BY <2>1, <2>2, <2>3, <1>t DEF InFlight
<1>5. CASE UNCHANGED vars
  BY <1>5, <1>t DEF vars, InFlight
<1> QED
  BY <1>1, <1>2, <1>3, <1>4, <1>5 DEF Next

\* Every step keeps the types.
LEMMA BaseNext == Base /\ [Next]_vars => Base'
<1> SUFFICES ASSUME Base, [Next]_vars
             PROVE  Base'
  OBVIOUS
<1>t. TypeOK
  BY DEF Base
<1>r. req' \in [Slots -> Requests] /\ InFlight'
  BY RequestsNext
<1> SUFFICES TypeOK'
  BY <1>r DEF Base
<1> USE DEF admin, store, limiter, clock
<1>1. ASSUME NEW s \in Slots, NEW k \in Keys, NEW b \in Batches, Arrive(s, k, b)
      PROVE  TypeOK'
  BY <1>1, <1>t, <1>r DEF Arrive, TypeOK
<1>2. ASSUME NEW s \in Slots, ResolveKey(s) \/ ReadGrants(s) \/ ReadRate(s) \/ CheckQuota(s)
      PROVE  TypeOK'
  BY <1>2, <1>t, <1>r DEF ResolveKey, ReadGrants, ReadRate, CheckQuota, TypeOK
<1>3. ASSUME NEW s \in Slots, CheckRate(s)
      PROVE  TypeOK'
  <2>1. ProcOf[s] \in Procs
    BY AdmissionAssumption
  <2>2. Window(now) \in Nat /\ Count(ProcOf[s]) \in Nat
    BY <1>t, <2>1, WindowType DEF Count, TypeOK
  <2>3. hits' \in [Procs -> [window : Nat, count : Nat]]
    BY <1>3, <1>t, <2>2 DEF CheckRate, TypeOK
  <2>4. admitted' \in Nat
    BY <1>3, <1>t DEF CheckRate, TypeOK
  <2> QED
    BY <1>3, <1>t, <1>r, <2>3, <2>4 DEF CheckRate, TypeOK
<1>4. ASSUME NEW s \in Slots, Store(s)
      PROVE  TypeOK'
  <2>0. used \in [Months -> Nat] /\ counted \in [Months -> Nat]
    BY <1>t DEF TypeOK
  <2>1. req[s].sent + req[s].batch[req[s].pos].month \in Months
    BY <1>4, Served DEF Store
  <2>2. used' \in [Months -> Nat]
    BY <1>4, <2>0, <2>1 DEF Store
  <2>3. counted' \in [Months -> Nat]
    BY <1>4, <2>0, <2>1 DEF Store
  <2>4. <<req[s].key, req[s].batch[req[s].pos].dep, req[s].late>> \in Keys \X Deployments \X BOOLEAN
    <3>1. req[s].late \in BOOLEAN
      BY <1>t DEF TypeOK, Requests
    <3> QED
      BY <1>4, <3>1, Served DEF Store
  <2>5. writes' \subseteq Keys \X Deployments \X BOOLEAN
    BY <1>4, <1>t, <2>4 DEF Store, TypeOK
  <2> QED
    BY <1>4, <1>t, <1>r, <2>2, <2>3, <2>5 DEF Store, TypeOK
<1>5. CASE Operate
  <2>1. ASSUME NEW k \in Keys, key_issue(k) \/ key_revoke(k)
        PROVE  TypeOK'
    <3>1. k.deps \in SUBSET Deployments
      BY AdmissionAssumption
    <3> QED
      BY <2>1, <3>1, <1>t, <1>r DEF key_issue, key_revoke, Edit, TypeOK
  <2>2. ASSUME NEW k \in Keys, NEW d \in Deployments, grant_add(k, d)
        PROVE  TypeOK'
    BY <2>2, <1>t, <1>r DEF grant_add, Edit, TypeOK
  <2>3. ASSUME NEW r \in Rates, limits_set(r)
        PROVE  TypeOK'
    <3>1. r \in Nat
      BY Numbers
    <3> QED
      BY <2>3, <3>1, <1>t, <1>r DEF limits_set, Edit, TypeOK, Higher
  <2>4. ASSUME NEW q \in Quotas, plan_set(q)
        PROVE  TypeOK'
    <3>1. q \in Nat
      BY Numbers
    <3> QED
      BY <2>4, <3>1, <1>t, <1>r DEF plan_set, Edit, TypeOK, Higher
  <2>5. CASE Import
    <3>1. used' \in [Months -> Nat]
      BY <2>5, <1>t, MonthType DEF Import, TypeOK
    <3> QED
      BY <2>5, <3>1, <1>t, <1>r DEF Import, TypeOK
  <2> QED
    BY <1>5, <2>1, <2>2, <2>3, <2>4, <2>5 DEF Operate
<1>6. CASE Tick
  <2>1. month' \in 1..MaxMonths
    BY <1>6, <1>t, Numbers DEF Tick, TypeOK
  <2> QED
    BY <1>6, <1>t, <1>r, <2>1 DEF Tick, TypeOK
<1>7. ASSUME NEW p \in Procs, Restart(p)
      PROVE  TypeOK'
  BY <1>7, <1>t, <1>r DEF Restart, TypeOK
<1>8. CASE UNCHANGED vars
  BY <1>8, <1>t DEF vars, TypeOK
<1> QED
  BY <1>1, <1>2, <1>3, <1>4, <1>5, <1>6, <1>7, <1>8 DEF Next, Handle

\* Counters, limits, keys and requests stay well typed.
THEOREM Typed == Spec => []TypeOK
<1>1. Spec => []Base
  BY BaseInit, BaseNext, PTL DEF Spec
<1> QED
  BY <1>1, PTL DEF Base

-------------------------------------------------------------------------------
(* Authorization *)

\* resolve_key: a key serves the environment of its mode.
Serves(k) == k.mode = (IF Environment = "production" THEN "production" ELSE "test")

\* The key of a request that arrived late is revoked, so that it goes no further;
\* what require_principal has read of the grants is still granted.
Authenticated ==
    \A s \in Slots : req[s].pc # "idle" =>
        /\ req[s].late => status[req[s].key] = "revoked"
        /\ req[s].pc # "key" => ~req[s].late /\ Serves(req[s].key)
        /\ req[s].granted \subseteq grants[req[s].key]

\* A key that is not issued yet has no grants.
NoGrants == \A k \in Keys : status[k] = "absent" => grants[k] = {}

AuthInv == Base /\ NoGrants /\ Authenticated /\ AuthorizedOnly

\* Operators revoke keys for good and only add grants.
LEMMA KeysProgress ==
    ASSUME Base, NoGrants, [Next]_vars
    PROVE  /\ NoGrants'
           /\ \A k \in Keys : /\ grants[k] \subseteq grants'[k]
                              /\ status[k] = "revoked" => status'[k] = "revoked"
<1>t. status \in [Keys -> {"absent", "active", "revoked"}] /\ grants \in [Keys -> SUBSET Deployments]
  BY DEF Base, TypeOK
<1>1. ASSUME NEW k \in Keys, key_issue(k)
      PROVE  /\ NoGrants'
             /\ \A j \in Keys : /\ grants[j] \subseteq grants'[j]
                                /\ status[j] = "revoked" => status'[j] = "revoked"
  BY <1>1, <1>t DEF key_issue, NoGrants
<1>2. ASSUME NEW k \in Keys, key_revoke(k)
      PROVE  /\ NoGrants'
             /\ \A j \in Keys : /\ grants[j] \subseteq grants'[j]
                                /\ status[j] = "revoked" => status'[j] = "revoked"
  BY <1>2, <1>t DEF key_revoke, NoGrants
<1>3. ASSUME NEW k \in Keys, NEW d \in Deployments, grant_add(k, d)
      PROVE  /\ NoGrants'
             /\ \A j \in Keys : /\ grants[j] \subseteq grants'[j]
                                /\ status[j] = "revoked" => status'[j] = "revoked"
  BY <1>3, <1>t DEF grant_add, NoGrants
<1>4. CASE UNCHANGED <<status, grants>>
  BY <1>4, <1>t DEF NoGrants
<1> QED
  BY <1>1, <1>2, <1>3, <1>4 DEF Next, Operate, Arrive, Handle, ResolveKey, ReadGrants, ReadRate,
     CheckRate, CheckQuota, Store, limits_set, plan_set, Import, Tick, Restart, admin, vars

\* Every step keeps what is known of the requests in flight.
LEMMA AuthenticatedNext ==
    ASSUME Base, NoGrants, Authenticated, [Next]_vars
    PROVE  Authenticated'
<1>t. req \in [Slots -> Requests] /\ InFlight
  BY DEF Base, TypeOK
<1>k. \A k \in Keys : /\ grants[k] \subseteq grants'[k]
                      /\ status[k] = "revoked" => status'[k] = "revoked"
  BY KeysProgress
<1>o. ASSUME NEW t \in Slots, req'[t] = req[t], req'[t].pc # "idle"
      PROVE  /\ req'[t].late => status'[req'[t].key] = "revoked"
             /\ req'[t].pc # "key" => ~req'[t].late /\ Serves(req'[t].key)
             /\ req'[t].granted \subseteq grants'[req'[t].key]
  <2>1. req[t].key \in Keys
    BY <1>o, <1>t DEF InFlight
  <2>2. /\ req[t].late => status[req[t].key] = "revoked"
        /\ req[t].pc # "key" => ~req[t].late /\ Serves(req[t].key)
        /\ req[t].granted \subseteq grants[req[t].key]
    BY <1>o DEF Authenticated
  <2>3. grants[req[t].key] \subseteq grants'[req[t].key]
    BY <1>k, <2>1
  <2>4. status[req[t].key] = "revoked" => status'[req[t].key] = "revoked"
    BY <1>k, <2>1
  <2> QED
    BY <1>o, <2>2, <2>3, <2>4
<1>i. Idle.pc = "idle"
  BY DEF Idle
<1>1. ASSUME NEW s \in Slots, NEW k \in Keys, NEW b \in Batches, Arrive(s, k, b)
      PROVE  Authenticated'
  <2>1. /\ req'[s].key = k /\ req'[s].late = (status[k] = "revoked")
        /\ req'[s].pc = "key" /\ req'[s].granted = {}
        /\ UNCHANGED status
    BY <1>1, <1>t DEF Arrive, Idle, admin
  <2>2. \A t \in Slots \ {s} : req'[t] = req[t]
    BY <1>1, <1>t DEF Arrive
  <2> QED
    BY <2>1, <2>2, <1>o DEF Authenticated
<1>2. ASSUME NEW s \in Slots, Handle(s)
      PROVE  Authenticated'
  <2>1. \A t \in Slots \ {s} : req'[t] = req[t]
    BY <1>2, HandleRequest, <1>t
  <2>2. req[s].pc # "idle" /\ req[s].key \in Keys /\ UNCHANGED <<status, grants>>
    BY <1>2, <1>t DEF Handle, ResolveKey, ReadGrants, ReadRate, CheckRate, CheckQuota, Store,
       InFlight, admin
  <2>3. req'[s].pc # "idle" =>
            /\ req'[s].key = req[s].key /\ req'[s].late = req[s].late /\ req'[s].pc # "key"
            /\ req'[s].granted \in {req[s].granted, grants[req[s].key]}
    BY <1>2, HandleRequest, <1>t
  <2>4. req'[s].pc # "idle" => ~req[s].late /\ Serves(req[s].key)
    <3>1. CASE req[s].pc # "key"
      BY <3>1, <2>2 DEF Authenticated
    <3>2. CASE ResolveKey(s)
      <4>1. Finish(s) => req'[s].pc = "idle"
        BY <1>t, <1>i DEF Finish
      <4>2. ~Finish(s) => status[req[s].key] = "active" /\ Serves(req[s].key)
        BY <3>2 DEF ResolveKey, Serves
      <4> QED
        BY <4>1, <4>2, <2>2 DEF Authenticated
    <3> QED
      BY <1>2, <3>1, <3>2 DEF Handle, ReadGrants, ReadRate, CheckRate, CheckQuota, Store
  <2>5. req'[s].pc # "idle" => req'[s].granted \subseteq grants[req[s].key]
    BY <2>2, <2>3 DEF Authenticated
  <2> QED
    BY <2>1, <2>2, <2>3, <2>4, <2>5, <1>o DEF Authenticated
<1>3. CASE Operate \/ Tick
  BY <1>3, <1>o, OperateQuiet DEF Authenticated
<1>4. ASSUME NEW p \in Procs, Restart(p)
      PROVE  Authenticated'
  <2>1. \A s \in Slots : req'[s] = Idle \/ req'[s] = req[s]
    BY <1>4 DEF Restart
  <2> QED
    BY <2>1, <1>i, <1>o DEF Authenticated
<1>5. CASE UNCHANGED vars
  BY <1>5, <1>o DEF vars, Authenticated
<1> QED
  BY <1>1, <1>2, <1>3, <1>4, <1>5 DEF Next

\* Nothing is ever stored for a request that arrived after its key was revoked,
\* for a key of another mode, or in a deployment that a scoped key was not
\* granted: the checks of require_principal and require_deployment still hold
\* when the event is stored, however many steps later.
THEOREM Authorized == Spec => []AuthorizedOnly
<1>1. Init => AuthInv
  <2>1. ASSUME Init PROVE NoGrants /\ Authenticated /\ AuthorizedOnly
    <3>1. \A s \in Slots : req[s].pc = "idle"
      BY <2>1 DEF Init, Idle
    <3>2. NoGrants
      BY <2>1 DEF Init, NoGrants
    <3> QED
      BY <2>1, <3>1, <3>2 DEF Init, Authenticated, AuthorizedOnly
  <2> QED
    BY <2>1, BaseInit DEF AuthInv
<1>2. AuthInv /\ [Next]_vars => AuthInv'
  <2> SUFFICES ASSUME AuthInv, [Next]_vars
               PROVE  AuthInv'
    OBVIOUS
  <2>1. Base /\ NoGrants /\ Authenticated /\ AuthorizedOnly
    BY DEF AuthInv
  <2>2. Base' /\ NoGrants' /\ Authenticated'
    BY <2>1, BaseNext, KeysProgress, AuthenticatedNext
  <2>3. \A k \in Keys : /\ grants[k] \subseteq grants'[k]
                        /\ status[k] = "revoked" => status'[k] = "revoked"
    BY <2>1, KeysProgress
  <2>4. \A w \in writes : w[1] \in Keys
    BY <2>1 DEF Base, TypeOK
  <2>5. \A w \in writes : /\ ~w[3]
                          /\ w[1].mode = "production" /\ Environment = "production"
                          /\ w[1].scope = "deployment" => w[2] \in grants'[w[1]]
    BY <2>1, <2>3, <2>4 DEF AuthorizedOnly
  <2>6. ASSUME NEW s \in Slots, Store(s), writes' # writes
        PROVE  AuthorizedOnly'
    <3>1. /\ writes' = writes \cup {<<req[s].key, req[s].batch[req[s].pos].dep, req[s].late>>}
          /\ InScope(s, req[s].batch[req[s].pos].dep)
          /\ req[s].key.mode # "test"
          /\ req[s].pc = "store"
      BY <2>6 DEF Store, store
    <3>2. ~req[s].late /\ Serves(req[s].key) /\ req[s].granted \subseteq grants[req[s].key]
      BY <2>1, <3>1 DEF Authenticated
    <3>3. req[s].key \in Keys
      BY <2>1, <3>1, Served
    <3>4. req[s].key.mode = "production" /\ Environment = "production"
      BY <3>1, <3>2 DEF Serves
    <3> QED
      BY <2>3, <2>5, <3>1, <3>2, <3>3, <3>4 DEF AuthorizedOnly, InScope
  <2>7. \/ UNCHANGED writes
        \/ \E s \in Slots : Store(s)
    BY DEF Next, Arrive, Handle, ResolveKey, ReadGrants, ReadRate, CheckRate, CheckQuota,
       Operate, key_issue, key_revoke, grant_add, limits_set, plan_set, Edit, Import, Tick, Restart,
       store, vars
  <2>8. UNCHANGED writes => AuthorizedOnly'
    BY <2>5 DEF AuthorizedOnly
  <2> QED
    BY <2>2, <2>6, <2>7, <2>8 DEF AuthInv
<1>3. AuthInv => AuthorizedOnly
  BY DEF AuthInv
<1> QED
  BY <1>1, <1>2, <1>3, PTL DEF Spec

-------------------------------------------------------------------------------
(* The rate *)

\* No limit that a request has read, or can read, is above the highest one.
LimitsBelowTop ==
    /\ rpm <= top.rpm
    /\ \A s \in Slots : req[s].rpm <= top.rpm

ProcessTickets(n) == SUBSET (Procs \X (1..n))
RestartTickets(m, n) == SUBSET ((1..m) \X (1..n))

\* The requests that were admitted in the window have tickets: of a process that
\* runs, the number that check_rate gave it, and of one that was started again,
\* the number and that restart.  No two have the same one.
Ticketed ==
    \E T \in ProcessTickets(top.rpm), R \in RestartTickets(restarts, top.rpm) :
        /\ admitted = Cardinality(T) + Cardinality(R)
        /\ \A x \in T : hits[x[1]].window = Window(now) /\ x[2] <= hits[x[1]].count

RateInv == Base /\ LimitsBelowTop /\ Ticketed

\* The highest limit never falls.
LEMMA TopRises ==
    ASSUME Base, [Next]_vars
    PROVE  top.rpm <= top'.rpm /\ top.quota <= top'.quota
<1>t. top \in [rpm : Nat, quota : Nat]
  BY DEF Base, TypeOK
<1>1. ASSUME NEW r \in Rates, limits_set(r)
      PROVE  top.rpm <= top'.rpm /\ top.quota <= top'.quota
  BY <1>1, <1>t, Numbers DEF limits_set, Higher
<1>2. ASSUME NEW q \in Quotas, plan_set(q)
      PROVE  top.rpm <= top'.rpm /\ top.quota <= top'.quota
  BY <1>2, <1>t, Numbers DEF plan_set, Higher
<1>3. UNCHANGED top => top.rpm <= top'.rpm /\ top.quota <= top'.quota
  BY <1>t
<1> QED
  BY <1>1, <1>2, <1>3 DEF Next, Operate, Arrive, Handle, ResolveKey, ReadGrants, ReadRate,
     CheckRate, CheckQuota, Store, key_issue, key_revoke, grant_add, Import, Tick, Restart, admin, vars

\* A request reads the limit in force or keeps what it has read.
LEMMA LimitsNext ==
    ASSUME Base, LimitsBelowTop, [Next]_vars
    PROVE  LimitsBelowTop'
<1>t. /\ req \in [Slots -> Requests] /\ top \in [rpm : Nat, quota : Nat] /\ rpm \in Nat
      /\ req' \in [Slots -> Requests] /\ top' \in [rpm : Nat, quota : Nat] /\ rpm' \in Nat
  BY BaseNext DEF Base, TypeOK
<1>1. rpm' <= top'.rpm
  <2>1. ASSUME NEW r \in Rates, limits_set(r)
        PROVE  rpm' <= top'.rpm
    BY <2>1, <1>t, Numbers DEF limits_set, Higher
  <2>2. UNCHANGED rpm => rpm' <= top'.rpm
    BY <1>t, TopRises DEF LimitsBelowTop
  <2> QED
    BY <2>1, <2>2 DEF Next, Operate, Arrive, Handle, ResolveKey, ReadGrants, ReadRate, CheckRate,
       CheckQuota, Store, key_issue, key_revoke, grant_add, plan_set, Import, Tick, Restart, admin, vars
<1>2. \A s \in Slots : req'[s].rpm \in {0, rpm, req[s].rpm}
  <2>i. Idle.rpm = 0
    BY DEF Idle
  <2>1. ASSUME NEW s \in Slots, NEW k \in Keys, NEW b \in Batches, Arrive(s, k, b)
        PROVE  \A u \in Slots : req'[u].rpm \in {0, rpm, req[u].rpm}
    BY <2>1, <1>t DEF Arrive, Idle
  <2>2. ASSUME NEW s \in Slots, Handle(s)
        PROVE  \A u \in Slots : req'[u].rpm \in {0, rpm, req[u].rpm}
    <3>1. \A u \in Slots \ {s} : req'[u] = req[u]
      BY <2>2, <1>t, HandleRequest
    <3>2. req'[s].rpm \in {0, rpm, req[s].rpm}
      BY <2>2, <1>t, <2>i DEF Handle, ResolveKey, ReadGrants, ReadRate, CheckRate, CheckQuota, Store,
         Goto, Finish, Requests
    <3> QED
      BY <3>1, <3>2
  <2>3. CASE Operate \/ Tick
    BY <2>3, OperateQuiet
  <2>4. ASSUME NEW p \in Procs, Restart(p)
        PROVE  \A u \in Slots : req'[u].rpm \in {0, rpm, req[u].rpm}
    BY <2>4, <2>i DEF Restart
  <2>5. UNCHANGED vars => \A u \in Slots : req'[u].rpm \in {0, rpm, req[u].rpm}
    BY DEF vars
  <2> QED
    BY <2>1, <2>2, <2>3, <2>4, <2>5 DEF Next
<1>3. \A s \in Slots : req[s].rpm \in Nat /\ req[s].rpm <= top.rpm
  BY <1>t DEF LimitsBelowTop, Requests
<1>4. rpm <= top.rpm /\ top.rpm <= top'.rpm /\ 0 <= top.rpm
  BY <1>t, TopRises DEF LimitsBelowTop
<1> QED
  BY <1>1, <1>2, <1>3, <1>4, <1>t DEF LimitsBelowTop

\* Tickets are finite in number.
LEMMA TicketsFinite ==
    ASSUME NEW n \in Nat, NEW m \in Nat
    PROVE  /\ \A T \in ProcessTickets(n) :
                 IsFiniteSet(T) /\ Cardinality(T) \in Nat /\ Cardinality(T) <= Cardinality(Procs) * n
           /\ \A R \in RestartTickets(m, n) :
                 IsFiniteSet(R) /\ Cardinality(R) \in Nat /\ Cardinality(R) <= m * n
<1>1. IsFiniteSet(1..n) /\ Cardinality(1..n) = n /\ IsFiniteSet(1..m) /\ Cardinality(1..m) = m
  BY FS_Interval
<1>2. IsFiniteSet(Procs)
  BY AdmissionAssumption
<1>3. IsFiniteSet(Procs \X (1..n)) /\ Cardinality(Procs \X (1..n)) = Cardinality(Procs) * n
  BY <1>1, <1>2, FS_Product
<1>4. IsFiniteSet((1..m) \X (1..n)) /\ Cardinality((1..m) \X (1..n)) = m * n
  BY <1>1, FS_Product
<1> QED
  BY <1>3, <1>4, FS_Subset, FS_CardinalityType DEF ProcessTickets, RestartTickets

\* A restart of p keeps the tickets of the other processes and takes p's over.
Kept(T, p) == {x \in T : x[1] # p}
TakenOver(T, p, m) == {<<m, x[2]>> : x \in {y \in T : y[1] = p}}

\* No ticket is lost, and none is there twice, when a restart takes them over.
LEMMA TicketsMoved ==
    ASSUME NEW n \in Nat, NEW m \in Nat, NEW p \in Procs,
           NEW T \in ProcessTickets(n), NEW R \in RestartTickets(m, n)
    PROVE  /\ Kept(T, p) \in ProcessTickets(n)
           /\ R \cup TakenOver(T, p, m + 1) \in RestartTickets(m + 1, n)
           /\ Cardinality(Kept(T, p)) + Cardinality(R \cup TakenOver(T, p, m + 1))
                = Cardinality(T) + Cardinality(R)
<1> DEFINE P == {y \in T : y[1] = p}
           N == {<<m + 1, x[2]>> : x \in P}
           f == [x \in P |-> <<m + 1, x[2]>>]
<1>a. T \in SUBSET (Procs \X (1..n)) /\ R \in SUBSET ((1..m) \X (1..n))
  BY DEF ProcessTickets, RestartTickets
<1>0. Kept(T, p) = T \ P /\ TakenOver(T, p, m + 1) = N
  BY DEF Kept, TakenOver
<1>1. /\ IsFiniteSet(T) /\ Cardinality(T) \in Nat
      /\ IsFiniteSet(R) /\ Cardinality(R) \in Nat
      /\ IsFiniteSet(P) /\ Cardinality(P) \in Nat
  <2>1. P \in ProcessTickets(n)
    BY <1>a DEF ProcessTickets
  <2> QED
    BY <2>1, TicketsFinite
<1>2. f \in Bijection(P, N)
  <2>1. f \in [P -> N]
    OBVIOUS
  <2>2. \A y \in N : \E x \in P : f[x] = y
    OBVIOUS
  <2>3. \A x, y \in P : f[x] = f[y] => x = y
    <3>1. \A x \in P : x = <<p, x[2]>>
      BY <1>a
    <3>2. \A x \in P : f[x][2] = x[2]
      OBVIOUS
    <3> QED
      BY <3>1, <3>2
  <2> HIDE DEF P, N, f
  <2> QED
    BY <2>1, <2>2, <2>3 DEF Bijection, Injection, Surjection, IsInjective
<1>3. IsFiniteSet(N) /\ Cardinality(N) = Cardinality(P)
  BY <1>1, <1>2, FS_Bijection DEF ExistsBijection
<1>4. Cardinality(T \ P) = Cardinality(T) - Cardinality(P)
  <2>1. T \cap P = P
    OBVIOUS
  <2> QED
    BY <1>1, <2>1, FS_Difference
<1>5. Cardinality(R \cup N) = Cardinality(R) + Cardinality(N)
  <2>1. R \cap N = {}
    BY <1>a
  <2>2. Cardinality(R \cup N) = Cardinality(R) + Cardinality(N) - Cardinality(R \cap N)
    BY <1>1, <1>3, FS_Union
  <2>3. Cardinality(R \cap N) = 0
    BY <2>1, FS_EmptySet
  <2> HIDE DEF P, N, f
  <2> QED
    BY <1>1, <1>3, <2>2, <2>3
<1>6. T \ P \in ProcessTickets(n)
  BY <1>a DEF ProcessTickets
<1>7. R \cup N \in RestartTickets(m + 1, n)
  BY <1>a DEF RestartTickets
<1>8. Cardinality(T \ P) + Cardinality(R \cup N) = Cardinality(T) + Cardinality(R)
  BY <1>1, <1>3, <1>4, <1>5
<1> HIDE DEF P, N, f
<1> QED
  BY <1>0, <1>6, <1>7, <1>8

\* Every step hands out at most one ticket, a new one, and loses none before the
\* window ends.
LEMMA TicketedNext ==
    ASSUME RateInv, [Next]_vars
    PROVE  Ticketed'
<1>b. Base /\ LimitsBelowTop /\ TypeOK /\ Base' /\ TypeOK'
  BY BaseNext DEF RateInv, Base
<1>t. /\ hits \in [Procs -> [window : Nat, count : Nat]] /\ now \in Nat /\ admitted \in Nat
      /\ restarts \in Nat /\ top.rpm \in Nat /\ top'.rpm \in Nat /\ top.rpm <= top'.rpm
      /\ req \in [Slots -> Requests]
  BY <1>b, TopRises DEF TypeOK
<1>1. PICK T \in ProcessTickets(top.rpm), R \in RestartTickets(restarts, top.rpm) :
        /\ admitted = Cardinality(T) + Cardinality(R)
        /\ \A x \in T : hits[x[1]].window = Window(now) /\ x[2] <= hits[x[1]].count
  BY DEF RateInv, Ticketed
<1>2. /\ T \in ProcessTickets(top'.rpm) /\ R \in RestartTickets(restarts, top'.rpm)
      /\ \A x \in T : x[1] \in Procs /\ x[2] \in Nat
  BY <1>t DEF ProcessTickets, RestartTickets
<1>f. IsFiniteSet(T) /\ Cardinality(T) \in Nat /\ Cardinality(R) \in Nat
  BY <1>t, TicketsFinite
<1>3. CASE UNCHANGED <<hits, now, admitted, restarts>>
  BY <1>1, <1>2, <1>3 DEF Ticketed, Window
<1>4. ASSUME NEW s \in Slots, CheckRate(s)
      PROVE  Ticketed'
  <2> DEFINE p == ProcOf[s]
             c == Count(p)
  <2>1. p \in Procs
    BY AdmissionAssumption
  <2>2. Window(now) \in Nat /\ c \in Nat \ {0}
    BY <1>t, <2>1, WindowType DEF Count
  <2>3. /\ hits' = [hits EXCEPT ![p] = [window |-> Window(now), count |-> c]]
        /\ UNCHANGED <<now, restarts, top>>
    BY <1>4 DEF CheckRate, admin, clock
  <2>4. hits[p].window = Window(now) => c = hits[p].count + 1
    BY DEF Count
  <2> HIDE DEF c
  <2>5. \A x \in T : hits'[x[1]].window = Window(now) /\ x[2] <= hits'[x[1]].count
    <3> SUFFICES ASSUME NEW x \in T
                 PROVE  hits'[x[1]].window = Window(now) /\ x[2] <= hits'[x[1]].count
      OBVIOUS
    <3>1. hits[x[1]].window = Window(now) /\ x[2] <= hits[x[1]].count
      BY <1>1
    <3>2. CASE x[1] = p
      <4>1. hits'[x[1]].window = Window(now) /\ hits'[x[1]].count = hits[p].count + 1
        BY <3>1, <3>2, <2>1, <2>3, <2>4, <1>t
      <4>2. hits[p].count \in Nat /\ x[2] \in Nat
        BY <1>t, <1>2, <2>1
      <4> QED
        BY <4>1, <4>2, <3>1, <3>2
    <3>3. CASE x[1] # p
      BY <3>1, <3>3, <2>3, <1>t, <1>2
    <3> QED
      BY <3>2, <3>3
  <2>6. CASE UNCHANGED admitted
    BY <1>1, <1>2, <2>3, <2>5, <2>6 DEF Ticketed, Window
  <2>7. CASE ~Over(p, req[s].rpm) /\ admitted' = admitted + 1
    <3>1. c <= top.rpm
      <4>1. req[s].rpm \in Nat /\ req[s].rpm <= top.rpm
        BY <1>b, <1>t DEF LimitsBelowTop, Requests
      <4> QED
        BY <2>7, <4>1, <1>t, <2>2 DEF Over, c
    <3>2. <<p, c>> \notin T
      <4> SUFFICES ASSUME <<p, c>> \in T PROVE FALSE
        OBVIOUS
      <4>1. hits[p].window = Window(now) /\ c <= hits[p].count
        BY <1>1
      <4>2. hits[p].count \in Nat
        BY <1>t, <2>1
      <4> QED
        BY <4>1, <4>2, <2>4
    <3> DEFINE U == T \cup {<<p, c>>}
    <3>3. U \in ProcessTickets(top'.rpm)
      BY <3>1, <2>1, <2>2, <2>3, <1>t DEF ProcessTickets
    <3>4. Cardinality(U) = Cardinality(T) + 1
      BY <3>2, <1>f, FS_AddElement
    <3>5. \A x \in U : hits'[x[1]].window = Window(now) /\ x[2] <= hits'[x[1]].count
      <4>1. hits'[p].window = Window(now) /\ hits'[p].count = c
        BY <2>1, <2>3, <1>t
      <4> QED
        BY <2>5, <2>2, <4>1
    <3>6. admitted' = Cardinality(U) + Cardinality(R)
      BY <3>4, <2>7, <1>1, <1>f
    <3> HIDE DEF U, p
    <3> QED
      BY <3>3, <3>5, <3>6, <1>2, <2>3 DEF Ticketed, Window
  <2> QED
    BY <1>4, <2>6, <2>7 DEF CheckRate
<1>5. CASE Tick
  <2>1. UNCHANGED <<hits, top, restarts>>
    BY <1>5 DEF Tick, admin
  <2>2. CASE Window(now') = Window(now) /\ UNCHANGED admitted
    BY <1>1, <1>2, <2>1, <2>2 DEF Ticketed, Window
  <2>3. CASE admitted' = 0
    <3>1. Cardinality({}) = 0
      BY FS_EmptySet
    <3>2. admitted' = Cardinality({}) + Cardinality({})
      BY <2>3, <3>1
    <3>3. /\ {} \in ProcessTickets(top'.rpm)
          /\ {} \in RestartTickets(restarts', top'.rpm)
          /\ \A x \in {} : hits'[x[1]].window = Window(now') /\ x[2] <= hits'[x[1]].count
      BY DEF ProcessTickets, RestartTickets
    <3> QED
      BY <3>2, <3>3 DEF Ticketed, Window
  <2> QED
    BY <1>5, <2>2, <2>3 DEF Tick
<1>6. ASSUME NEW p \in Procs, Restart(p)
      PROVE  Ticketed'
  <2>1. /\ hits' = [hits EXCEPT ![p] = [window |-> 0, count |-> 0]]
        /\ restarts' = restarts + 1 /\ UNCHANGED <<now, admitted, top>>
    BY <1>6 DEF Restart, clock
  <2> DEFINE U == Kept(T, p)
             Q == R \cup TakenOver(T, p, restarts + 1)
  <2>2. /\ U \in ProcessTickets(top.rpm)
        /\ Q \in RestartTickets(restarts + 1, top.rpm)
        /\ Cardinality(U) + Cardinality(Q) = Cardinality(T) + Cardinality(R)
    <3>1. top.rpm \in Nat /\ restarts \in Nat
      BY <1>t
    <3> QED
      BY <3>1, TicketsMoved
  <2>3. \A x \in U : x \in T /\ x[1] # p
    BY DEF Kept
  <2> HIDE DEF U, Q
  <2>4. \A x \in U : hits'[x[1]].window = Window(now) /\ x[2] <= hits'[x[1]].count
    BY <2>1, <2>3, <1>1, <1>2, <1>t
  <2> QED
    BY <2>1, <2>2, <2>4, <1>1 DEF Ticketed, Window
<1> QED
  BY <1>3, <1>4, <1>5, <1>6 DEF Next, Operate, Arrive, Handle, ResolveKey, ReadGrants, ReadRate,
     CheckQuota, Store, key_issue, key_revoke, grant_add, limits_set, plan_set, Edit, Import,
     limiter, clock, vars

\* In one window the processes together admit at most the highest limit that was
\* in force for each process and each restart: check_rate never gives the same
\* number twice to requests of a window, whatever restarts, refusals and changes
\* of the limit come between.
THEOREM RateLimited == Spec => []RateBounded
<1>1. Init => RateInv
  <2> SUFFICES ASSUME Init PROVE RateInv
    OBVIOUS
  <2>1. Base
    BY BaseInit
  <2>2. LimitsBelowTop
    BY Numbers DEF Init, LimitsBelowTop, Idle
  <2>3. Cardinality({}) = 0
    BY FS_EmptySet
  <2>4. admitted = Cardinality({}) + Cardinality({})
    BY <2>3 DEF Init
  <2>5. /\ {} \in ProcessTickets(top.rpm)
        /\ {} \in RestartTickets(restarts, top.rpm)
        /\ \A x \in {} : hits[x[1]].window = Window(now) /\ x[2] <= hits[x[1]].count
    BY DEF ProcessTickets, RestartTickets
  <2> QED
    BY <2>1, <2>2, <2>4, <2>5 DEF RateInv, Ticketed
<1>2. RateInv /\ [Next]_vars => RateInv'
  BY BaseNext, LimitsNext, TicketedNext DEF RateInv
<1>3. RateInv => RateBounded
  <2> SUFFICES ASSUME RateInv PROVE RateBounded
    OBVIOUS
  <2>1. PICK T \in ProcessTickets(top.rpm), R \in RestartTickets(restarts, top.rpm) :
          admitted = Cardinality(T) + Cardinality(R)
    BY DEF RateInv, Ticketed
  <2>2. top.rpm \in Nat /\ restarts \in Nat
    BY DEF RateInv, Base, TypeOK
  <2>3. /\ Cardinality(T) \in Nat /\ Cardinality(T) <= Cardinality(Procs) * top.rpm
        /\ Cardinality(R) \in Nat /\ Cardinality(R) <= restarts * top.rpm
    BY <2>2, TicketsFinite
  <2>4. Cardinality(Procs) \in Nat
    BY AdmissionAssumption, FS_CardinalityType
  <2>5. ASSUME NEW a \in Nat, NEW b \in Nat, NEW n \in Nat
        PROVE  n * (a + b) = a * n + b * n
    BY <2>5
  <2>6. top.rpm * (Cardinality(Procs) + restarts) = Cardinality(Procs) * top.rpm + restarts * top.rpm
    BY <2>2, <2>4, <2>5
  <2>7. Cardinality(Procs) * top.rpm \in Nat /\ restarts * top.rpm \in Nat
    BY <2>2, <2>4
  <2> QED
    BY <2>1, <2>3, <2>6, <2>7 DEF RateBounded
<1> QED
  BY <1>1, <1>2, <1>3, PTL DEF Spec

-------------------------------------------------------------------------------
(* The quota *)

\* A request that has the event loop of its process.
Handling(s) == req[s].pc \in {"rate", "quota", "store"}

\* The loop runs one handler at a time.
OneHandler == \A s, t \in Slots : Handling(s) /\ Handling(t) /\ ProcOf[s] = ProcOf[t] => s = t

\* The events that requests which passed check_quota in the month may still store.
Owed(m) ==
    {x \in Slots \X (1..MaxBatch) :
        /\ req[x[1]].pc = "store" /\ req[x[1]].checked = m
        /\ x[2] \in req[x[1]].pos..Len(req[x[1]].batch)}

\* They are one batch for each process at most.
OwedBounded ==
    \A m \in Months : /\ IsFiniteSet(Owed(m)) /\ Cardinality(Owed(m)) \in Nat
                      /\ Cardinality(Owed(m)) <= Cardinality(Procs) * MaxBatch

\* What is stored and what may still be stored stays below the bound.
QuotaCovers ==
    /\ quota <= top.quota
    /\ \A m \in Months :
          /\ counted[m] <= used[m]
          /\ counted[m] + Cardinality(Owed(m)) < Higher(top.quota, 1) + Cardinality(Procs) * MaxBatch

QuotaInv == Base /\ OneHandler /\ QuotaCovers

\* No batch is longer than MaxBatch.
LEMMA MaxBatchLongest == MaxBatch \in Nat /\ \A b \in Batches : Len(b) <= MaxBatch
<1>1. PICK b \in Batches : \A c \in Batches : Len(c) <= Len(b)
  BY AdmissionAssumption
<1>2. \E n \in {Len(c) : c \in Batches} : \A c \in Batches : Len(c) <= n
  BY <1>1
<1>3. MaxBatch \in {Len(c) : c \in Batches} /\ \A c \in Batches : Len(c) <= MaxBatch
  BY <1>2 DEF MaxBatch
<1> QED
  BY <1>3, BatchType

\* The bound is a number.
LEMMA BoundType == Cardinality(Procs) \in Nat /\ Cardinality(Procs) * MaxBatch \in Nat
  BY MaxBatchLongest, AdmissionAssumption, FS_CardinalityType

\* With one handler for each process, what is owed maps into one batch for each.
LEMMA OwedIsBounded == Base /\ OneHandler => OwedBounded
<1> SUFFICES ASSUME Base, OneHandler, NEW m \in Months
             PROVE  /\ IsFiniteSet(Owed(m)) /\ Cardinality(Owed(m)) \in Nat
                    /\ Cardinality(Owed(m)) <= Cardinality(Procs) * MaxBatch
  BY DEF OwedBounded
<1> DEFINE S == Owed(m)
           T == Procs \X (1..MaxBatch)
           f == [x \in S |-> <<ProcOf[x[1]], x[2]>>]
<1>1. IsFiniteSet(T) /\ Cardinality(T) = Cardinality(Procs) * MaxBatch
  <2>1. IsFiniteSet(1..MaxBatch) /\ Cardinality(1..MaxBatch) = MaxBatch
    BY MaxBatchLongest, FS_Interval
  <2> QED
    BY <2>1, AdmissionAssumption, FS_Product
<1>2. \A x \in S : x \in Slots \X (1..MaxBatch) /\ Handling(x[1])
  BY DEF Owed, Handling
<1>3. f \in [S -> T]
  BY <1>2, AdmissionAssumption
<1>4. ASSUME NEW x \in S, NEW y \in S, f[x] = f[y]
      PROVE  x = y
  <2>1. ProcOf[x[1]] = ProcOf[y[1]] /\ x[2] = y[2]
    BY <1>4
  <2>2. x[1] = y[1]
    BY <1>2, <2>1 DEF OneHandler
  <2> QED
    BY <1>2, <2>1, <2>2
<1> HIDE DEF S, T, f
<1>5. f \in Injection(S, T)
  <2>1. DOMAIN f = S
    BY <1>3
  <2> QED
    BY <1>3, <1>4, <2>1 DEF Injection, IsInjective
<1>6. IsFiniteSet(S) /\ Cardinality(S) <= Cardinality(T)
  BY <1>1, <1>5, FS_Injection
<1>7. Cardinality(S) \in Nat
  BY <1>6, FS_CardinalityType
<1> QED
  BY <1>1, <1>6, <1>7 DEF S

\* Who has the loop after a step had it before, or takes it when it is free.
LEMMA OneHandlerNext ==
    ASSUME Base, OneHandler, [Next]_vars
    PROVE  OneHandler'
<1>t. req \in [Slots -> Requests] /\ \A s \in Slots : req[s] \in Requests
  BY DEF Base, TypeOK
<1>i. Idle.pc = "idle"
  BY DEF Idle
<1>1. ASSUME NEW u \in Slots, Handling(u)'
      PROVE  Handling(u) \/ ReadRate(u)
  <2>1. ASSUME NEW s \in Slots, NEW k \in Keys, NEW b \in Batches, Arrive(s, k, b)
        PROVE  Handling(u)
    BY <2>1, <1>1, <1>t DEF Arrive, Idle, Handling
  <2>2. ASSUME NEW s \in Slots, Handle(s)
        PROVE  Handling(u) \/ ReadRate(u)
    <3>1. u # s => req'[u] = req[u]
      BY <2>2, <1>t, HandleRequest
    <3>2. CASE u = s
      BY <2>2, <3>2, <1>1, <1>t, <1>i DEF Handle, ResolveKey, ReadGrants, CheckRate, CheckQuota, Store,
         Goto, Finish, Handling, Requests
    <3> QED
      BY <3>1, <3>2, <1>1 DEF Handling
  <2>3. CASE Operate \/ Tick
    BY <2>3, <1>1, OperateQuiet DEF Handling
  <2>4. ASSUME NEW p \in Procs, Restart(p)
        PROVE  Handling(u)
    BY <2>4, <1>1, <1>i DEF Restart, Handling
  <2>5. UNCHANGED vars => Handling(u)
    BY <1>1 DEF vars, Handling
  <2> QED
    BY <2>1, <2>2, <2>3, <2>4, <2>5 DEF Next
<1>2. ASSUME NEW s \in Slots, NEW t \in Slots, s # t, ProcOf[s] = ProcOf[t],
             ReadRate(s), Handling(t)'
      PROVE  FALSE
  <2>1. ~Handling(t)
    BY <1>2 DEF ReadRate, LoopFree, Handling
  <2>2. req'[t] = req[t]
    BY <1>2, <1>t DEF ReadRate
  <2> QED
    BY <1>2, <2>1, <2>2 DEF Handling
<1> SUFFICES ASSUME NEW s \in Slots, NEW t \in Slots, Handling(s)', Handling(t)', ProcOf[s] = ProcOf[t]
             PROVE  s = t
  BY DEF OneHandler
<1> QED
  BY <1>1, <1>2 DEF OneHandler

\* A request that is storing was storing before, and not further on, or has just
\* passed check_quota.
LEMMA StoringBefore ==
    ASSUME Base, [Next]_vars, NEW u \in Slots, req'[u].pc = "store"
    PROVE  \/ /\ req[u].pc = "store" /\ req'[u].checked = req[u].checked
              /\ req'[u].batch = req[u].batch /\ req[u].pos <= req'[u].pos
           \/ CheckQuota(u) /\ req'[u].checked = month
<1>t. req \in [Slots -> Requests]
  BY DEF Base, TypeOK
<1>p. req[u].pos \in Nat
  BY <1>t DEF Requests
<1>i. Idle.pc = "idle"
  BY DEF Idle
<1>1. ASSUME NEW s \in Slots, NEW k \in Keys, NEW b \in Batches, Arrive(s, k, b)
      PROVE  req'[u] = req[u]
  BY <1>1, <1>t DEF Arrive, Idle
<1>2. ASSUME NEW s \in Slots, Handle(s), u # s
      PROVE  req'[u] = req[u]
  BY <1>2, <1>t, HandleRequest
<1>3. CASE CheckQuota(u)
  BY <1>3, <1>t, <1>i DEF CheckQuota, Finish, Requests
<1>4. CASE Store(u)
  BY <1>4, <1>t, <1>p, <1>i DEF Store, Finish, Requests
<1>5. ~(ResolveKey(u) \/ ReadGrants(u) \/ ReadRate(u) \/ CheckRate(u))
  BY <1>t, <1>i DEF ResolveKey, ReadGrants, ReadRate, CheckRate, Goto, Finish, Requests
<1>6. CASE Operate \/ Tick
  BY <1>6, <1>p, OperateQuiet
<1>7. ASSUME NEW p \in Procs, Restart(p)
      PROVE  req'[u] = req[u]
  BY <1>7, <1>i DEF Restart
<1>8. UNCHANGED vars => req'[u] = req[u]
  BY DEF vars
<1> QED
  BY <1>p, <1>1, <1>2, <1>3, <1>4, <1>5, <1>6, <1>7, <1>8 DEF Next, Handle

\* Nothing is owed anew for a month, unless a request passes check_quota in it.
LEMMA OwedShrinks ==
    ASSUME Base, [Next]_vars, NEW m \in Months,
           \A u \in Slots : CheckQuota(u) => m # month
    PROVE  Owed(m)' \subseteq Owed(m)
<1> SUFFICES ASSUME NEW x \in Owed(m)'
             PROVE  x \in Owed(m)
  OBVIOUS
<1>1. /\ x \in Slots \X (1..MaxBatch)
      /\ req'[x[1]].pc = "store" /\ req'[x[1]].checked = m
      /\ x[2] \in req'[x[1]].pos..Len(req'[x[1]].batch)
  BY DEF Owed
<1>2. /\ req[x[1]].pc = "store" /\ req[x[1]].checked = m
      /\ req'[x[1]].batch = req[x[1]].batch /\ req[x[1]].pos <= req'[x[1]].pos
  BY <1>1, StoringBefore
<1>3. req[x[1]].pos \in Nat /\ req'[x[1]].pos \in Nat /\ Len(req[x[1]].batch) \in Nat
  <2>1. Base' /\ x[1] \in Slots
    BY <1>1, BaseNext
  <2>2. req[x[1]].pos \in Nat /\ req'[x[1]].pos \in Nat
    BY <2>1 DEF Base, TypeOK, Requests
  <2> QED
    BY <1>2, <2>1, <2>2, Served
<1> QED
  BY <1>1, <1>2, <1>3 DEF Owed

\* An event that counts was owed, and is not owed any more.
LEMMA CountedWasOwed ==
    ASSUME Base, NEW s \in Slots, Store(s), counted' # counted
    PROVE  \E m \in Months :
              /\ m = req[s].checked
              /\ counted' = [counted EXCEPT ![m] = @ + 1]
              /\ used' = [used EXCEPT ![m] = @ + 1]
              /\ <<s, req[s].pos>> \in Owed(m)
              /\ <<s, req[s].pos>> \notin Owed(m)'
<1>0. PICK m : m = req[s].sent + req[s].batch[req[s].pos].month
  OBVIOUS
<1>1. /\ req[s].pc = "store" /\ m = req[s].checked
      /\ used' = [used EXCEPT ![m] = @ + 1]
      /\ counted' = [counted EXCEPT ![m] = @ + 1]
  BY <1>0 DEF Store, store
<1>2. /\ m \in Months /\ req[s] \in Requests /\ req[s].batch \in Batches
      /\ Len(req[s].batch) \in Nat /\ req[s].pos \in 1..Len(req[s].batch)
  BY <1>0, <1>1, Served
<1>3. req[s].pos \in 1..MaxBatch /\ req[s].pos \in req[s].pos..Len(req[s].batch)
  BY <1>2, MaxBatchLongest
<1>4. <<s, req[s].pos>> \in Owed(m)
  BY <1>1, <1>3 DEF Owed
<1>5. req'[s].pc = "idle" \/ req'[s].pos = req[s].pos + 1
  BY <1>2 DEF Store, Finish, Idle, Base, TypeOK, Requests
<1>6. <<s, req[s].pos>> \notin Owed(m)'
  BY <1>2, <1>5 DEF Owed
<1> QED
  BY <1>1, <1>2, <1>4, <1>6

\* Every step keeps the quota covered.
LEMMA QuotaCoversNext ==
    ASSUME QuotaInv, [Next]_vars
    PROVE  QuotaCovers'
<1>b. /\ Base /\ OneHandler /\ QuotaCovers /\ Base' /\ OneHandler'
  BY BaseNext, OneHandlerNext DEF QuotaInv
<1>o. OwedBounded /\ OwedBounded'
  <2>1. (Base /\ OneHandler => OwedBounded)'
    BY OwedIsBounded, PTL
  <2> QED
    BY <1>b, <2>1, OwedIsBounded
<1>t. /\ used \in [Months -> Nat] /\ counted \in [Months -> Nat] /\ month \in Months
      /\ quota \in Nat /\ top.quota \in Nat /\ top'.quota \in Nat /\ quota' \in Nat
      /\ top.quota <= top'.quota
  BY <1>b, TopRises, MonthType DEF Base, TypeOK
<1>h. /\ Higher(top.quota, 1) \in Nat /\ Higher(top'.quota, 1) \in Nat
      /\ Higher(top.quota, 1) <= Higher(top'.quota, 1)
      /\ top.quota <= Higher(top.quota, 1)
  BY <1>t DEF Higher
<1>n. Cardinality(Procs) * MaxBatch \in Nat
  BY BoundType
<1>1. quota' <= top'.quota
  <2>1. ASSUME NEW q \in Quotas, plan_set(q)
        PROVE  quota' <= top'.quota
    BY <2>1, <1>b, <1>t, Numbers DEF plan_set, Higher, Base, TypeOK
  <2>2. UNCHANGED quota => quota' <= top'.quota
    BY <1>b, <1>t DEF QuotaCovers
  <2> QED
    BY <2>1, <2>2 DEF Next, Operate, Arrive, Handle, ResolveKey, ReadGrants, ReadRate, CheckRate,
       CheckQuota, Store, key_issue, key_revoke, grant_add, limits_set, Import, Tick, Restart, admin, vars
<1> DEFINE Covered(m) == counted'[m] + Cardinality(Owed(m)') < Higher(top'.quota, 1) + Cardinality(Procs) * MaxBatch
<1>2. ASSUME NEW s \in Slots, Store(s), counted' # counted, NEW m \in Months
      PROVE  counted'[m] <= used'[m] /\ Covered(m)
  <2>1. PICK n \in Months :
              /\ n = req[s].checked
              /\ counted' = [counted EXCEPT ![n] = @ + 1]
              /\ used' = [used EXCEPT ![n] = @ + 1]
              /\ <<s, req[s].pos>> \in Owed(n)
              /\ <<s, req[s].pos>> \notin Owed(n)'
    BY <1>b, <1>2, CountedWasOwed
  <2>2. Owed(m)' \subseteq Owed(m) /\ Owed(n)' \subseteq Owed(n)
    <3>1. \A u \in Slots : ~CheckQuota(u)
      BY <1>2 DEF CheckQuota, store
    <3> QED
      BY <1>b, <3>1, OwedShrinks
  <2>3. /\ counted[m] \in Nat /\ used[m] \in Nat /\ counted[m] <= used[m]
        /\ counted[m] + Cardinality(Owed(m)) < Higher(top.quota, 1) + Cardinality(Procs) * MaxBatch
        /\ IsFiniteSet(Owed(m)) /\ Cardinality(Owed(m)) \in Nat /\ Cardinality(Owed(m)') \in Nat
    BY <1>b, <1>o, <1>t DEF QuotaCovers, OwedBounded
  <2>4. CASE m = n
    <3> DEFINE e == <<s, req[s].pos>>
    <3>1. Owed(m)' \in SUBSET (Owed(m) \ {e})
      BY <2>1, <2>2, <2>4
    <3>2. IsFiniteSet(Owed(m) \ {e}) /\ Cardinality(Owed(m) \ {e}) = Cardinality(Owed(m)) - 1
      BY <2>1, <2>3, <2>4, FS_RemoveElement
    <3> HIDE DEF e
    <3>3. Cardinality(Owed(m)') <= Cardinality(Owed(m) \ {e})
      BY <3>1, <3>2, FS_Subset
    <3>4. counted'[m] = counted[m] + 1 /\ used'[m] = used[m] + 1
      BY <2>1, <2>4, <1>t
    <3> QED
      BY <3>2, <3>3, <3>4, <2>3, <1>h, <1>n
  <2>5. CASE m # n
    <3>1. counted'[m] = counted[m] /\ used'[m] = used[m]
      BY <2>1, <2>5, <1>t
    <3>2. Cardinality(Owed(m)') <= Cardinality(Owed(m))
      BY <2>2, <2>3, FS_Subset
    <3> QED
      BY <3>1, <3>2, <2>3, <1>h, <1>n
  <2> QED
    BY <2>4, <2>5
<1>3. ASSUME UNCHANGED counted, NEW m \in Months
      PROVE  counted'[m] <= used'[m] /\ Covered(m)
  <2>1. /\ counted[m] \in Nat /\ used[m] \in Nat /\ counted[m] <= used[m]
        /\ counted[m] + Cardinality(Owed(m)) < Higher(top.quota, 1) + Cardinality(Procs) * MaxBatch
        /\ IsFiniteSet(Owed(m)) /\ Cardinality(Owed(m)) \in Nat /\ Cardinality(Owed(m)') \in Nat
        /\ Cardinality(Owed(m)') <= Cardinality(Procs) * MaxBatch
    BY <1>b, <1>o, <1>t DEF QuotaCovers, OwedBounded
  <2>2. used[m] <= used'[m] /\ used'[m] \in Nat
    <3>1. CASE Import
      BY <3>1, <1>t DEF Import
    <3>2. ASSUME NEW s \in Slots, Store(s)
          PROVE  used[m] <= used'[m]
      BY <3>2, <1>t, <2>1 DEF Store, store
    <3>3. UNCHANGED used => used[m] <= used'[m]
      BY <2>1
    <3>4. used[m] <= used'[m]
      BY <3>1, <3>2, <3>3 DEF Next, Operate, Arrive, Handle, ResolveKey, ReadGrants, ReadRate,
         CheckRate, CheckQuota, key_issue, key_revoke, grant_add, limits_set, plan_set, Edit, Tick,
         Restart, store, vars
    <3> QED
      BY <3>4, <1>b DEF Base, TypeOK
  <2>3. CASE \A u \in Slots : CheckQuota(u) => m # month
    <3>1. Owed(m)' \subseteq Owed(m)
      BY <2>3, <1>b, OwedShrinks
    <3>2. Cardinality(Owed(m)') <= Cardinality(Owed(m))
      BY <3>1, <2>1, FS_Subset
    <3> QED
      BY <1>3, <3>2, <2>1, <2>2, <1>h, <1>n
  <2>4. ASSUME NEW u \in Slots, CheckQuota(u), m = month
        PROVE  counted'[m] <= used'[m] /\ Covered(m)
    <3>1. CASE Exhausted(month) /\ Finish(u)
      <4>1. Owed(m)' \subseteq Owed(m)
        <5> SUFFICES ASSUME NEW x \in Owed(m)'
                     PROVE  x \in Owed(m)
          OBVIOUS
        <5>1. x[1] \in Slots /\ req'[x[1]].pc = "store" /\ x \in Slots \X (1..MaxBatch)
          BY DEF Owed
        <5>2. x[1] # u /\ req'[x[1]] = req[x[1]]
          BY <5>1, <3>1, <1>b DEF Finish, Idle, Base, TypeOK
        <5> QED
          BY <5>1, <5>2 DEF Owed
      <4>2. Cardinality(Owed(m)') <= Cardinality(Owed(m))
        BY <4>1, <2>1, FS_Subset
      <4> QED
        BY <1>3, <4>2, <2>1, <2>2, <1>h, <1>n
    <3>2. CASE ~Exhausted(month)
      <4>1. counted[m] < top.quota
        BY <2>4, <3>2, <2>1, <1>b, <1>t DEF Exhausted, QuotaCovers
      <4> QED
        BY <1>3, <4>1, <2>1, <2>2, <1>h, <1>n, <1>t
    <3> QED
      BY <2>4, <3>1, <3>2 DEF CheckQuota
  <2> QED
    BY <2>3, <2>4
<1>4. UNCHANGED counted \/ \E s \in Slots : Store(s)
  BY DEF Next, Operate, Arrive, Handle, ResolveKey, ReadGrants, ReadRate, CheckRate, CheckQuota,
     key_issue, key_revoke, grant_add, limits_set, plan_set, Edit, Import, Tick, Restart, store, vars
<1>5. \A m \in Months : counted'[m] <= used'[m] /\ Covered(m)
  BY <1>2, <1>3, <1>4
<1> QED
  BY <1>1, <1>5 DEF QuotaCovers

\* Requests that passed check_quota in a month store less than the highest quota
\* and one batch for each process of events of that month: the check comes before
\* the batch, but no process has two batches between the check and the store.
THEOREM QuotaLimited == Spec => []QuotaBounded
<1>1. Init => QuotaInv
  <2> SUFFICES ASSUME Init PROVE QuotaInv
    OBVIOUS
  <2>1. Base
    BY BaseInit
  <2>2. \A s \in Slots : req[s].pc = "idle"
    BY DEF Init, Idle
  <2>3. OneHandler
    BY <2>2 DEF OneHandler, Handling
  <2>4. \A m \in Months : Owed(m) = {}
    BY <2>2 DEF Owed
  <2>5. \A m \in Months : Cardinality(Owed(m)) = 0
    BY <2>4, FS_EmptySet
  <2>6. /\ quota = InitialQuota /\ top.quota = quota /\ InitialQuota \in Nat
        /\ \A m \in Months : counted[m] = 0 /\ used[m] = 0
    BY Numbers DEF Init, Months
  <2>7. Higher(top.quota, 1) \in Nat \ {0}
    BY <2>6 DEF Higher
  <2> QED
    BY <2>1, <2>3, <2>5, <2>6, <2>7, BoundType DEF QuotaInv, QuotaCovers
<1>2. QuotaInv /\ [Next]_vars => QuotaInv'
  BY BaseNext, OneHandlerNext, QuotaCoversNext DEF QuotaInv
<1>3. QuotaInv => QuotaBounded
  <2> SUFFICES ASSUME QuotaInv, NEW m \in Months
               PROVE  counted[m] < Higher(top.quota, 1) + Cardinality(Procs) * MaxBatch
    BY DEF QuotaInv, Base, TypeOK, QuotaBounded
  <2>1. Cardinality(Owed(m)) \in Nat
    BY OwedIsBounded DEF QuotaInv, OwedBounded
  <2>2. counted[m] \in Nat /\ Higher(top.quota, 1) \in Nat
    BY DEF QuotaInv, Base, TypeOK, Higher
  <2>3. counted[m] + Cardinality(Owed(m)) < Higher(top.quota, 1) + Cardinality(Procs) * MaxBatch
    BY DEF QuotaInv, QuotaCovers
  <2> QED
    BY <2>1, <2>2, <2>3, BoundType
<1> QED
  BY <1>1, <1>2, <1>3, PTL DEF Spec

===============================================================================
