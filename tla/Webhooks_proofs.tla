---------------------------- MODULE Webhooks_proofs -----------------------------
(***************************************************************************)
(* What delivery guarantees for every set of subscriptions, workers and    *)
(* verifiers, every retry schedule and every bound.                        *)
(***************************************************************************)
EXTENDS Webhooks, FiniteSetTheorems, TLAPS

DeliveryRows == [status : {"absent", "retrying", "delivered", "dropped"},
                 attempts : 0..MAX_ATTEMPTS, next : Nat]

RunRecords == [now : Nat, done : 0..Limit, id : Deliveries \cup {None},
               seen : 0..MAX_ATTEMPTS, ok : BOOLEAN]

\* A worker between the query and the COMMIT of deliver_once.
Busy(w) == pc[w] \in {"send", "record"}

\* FOR UPDATE SKIP LOCKED: the row a worker has is retrying and as it was when
\* it was read, and nobody else has it.
RowsLocked ==
    /\ \A w \in Workers : Busy(w) =>
        /\ run[w].id \in Deliveries
        /\ delivery[run[w].id].status = "retrying"
        /\ delivery[run[w].id].attempts = run[w].seen
        /\ run[w].done < Limit
    /\ \A w \in Workers : ~Busy(w) => run[w].id = None
    /\ \A v, w \in Workers : v # w /\ Busy(v) /\ Busy(w) => run[v].id # run[w].id

\* A delivery that is retried has attempts left, and one that is not emitted
\* yet has none behind it.
QueueOpen ==
    \A d \in Deliveries :
        /\ delivery[d].status = "retrying" => delivery[d].attempts < MAX_ATTEMPTS
        /\ delivery[d].status = "absent" => delivery[d].attempts = 0
        /\ d[2] > emits => delivery[d].status = "absent"

\* A 2xx answer that is about to be recorded came from a consumer that has the
\* notification.
AnswersReceived ==
    \A w \in Workers : pc[w] = "record" /\ run[w].ok => received[run[w].id] > 0

\* A delivery that is tried again waits for the delay of the schedule after the
\* run of its last attempt, and a worker that has it began after that.
DelaysKept ==
    /\ \A d \in Deliveries :
        /\ Len(began[d]) = delivery[d].attempts
        /\ delivery[d].status = "retrying" /\ delivery[d].attempts > 0 =>
                delivery[d].next = began[d][delivery[d].attempts] + RETRY_SCHEDULE[delivery[d].attempts + 1]
    /\ \A w \in Workers : Busy(w) => delivery[run[w].id].next <= run[w].now

IInv ==
    /\ TypeOK
    /\ RowsLocked
    /\ QueueOpen
    /\ AnswersReceived
    /\ DelaysKept
    /\ TriesAccounted
    /\ LogIsTruthful

-------------------------------------------------------------------------------
(* The parts of the next-state relation *)

\* Subscriptions change and time passes while the queue and its workers stay.
Aside ==
    \/ \E h \in Hooks : CreateWebhook(h) \/ DeleteWebhook(h)
    \/ \E v \in Verifiers : Verify(v) \/ FailVerify(v)
    \/ Pass

\* The disjuncts of Next, with everything that is not delivery in one.
LEMMA NextParts ==
    ASSUME [Next]_vars
    PROVE  \/ Aside
           \/ Emit
           \/ \E w \in Workers : StartRun(w) \/ Pick(w) \/ Send(w) \/ Record(w) \/ Crash(w)
           \/ UNCHANGED vars
  BY DEF Next, Deliver, Aside

\* Whatever is done aside leaves the queue and its workers alone.
LEMMA AsideQuiet ==
    ASSUME Aside
    PROVE  UNCHANGED <<delivery, emits, pc, run, history, crashes>>
  BY DEF Aside, CreateWebhook, DeleteWebhook, Verify, BeginVerify, EndVerify, FailVerify, Pass

\* The row an attempt leaves behind.
LEMMA AttemptedType ==
    ASSUME NEW seen \in Nat, seen < MAX_ATTEMPTS, NEW now \in Nat, NEW ok \in BOOLEAN
    PROVE  /\ Attempted(seen, now, ok).attempts = seen + 1
           /\ Attempted(seen, now, ok) \in DeliveryRows
           /\ Attempted(seen, now, ok).status # "absent"
           /\ Attempted(seen, now, ok).status = "retrying" => seen + 1 < MAX_ATTEMPTS
           /\ Attempted(seen, now, ok).status = "dropped" => seen + 1 = MAX_ATTEMPTS
           /\ Attempted(seen, now, ok).status = "delivered" <=> ok
           /\ Attempted(seen, now, ok).status = "retrying" =>
                Attempted(seen, now, ok).next = now + RETRY_SCHEDULE[seen + 2]
<1>1. MAX_ATTEMPTS \in Nat /\ \A n \in 1..MAX_ATTEMPTS : RETRY_SCHEDULE[n] \in Nat
  BY ScheduleAssumption DEF MAX_ATTEMPTS
<1>2. Attempted(seen, now, ok).status = "retrying" =>
        Attempted(seen, now, ok).next = now + RETRY_SCHEDULE[seen + 2]
  <2>1. seen + 1 + 1 = seen + 2
    OBVIOUS
  <2> QED
    BY <2>1 DEF Attempted
<1> QED
  BY <1>1, <1>2 DEF Attempted, DeliveryRows

\* What a worker that has a row knows of it.
LEMMA BusyFacts ==
    ASSUME IInv, NEW w \in Workers, Busy(w)
    PROVE  /\ run[w].id \in Deliveries
           /\ run[w].id # None
           /\ run[w].seen \in Nat /\ run[w].seen < MAX_ATTEMPTS
           /\ run[w].now \in Nat /\ run[w].done \in Nat /\ run[w].ok \in BOOLEAN
           /\ HookOf(run[w].id) \in Hooks
           /\ run[w].id[2] <= emits
<1>1. /\ run[w].id \in Deliveries
      /\ delivery[run[w].id].status = "retrying"
      /\ delivery[run[w].id].attempts = run[w].seen
  BY DEF IInv, RowsLocked
<1>2. run[w].id # None
  BY <1>1, ScheduleAssumption DEF Deliveries
<1>3. run[w].seen < MAX_ATTEMPTS /\ ~(run[w].id[2] > emits)
  BY <1>1 DEF IInv, QueueOpen
<1>4. run[w] \in RunRecords
  BY DEF IInv, TypeOK, RunRecords
<1>5. run[w].seen \in Nat /\ run[w].now \in Nat /\ run[w].done \in Nat /\ run[w].ok \in BOOLEAN
  BY <1>4, ScheduleAssumption DEF MAX_ATTEMPTS, RunRecords
<1>6. HookOf(run[w].id) \in Hooks /\ run[w].id[2] \in Nat
  BY <1>1, ScheduleAssumption DEF Deliveries, HookOf
<1>7. emits \in Nat
  BY ScheduleAssumption DEF IInv, TypeOK
<1> QED
  BY <1>1, <1>2, <1>3, <1>5, <1>6, <1>7

\* The numbers among the constants.
LEMMA Numbers ==
    /\ MAX_ATTEMPTS \in Nat /\ MAX_ATTEMPTS > 0
    /\ Limit \in Nat /\ Limit > 0
    /\ MaxEmits \in Nat /\ MaxCrashes \in Nat
  BY ScheduleAssumption DEF MAX_ATTEMPTS

\* A worker outside deliver_once is well typed.
LEMMA NoRunType == NoRun \in RunRecords
  BY Numbers DEF NoRun, RunRecords

-------------------------------------------------------------------------------
(* Types *)

\* The initial state is well typed.
LEMMA TypeInit == Init => TypeOK
<1>1. MAX_ATTEMPTS \in Nat
  BY ScheduleAssumption DEF MAX_ATTEMPTS
<1> QED
  BY <1>1, ScheduleAssumption DEF Init, TypeOK, NoDelivery, NoRun

\* Every step keeps the types; that attempts stay within the schedule needs the
\* other parts of the invariant.
LEMMA TypeNext == IInv /\ [Next]_vars => TypeOK'
<1> SUFFICES ASSUME IInv, [Next]_vars
             PROVE  TypeOK'
  OBVIOUS
<1> USE DEF history, DeliveryRows, RunRecords
<1>t. TypeOK
  BY DEF IInv
<1>1. CASE Aside
  <2>1. ASSUME NEW h \in Hooks, CreateWebhook(h) \/ DeleteWebhook(h)
        PROVE  TypeOK'
    BY <2>1, <1>t DEF CreateWebhook, DeleteWebhook, TypeOK
  <2>2. ASSUME NEW v \in Verifiers, Verify(v) \/ FailVerify(v)
        PROVE  TypeOK'
    BY <2>2, <1>t DEF Verify, BeginVerify, EndVerify, FailVerify, TypeOK
  <2>3. CASE Pass
    BY <2>3, <1>t DEF Pass, TypeOK
  <2> QED
    BY <1>1, <2>1, <2>2, <2>3 DEF Aside
<1>2. CASE Emit
  <2>1. emits' \in 0..MaxEmits
    BY <1>2, <1>t, ScheduleAssumption DEF Emit, TypeOK
  <2>2. [status |-> "retrying", attempts |-> 0, next |-> clock] \in DeliveryRows
    BY <1>t, ScheduleAssumption DEF TypeOK, MAX_ATTEMPTS
  <2> QED
    BY <1>2, <1>t, <2>1, <2>2 DEF Emit, TypeOK
<1>3. ASSUME NEW w \in Workers, StartRun(w)
      PROVE  TypeOK'
  <2>1. [NoRun EXCEPT !.now = clock] \in RunRecords
    <3>1. clock \in Nat
      BY <1>t DEF TypeOK
    <3> QED
      BY <3>1, NoRunType
  <2> QED
    BY <1>3, <1>t, <2>1 DEF StartRun, TypeOK
<1>4. ASSUME NEW w \in Workers, Pick(w)
      PROVE  TypeOK'
  <2>1. NoRun \in RunRecords
    BY NoRunType
  <2>2. ASSUME NEW d \in Deliveries
        PROVE  [run[w] EXCEPT !.id = d, !.seen = delivery[d].attempts] \in RunRecords
    BY <1>t DEF TypeOK
  <2>3. \/ run' = [run EXCEPT ![w] = NoRun]
        \/ \E d \in Deliveries :
                run' = [run EXCEPT ![w] = [run[w] EXCEPT !.id = d, !.seen = delivery[d].attempts]]
    BY <1>4, <1>t DEF Pick, Due, TypeOK
  <2>4. run' \in [Workers -> RunRecords]
    <3>1. run \in [Workers -> RunRecords]
      BY <1>t DEF TypeOK, RunRecords
    <3>2. CASE run' = [run EXCEPT ![w] = NoRun]
      BY <3>1, <3>2, <2>1
    <3>3. ASSUME NEW d \in Deliveries,
                 run' = [run EXCEPT ![w] = [run[w] EXCEPT !.id = d, !.seen = delivery[d].attempts]]
          PROVE  run' \in [Workers -> RunRecords]
      BY <3>1, <3>3, <2>2
    <3> QED
      BY <2>3, <3>2, <3>3
  <2>5. pc' \in [Workers -> {"idle", "pick", "send", "record"}]
    BY <1>4, <1>t DEF Pick, TypeOK
  <2> QED
    BY <1>4, <1>t, <2>4, <2>5 DEF Pick, TypeOK
<1>5. ASSUME NEW w \in Workers, Send(w)
      PROVE  TypeOK'
  <2>1. run[w].id \in Deliveries
    BY <1>5, BusyFacts DEF Send, Busy
  <2>2. run' \in [Workers -> RunRecords]
    <3>1. run \in [Workers -> RunRecords]
      BY <1>t DEF TypeOK
    <3>2. PICK ok \in BOOLEAN : run' = [run EXCEPT ![w] = [run[w] EXCEPT !.ok = ok]]
      BY <1>5 DEF Send
    <3>3. [run[w] EXCEPT !.ok = ok] \in RunRecords
      BY <3>1
    <3> QED
      BY <3>1, <3>2, <3>3
  <2>3. tries' \in [Deliveries -> Nat] /\ received' \in [Deliveries -> Nat]
    BY <1>5, <1>t, <2>1 DEF Send, TypeOK
  <2>4. pc' \in [Workers -> {"idle", "pick", "send", "record"}]
    BY <1>5, <1>t DEF Send, TypeOK
  <2>5. UNCHANGED <<hook, delivery, emits, clock, challenge, lost, began, crashes>>
    BY <1>5 DEF Send
  <2> QED
    BY <1>t, <2>2, <2>3, <2>4, <2>5 DEF TypeOK
<1>6. ASSUME NEW w \in Workers, Record(w)
      PROVE  TypeOK'
  <2>1. Busy(w)
    BY <1>6 DEF Record, Busy
  <2>2. Attempted(run[w].seen, run[w].now, run[w].ok) \in DeliveryRows
    BY <2>1, BusyFacts, AttemptedType
  <2>3. run[w].done + 1 \in 0..Limit
    BY <2>1, BusyFacts, ScheduleAssumption DEF IInv, RowsLocked
  <2>4. 0 \in 0..MAX_ATTEMPTS
    BY ScheduleAssumption DEF MAX_ATTEMPTS
  <2>5. delivery' \in [Deliveries -> DeliveryRows]
    BY <1>6, <1>t, <2>2 DEF Record, TypeOK
  <2>6. hook' \in [Hooks -> {"absent", "unverified", "verified", "suspended", "deleted"}]
    BY <1>6, <1>t DEF Record, TypeOK
  <2>7. run' \in [Workers -> RunRecords]
    BY <1>6, <1>t, <2>3, <2>4 DEF Record, TypeOK
  <2>8. pc' \in [Workers -> {"idle", "pick", "send", "record"}]
    BY <1>6, <1>t DEF Record, TypeOK
  <2>9. began' \in [Deliveries -> Seq(Nat)]
    <3>1. run[w].now \in Nat /\ began' = [began EXCEPT ![run[w].id] = Append(@, run[w].now)]
      BY <1>6, <2>1, BusyFacts DEF Record
    <3>2. began \in [Deliveries -> Seq(Nat)]
      BY <1>t DEF TypeOK
    <3>3. \A d \in Deliveries : Append(began[d], run[w].now) \in Seq(Nat)
      BY <3>1, <3>2
    <3> QED
      BY <3>1, <3>2, <3>3
  <2> QED
    BY <1>6, <1>t, <2>5, <2>6, <2>7, <2>8, <2>9 DEF Record, TypeOK
<1>7. ASSUME NEW w \in Workers, Crash(w)
      PROVE  TypeOK'
  <2>1. NoRun \in RunRecords
    BY NoRunType
  <2>2. crashes' \in 0..MaxCrashes
    <3>1. MaxCrashes \in Nat /\ crashes \in 0..MaxCrashes
      BY <1>t, ScheduleAssumption DEF TypeOK
    <3> QED
      BY <1>7, <3>1 DEF Crash
  <2>3. lost' \in [Deliveries -> Nat]
    <3>1. lost \in [Deliveries -> Nat]
      BY <1>t DEF TypeOK
    <3>2. lost' = lost \/ lost' = [lost EXCEPT ![run[w].id] = @ + 1]
      BY <1>7 DEF Crash
    <3> QED
      BY <3>1, <3>2
  <2> QED
    BY <1>7, <1>t, <2>1, <2>2, <2>3 DEF Crash, TypeOK
<1>8. CASE UNCHANGED vars
  BY <1>8, <1>t DEF vars, TypeOK
<1> QED
  BY <1>1, <1>2, <1>3, <1>4, <1>5, <1>6, <1>7, <1>8, NextParts

-------------------------------------------------------------------------------
(* The lock *)

\* A row that a worker has stays as it was read: the others skip it, and emit
\* adds rows that nobody can have yet.
LEMMA LockedNext == IInv /\ [Next]_vars => RowsLocked'
<1> SUFFICES ASSUME IInv, [Next]_vars
             PROVE  RowsLocked'
  OBVIOUS
<1> USE DEF Busy
<1>t. TypeOK /\ RowsLocked /\ QueueOpen
  BY DEF IInv
<1>f. /\ delivery \in [Deliveries -> DeliveryRows]
      /\ run \in [Workers -> RunRecords]
      /\ pc \in [Workers -> {"idle", "pick", "send", "record"}]
  BY <1>t DEF TypeOK, DeliveryRows, RunRecords
<1>1. CASE Aside
  BY <1>1, <1>t, AsideQuiet DEF RowsLocked
<1>2. CASE Emit
  <2>1. ASSUME NEW w \in Workers, Busy(w)
        PROVE  delivery'[run[w].id] = delivery[run[w].id]
    <3>1. run[w].id \in Deliveries /\ run[w].id[2] <= emits /\ run[w].id[2] \in Nat /\ emits \in Nat
      BY <2>1, <1>t, BusyFacts, Numbers DEF TypeOK, Deliveries
    <3> QED
      BY <1>2, <3>1 DEF Emit
  <2> QED
    BY <1>2, <1>t, <2>1 DEF Emit, RowsLocked
<1>3. ASSUME NEW w \in Workers, StartRun(w)
      PROVE  RowsLocked'
  BY <1>3, <1>t, <1>f DEF StartRun, NoRun, RowsLocked
<1>4. ASSUME NEW w \in Workers, Pick(w)
      PROVE  RowsLocked'
  <2>1. CASE /\ run' = [run EXCEPT ![w] = NoRun]
             /\ pc' = [pc EXCEPT ![w] = "idle"]
             /\ delivery' = delivery
    BY <2>1, <1>t, <1>f DEF NoRun, RowsLocked
  <2>2. ASSUME NEW d \in Due(w), run[w].done < Limit, delivery' = delivery,
               run' = [run EXCEPT ![w].id = d, ![w].seen = delivery[d].attempts],
               pc' = [pc EXCEPT ![w] = "send"]
        PROVE  RowsLocked'
    <3>1. d \in Deliveries /\ delivery[d].status = "retrying" /\ \A v \in Workers \ {w} : run[v].id # d
      BY <2>2 DEF Due, Locked
    <3>2. /\ run'[w].id = d /\ run'[w].seen = delivery[d].attempts /\ run'[w].done = run[w].done
          /\ \A v \in Workers \ {w} : run'[v] = run[v] /\ pc'[v] = pc[v]
          /\ pc'[w] = "send"
      BY <2>2, <1>f DEF RunRecords
    <3>3. ASSUME NEW v \in Workers
          PROVE  /\ Busy(v)' =>
                    /\ run'[v].id \in Deliveries
                    /\ delivery'[run'[v].id].status = "retrying"
                    /\ delivery'[run'[v].id].attempts = run'[v].seen
                    /\ run'[v].done < Limit
                 /\ ~Busy(v)' => run'[v].id = None
      <4>1. CASE v = w
        BY <4>1, <2>2, <3>1, <3>2
      <4>2. CASE v # w
        BY <4>2, <2>2, <3>2, <1>t DEF RowsLocked
      <4> QED
        BY <4>1, <4>2
    <3>4. ASSUME NEW u \in Workers, NEW v \in Workers, u # v, Busy(u)', Busy(v)'
          PROVE  run'[u].id # run'[v].id
      <4>1. CASE u # w /\ v # w
        BY <4>1, <3>2, <3>4, <1>t DEF RowsLocked
      <4>2. CASE u = w \/ v = w
        BY <4>2, <3>1, <3>2, <3>4
      <4> QED
        BY <4>1, <4>2
    <3> QED
      BY <3>3, <3>4 DEF RowsLocked
  <2> QED
    BY <1>4, <2>1, <2>2 DEF Pick
<1>5. ASSUME NEW w \in Workers, Send(w)
      PROVE  RowsLocked'
  <2>1. /\ pc' = [pc EXCEPT ![w] = "record"] /\ pc[w] = "send" /\ delivery' = delivery
        /\ \E ok \in BOOLEAN : run' = [run EXCEPT ![w].ok = ok]
    BY <1>5 DEF Send
  <2>2. \A v \in Workers : /\ run'[v].id = run[v].id /\ run'[v].seen = run[v].seen
                           /\ run'[v].done = run[v].done
                           /\ Busy(v)' <=> Busy(v)
    BY <2>1, <1>f DEF RunRecords
  <2> QED
    BY <2>1, <2>2, <1>t DEF RowsLocked
<1>6. ASSUME NEW w \in Workers, Record(w)
      PROVE  RowsLocked'
  <2>1. /\ pc' = [pc EXCEPT ![w] = "pick"] /\ pc[w] = "record"
        /\ run' = [run EXCEPT ![w] = [run[w] EXCEPT !.done = @ + 1, !.id = None, !.seen = 0, !.ok = FALSE]]
        /\ \E new : delivery' = [delivery EXCEPT ![run[w].id] = new]
    BY <1>6 DEF Record
  <2>2. /\ run'[w].id = None /\ ~Busy(w)'
        /\ \A v \in Workers \ {w} : run'[v] = run[v] /\ pc'[v] = pc[v]
    BY <2>1, <1>f DEF RunRecords
  <2>3. ASSUME NEW v \in Workers \ {w}, Busy(v)
        PROVE  delivery'[run[v].id] = delivery[run[v].id]
    BY <2>1, <2>3, <1>t, <1>f DEF RowsLocked
  <2> QED
    BY <2>2, <2>3, <1>t DEF RowsLocked
<1>7. ASSUME NEW w \in Workers, Crash(w)
      PROVE  RowsLocked'
  BY <1>7, <1>t, <1>f DEF Crash, NoRun, RowsLocked
<1>8. CASE UNCHANGED vars
  BY <1>8, <1>t DEF vars, RowsLocked
<1> QED
  BY <1>1, <1>2, <1>3, <1>4, <1>5, <1>6, <1>7, <1>8, NextParts

-------------------------------------------------------------------------------
(* The queue, the answers and the accounts *)

\* A worker records an attempt for the row it has, and touches no other.
LEMMA RecordEffect ==
    ASSUME IInv, NEW w \in Workers, Record(w)
    PROVE  /\ delivery' = [delivery EXCEPT ![run[w].id] =
                                Attempted(run[w].seen, run[w].now, run[w].ok)]
           /\ delivery'[run[w].id] = Attempted(run[w].seen, run[w].now, run[w].ok)
           /\ \A d \in Deliveries \ {run[w].id} : delivery'[d] = delivery[d]
           /\ delivery[run[w].id].status = "retrying"
           /\ delivery[run[w].id].attempts = run[w].seen
           /\ UNCHANGED <<emits, tries, received, lost>>
           /\ began' = [began EXCEPT ![run[w].id] = Append(@, run[w].now)]
  BY BusyFacts DEF Record, Busy, IInv, TypeOK, RowsLocked

\* emit changes only rows that did not exist.
LEMMA EmitEffect ==
    ASSUME IInv, Emit, NEW d \in Deliveries
    PROVE  /\ emits' = emits + 1
           /\ \/ delivery'[d] = delivery[d]
              \/ /\ d[2] = emits + 1
                 /\ delivery[d].status = "absent"
                 /\ delivery'[d] = [status |-> "retrying", attempts |-> 0, next |-> clock]
           /\ UNCHANGED <<hook, pc, run, history>>
<1>1. emits \in Nat
  BY Numbers DEF IInv, TypeOK
<1>2. d[2] = emits + 1 => delivery[d].status = "absent"
  BY <1>1 DEF IInv, QueueOpen
<1> QED
  BY <1>2 DEF Emit

\* An attempt that is not the last leaves attempts for the next one.
LEMMA QueueNext == IInv /\ [Next]_vars => QueueOpen'
<1> SUFFICES ASSUME IInv, [Next]_vars
             PROVE  QueueOpen'
  OBVIOUS
<1>t. QueueOpen
  BY DEF IInv
<1>e. emits \in Nat /\ \A d \in Deliveries : d[2] \in Nat
  BY Numbers DEF IInv, TypeOK, Deliveries
<1>1. CASE Emit
  BY <1>1, <1>t, <1>e, EmitEffect, Numbers DEF QueueOpen
<1>2. ASSUME NEW w \in Workers, Record(w)
      PROVE  QueueOpen'
  <2>1. /\ run[w].id \in Deliveries /\ run[w].id[2] <= emits
        /\ Attempted(run[w].seen, run[w].now, run[w].ok).status # "absent"
        /\ Attempted(run[w].seen, run[w].now, run[w].ok).attempts = run[w].seen + 1
        /\ Attempted(run[w].seen, run[w].now, run[w].ok).status = "retrying" => run[w].seen + 1 < MAX_ATTEMPTS
    BY <1>2, BusyFacts, AttemptedType DEF Record, Busy
  <2> QED
    BY <1>2, <2>1, <1>t, <1>e, RecordEffect DEF QueueOpen
<1>3. CASE UNCHANGED <<delivery, emits>>
  BY <1>3, <1>t DEF QueueOpen
<1> QED
  BY <1>1, <1>2, <1>3, NextParts, AsideQuiet DEF StartRun, Pick, Send, Crash, vars

\* Seq(Nat), as the runs of the recorded attempts need it.
LEMMA AppendTime ==
    ASSUME NEW s \in Seq(Nat), NEW t \in Nat
    PROVE  /\ Len(Append(s, t)) = Len(s) + 1
           /\ Append(s, t)[Len(s) + 1] = t
           /\ \A n \in 1..Len(s) : Append(s, t)[n] = s[n]
  OBVIOUS

\* What recording an attempt adds to the history of its delivery.
LEMMA RecordTime ==
    ASSUME IInv, NEW w \in Workers, Record(w), NEW d, d = run[w].id
    PROVE  /\ d \in Deliveries
           /\ Len(began[d]) = run[w].seen
           /\ Len(began'[d]) = run[w].seen + 1
           /\ began'[d][run[w].seen + 1] = run[w].now
           /\ \A n \in 1..run[w].seen : began'[d][n] = began[d][n]
           /\ \A e \in Deliveries \ {d} : began'[e] = began[e]
<1>1. d \in Deliveries /\ run[w].now \in Nat /\ run[w].seen \in Nat
  BY BusyFacts DEF Record, Busy
<1>2. began \in [Deliveries -> Seq(Nat)] /\ began' = [began EXCEPT ![d] = Append(@, run[w].now)]
  BY RecordEffect DEF IInv, TypeOK
<1>3. Len(began[d]) = run[w].seen
  BY <1>1, RecordEffect DEF IInv, DelaysKept
<1>4. began'[d] = Append(began[d], run[w].now) /\ \A e \in Deliveries \ {d} : began'[e] = began[e]
  BY <1>1, <1>2
<1>5. began[d] \in Seq(Nat)
  BY <1>1, <1>2
<1> QED
  BY <1>1, <1>3, <1>4, <1>5, AppendTime

\* The next attempt is scheduled when one is recorded, and nobody begins it early.
LEMMA DelaysNext == IInv /\ [Next]_vars => DelaysKept'
<1> SUFFICES ASSUME IInv, [Next]_vars
             PROVE  DelaysKept'
  OBVIOUS
<1>t. DelaysKept /\ RowsLocked /\ QueueOpen
  BY DEF IInv
<1>f. /\ run \in [Workers -> RunRecords]
      /\ pc \in [Workers -> {"idle", "pick", "send", "record"}]
  BY DEF IInv, TypeOK, RunRecords
<1>1. CASE UNCHANGED <<delivery, pc, run, began>>
  BY <1>1, <1>t DEF DelaysKept, Busy
<1>2. CASE Emit
  <2>1. ASSUME NEW d \in Deliveries
        PROVE  /\ Len(began'[d]) = delivery'[d].attempts
               /\ delivery'[d].status = "retrying" /\ delivery'[d].attempts > 0 => delivery'[d] = delivery[d]
    BY <1>2, <1>t, EmitEffect DEF DelaysKept, QueueOpen, history
  <2>2. ASSUME NEW w \in Workers, Busy(w)
        PROVE  delivery'[run[w].id] = delivery[run[w].id]
    BY <1>2, <2>2, <1>t, BusyFacts, EmitEffect DEF RowsLocked
  <2>3. UNCHANGED <<pc, run, began>>
    BY <1>2 DEF Emit, history
  <2> QED
    BY <2>1, <2>2, <2>3, <1>t DEF DelaysKept, Busy
<1>3. ASSUME NEW w \in Workers, StartRun(w) \/ Pick(w) \/ Send(w) \/ Crash(w)
      PROVE  DelaysKept'
  <2>1. UNCHANGED <<delivery, began>> /\ \A v \in Workers \ {w} : pc'[v] = pc[v] /\ run'[v] = run[v]
    BY <1>3, <1>f DEF StartRun, Pick, Send, Crash, history
  <2>2. Busy(w)' => delivery[run'[w].id].next <= run'[w].now
    <3>1. CASE StartRun(w) \/ Crash(w)
      BY <3>1, <1>f DEF StartRun, Crash, Busy
    <3>2. CASE Pick(w)
      <4>1. CASE pc' = [pc EXCEPT ![w] = "idle"]
        BY <4>1, <1>f DEF Busy
      <4>2. ASSUME NEW d \in Due(w), run' = [run EXCEPT ![w].id = d, ![w].seen = delivery[d].attempts]
            PROVE  delivery[run'[w].id].next <= run'[w].now
        <5>1. run'[w].id = d /\ run'[w].now = run[w].now
          BY <4>2, <1>f DEF RunRecords
        <5> QED
          BY <5>1 DEF Due
      <4> QED
        BY <3>2, <4>1, <4>2 DEF Pick
    <3>3. CASE Send(w)
      <4>1. Busy(w) /\ run'[w].id = run[w].id /\ run'[w].now = run[w].now
        BY <3>3, <1>f DEF Send, Busy, RunRecords
      <4> QED
        BY <4>1, <1>t DEF DelaysKept
    <3> QED
      BY <1>3, <3>1, <3>2, <3>3
  <2> QED
    BY <2>1, <2>2, <1>t DEF DelaysKept, Busy
<1>4. ASSUME NEW w \in Workers, Record(w)
      PROVE  DelaysKept'
  <2> DEFINE d == run[w].id
             new == Attempted(run[w].seen, run[w].now, run[w].ok)
  <2>1. /\ d \in Deliveries /\ run[w].seen \in Nat
        /\ Len(began'[d]) = run[w].seen + 1
        /\ began'[d][run[w].seen + 1] = run[w].now
        /\ \A e \in Deliveries \ {d} : began'[e] = began[e]
    BY <1>4, RecordTime, BusyFacts DEF Record, Busy
  <2>2. /\ new.attempts = run[w].seen + 1
        /\ new.status = "retrying" => new.next = run[w].now + RETRY_SCHEDULE[run[w].seen + 2]
    BY <1>4, BusyFacts, AttemptedType DEF Record, Busy
  <2>3. delivery'[d] = new /\ \A e \in Deliveries \ {d} : delivery'[e] = delivery[e]
    BY <1>4, RecordEffect
  <2>4. /\ pc'[w] = "pick"
        /\ \A v \in Workers \ {w} : pc'[v] = pc[v] /\ run'[v] = run[v]
    BY <1>4, <1>f DEF Record
  <2>5. \A v \in Workers \ {w} : Busy(v) => run[v].id \in Deliveries \ {d}
    BY <1>4, <1>t DEF RowsLocked, Record, Busy
  <2>6. run[w].seen + 1 + 1 = run[w].seen + 2
    BY <2>1
  <2> HIDE DEF d, new
  <2>7. \A e \in Deliveries :
            /\ Len(began'[e]) = delivery'[e].attempts
            /\ delivery'[e].status = "retrying" /\ delivery'[e].attempts > 0 =>
                delivery'[e].next = began'[e][delivery'[e].attempts] + RETRY_SCHEDULE[delivery'[e].attempts + 1]
    <3>1. ASSUME NEW e \in Deliveries, e = d
          PROVE  /\ Len(began'[e]) = delivery'[e].attempts
                 /\ delivery'[e].status = "retrying" =>
                     delivery'[e].next = began'[e][delivery'[e].attempts] + RETRY_SCHEDULE[delivery'[e].attempts + 1]
      BY <3>1, <2>1, <2>2, <2>3, <2>6
    <3>2. ASSUME NEW e \in Deliveries, e # d
          PROVE  began'[e] = began[e] /\ delivery'[e] = delivery[e]
      BY <3>2, <2>1, <2>3
    <3> QED
      BY <3>1, <3>2, <1>t DEF DelaysKept
  <2>8. \A v \in Workers : Busy(v)' => delivery'[run'[v].id].next <= run'[v].now
    BY <2>3, <2>4, <2>5, <1>t DEF DelaysKept, Busy
  <2> QED
    BY <2>7, <2>8 DEF DelaysKept
<1> QED
  BY <1>1, <1>2, <1>3, <1>4, NextParts, AsideQuiet DEF vars, history

\* A consumer that answers 2xx has received the notification, and keeps it.
LEMMA ReceivedNext == IInv /\ [Next]_vars => AnswersReceived'
<1> SUFFICES ASSUME IInv, [Next]_vars
             PROVE  AnswersReceived'
  OBVIOUS
<1>t. AnswersReceived
  BY DEF IInv
<1>f. /\ received \in [Deliveries -> Nat]
      /\ run \in [Workers -> RunRecords]
      /\ pc \in [Workers -> {"idle", "pick", "send", "record"}]
  BY DEF IInv, TypeOK, RunRecords
<1>1. CASE UNCHANGED <<pc, run, received>>
  BY <1>1, <1>t DEF AnswersReceived
<1>2. ASSUME NEW w \in Workers, StartRun(w) \/ Pick(w) \/ Record(w) \/ Crash(w)
      PROVE  AnswersReceived'
  <2>1. /\ pc'[w] # "record" /\ received' = received
        /\ \A v \in Workers \ {w} : pc'[v] = pc[v] /\ run'[v] = run[v]
    BY <1>2, <1>f DEF StartRun, Pick, Record, Crash, history
  <2> QED
    BY <2>1, <1>t DEF AnswersReceived
<1>3. ASSUME NEW w \in Workers, Send(w)
      PROVE  AnswersReceived'
  <2>1. PICK got \in BOOLEAN, ok \in BOOLEAN :
            /\ ok => got
            /\ run' = [run EXCEPT ![w].ok = ok]
            /\ received' = [received EXCEPT ![run[w].id] = IF got THEN @ + 1 ELSE @]
    BY <1>3 DEF Send
  <2>2. run[w].id \in Deliveries
    BY <1>3, BusyFacts DEF Send, Busy
  <2>3. /\ run'[w].id = run[w].id /\ run'[w].ok = ok
        /\ \A v \in Workers \ {w} : run'[v] = run[v] /\ pc'[v] = pc[v]
    BY <1>3, <2>1, <1>f DEF Send, RunRecords
  <2>4. ok => received'[run[w].id] > 0
    BY <2>1, <2>2, <1>f
  <2>5. ASSUME NEW v \in Workers \ {w}, pc[v] = "record"
        PROVE  received'[run[v].id] >= received[run[v].id] /\ received[run[v].id] \in Nat
    <3>1. run[v].id \in Deliveries
      BY <2>5, BusyFacts DEF Busy
    <3> QED
      BY <3>1, <2>1, <2>2, <1>f
  <2>6. ASSUME NEW v \in Workers, pc'[v] = "record", run'[v].ok
        PROVE  received'[run'[v].id] > 0
    <3>1. CASE v = w
      BY <3>1, <2>6, <2>3, <2>4
    <3>2. CASE v # w
      <4>1. received[run[v].id] > 0
        BY <3>2, <2>6, <2>3, <1>t DEF AnswersReceived
      <4>2. received'[run[v].id] > 0
        BY <3>2, <4>1, <2>5, <2>6, <2>3, <2>1, <2>2, <1>f
      <4> QED
        BY <3>2, <4>2, <2>3
    <3> QED
      BY <3>1, <3>2
  <2> QED
    BY <2>6 DEF AnswersReceived
<1> QED
  BY <1>1, <1>2, <1>3, NextParts, AsideQuiet DEF Emit, history, vars

\* At most one worker has an answer about a delivery in its hands.
LEMMA RecordingAlone ==
    ASSUME IInv, NEW w \in Workers, Busy(w)
    PROVE  Recording(run[w].id) = IF pc[w] = "record" THEN {w} ELSE {}
  BY DEF IInv, RowsLocked, Recording, Busy

\* The sets whose sizes the accounts need.
LEMMA Sizes == Cardinality({}) = 0 /\ \A w : Cardinality({w}) = 1
  BY FS_EmptySet, FS_Singleton

\* A POST enters the accounts when it is made, and moves from the worker's hands to
\* attempt_count or, when the worker dies, to the lost ones.
LEMMA AccountsNext == IInv /\ [Next]_vars => TriesAccounted'
<1> SUFFICES ASSUME IInv, [Next]_vars
             PROVE  TriesAccounted'
  OBVIOUS
<1> USE DEF history
<1>t. TriesAccounted
  BY DEF IInv
<1>f. /\ delivery \in [Deliveries -> DeliveryRows]
      /\ tries \in [Deliveries -> Nat] /\ lost \in [Deliveries -> Nat]
      /\ run \in [Workers -> RunRecords]
      /\ pc \in [Workers -> {"idle", "pick", "send", "record"}]
  BY DEF IInv, TypeOK, RunRecords, DeliveryRows
<1>a. \A d \in Deliveries : delivery[d].attempts \in Nat
  BY <1>f, Numbers DEF DeliveryRows
<1>1. CASE UNCHANGED <<delivery, pc, run, tries, lost>>
  BY <1>1, <1>t DEF TriesAccounted, Recording
<1>2. CASE Emit
  <2>1. ASSUME NEW d \in Deliveries
        PROVE  delivery'[d].attempts = delivery[d].attempts
    BY <1>2, EmitEffect DEF IInv, QueueOpen
  <2>2. \A d \in Deliveries : Recording(d)' = Recording(d)
    BY <1>2 DEF Emit, Recording
  <2> QED
    BY <1>2, <1>t, <2>1, <2>2 DEF Emit, TriesAccounted
<1>3. ASSUME NEW w \in Workers,
             StartRun(w) \/ Pick(w) \/ (Crash(w) /\ pc[w] # "record")
      PROVE  TriesAccounted'
  <2>1. /\ pc[w] # "record" /\ pc'[w] # "record"
        /\ \A v \in Workers \ {w} : pc'[v] = pc[v] /\ run'[v] = run[v]
        /\ UNCHANGED <<delivery, tries, lost>>
    BY <1>3, <1>f DEF StartRun, Pick, Crash
  <2>2. \A d \in Deliveries : Recording(d)' = Recording(d)
    BY <2>1 DEF Recording
  <2> QED
    BY <1>t, <2>1, <2>2 DEF TriesAccounted
<1>4. ASSUME NEW w \in Workers, Send(w)
      PROVE  TriesAccounted'
  <2>0. PICK d \in Deliveries : d = run[w].id
    BY <1>4, BusyFacts DEF Send, Busy
  <2>1. Recording(d) = {}
    BY <1>4, <2>0, RecordingAlone DEF Send, Busy
  <2>2. /\ tries' = [tries EXCEPT ![d] = @ + 1] /\ UNCHANGED <<delivery, lost>>
        /\ pc' = [pc EXCEPT ![w] = "record"] /\ pc[w] = "send"
        /\ \E ok \in BOOLEAN : run' = [run EXCEPT ![w].ok = ok]
    BY <1>4, <2>0 DEF Send
  <2>3. /\ pc'[w] = "record"
        /\ \A v \in Workers : run'[v].id = run[v].id
        /\ \A v \in Workers \ {w} : pc'[v] = pc[v]
    BY <2>2, <1>f DEF RunRecords
  <2>4. Recording(d)' = {w}
    BY <2>0, <2>1, <2>3 DEF Recording
  <2>5. \A e \in Deliveries \ {d} : Recording(e)' = Recording(e)
    BY <2>0, <2>2, <2>3 DEF Recording
  <2>6. tries[d] = delivery[d].attempts + lost[d] + 0
    BY <2>1, <1>t, Sizes DEF TriesAccounted
  <2>7. tries'[d] = delivery'[d].attempts + lost'[d] + Cardinality(Recording(d)')
    <3>1. Cardinality(Recording(d)') = 1
      BY <2>4, Sizes
    <3>2. tries'[d] = tries[d] + 1
      BY <2>1, <2>2, <1>f
    <3> QED
      BY <3>1, <3>2, <2>1, <2>2, <2>6, <1>f, <1>a
  <2>8. \A e \in Deliveries \ {d} :
            tries'[e] = delivery'[e].attempts + lost'[e] + Cardinality(Recording(e)')
    BY <2>1, <2>2, <2>5, <1>t, <1>f DEF TriesAccounted
  <2> QED
    BY <2>7, <2>8 DEF TriesAccounted, Recording
<1>5. ASSUME NEW w \in Workers, pc[w] = "record", Record(w) \/ Crash(w)
      PROVE  TriesAccounted'
  <2>0. PICK d \in Deliveries : d = run[w].id
    BY <1>5, BusyFacts DEF Busy
  <2>1. Recording(d) = {w}
    BY <1>5, <2>0, RecordingAlone DEF Busy
  <2>2. /\ pc'[w] # "record" /\ tries' = tries
        /\ \A v \in Workers \ {w} : pc'[v] = pc[v] /\ run'[v] = run[v]
    BY <1>5, <1>f DEF Record, Crash
  <2>3. Recording(d)' = {}
    BY <2>0, <2>1, <2>2 DEF Recording
  <2>4. \A e \in Deliveries \ {d} : Recording(e)' = Recording(e)
    BY <2>0, <2>2 DEF Recording
  <2>5. \A e \in Deliveries \ {d} : delivery'[e] = delivery[e] /\ lost'[e] = lost[e]
    BY <1>5, <2>0, <1>f, RecordEffect DEF Crash
  <2>6. delivery'[d].attempts + lost'[d] = delivery[d].attempts + lost[d] + 1
    <3>1. CASE Record(w)
      <4>1. delivery'[d].attempts = delivery[d].attempts + 1 /\ lost'[d] = lost[d]
        BY <1>5, <2>0, <3>1, RecordEffect, BusyFacts, AttemptedType DEF Busy
      <4> QED
        BY <4>1, <2>1, <1>f, <1>a
    <3>2. CASE Crash(w)
      <4>1. delivery' = delivery /\ lost'[d] = lost[d] + 1
        BY <1>5, <3>2, <2>0, <1>f DEF Crash
      <4> QED
        BY <4>1, <2>1, <1>f, <1>a
    <3> QED
      BY <1>5, <3>1, <3>2
  <2>7. tries[d] = delivery[d].attempts + lost[d] + 1
    BY <2>1, <1>t, Sizes DEF TriesAccounted
  <2>8. Cardinality(Recording(d)') = 0
    BY <2>3, Sizes
  <2>9. \A e \in Deliveries :
            tries'[e] = delivery'[e].attempts + lost'[e] + Cardinality(Recording(e)')
    <3>1. tries'[d] = delivery'[d].attempts + lost'[d] + Cardinality(Recording(d)')
      <4>1. tries'[d] \in Nat
        BY <2>1, <2>2, <1>f
      <4> QED
        BY <4>1, <2>2, <2>6, <2>7, <2>8
    <3>2. ASSUME NEW e \in Deliveries \ {d}
          PROVE  tries'[e] = delivery'[e].attempts + lost'[e] + Cardinality(Recording(e)')
      BY <2>2, <2>4, <2>5, <1>t DEF TriesAccounted
    <3> QED
      BY <3>1, <3>2
  <2> QED
    BY <2>9 DEF TriesAccounted, Recording
<1>6. \A w \in Workers : Record(w) => pc[w] = "record"
  BY DEF Record
<1> QED
  BY <1>1, <1>2, <1>3, <1>4, <1>5, <1>6, NextParts, AsideQuiet DEF vars

\* Ended deliveries stay, and an attempt that ends one is truthful about it.
LEMMA LogNext == IInv /\ [Next]_vars => LogIsTruthful'
<1> SUFFICES ASSUME IInv, [Next]_vars
             PROVE  LogIsTruthful'
  OBVIOUS
<1> USE DEF history
<1>t. LogIsTruthful
  BY DEF IInv
<1>f. /\ hook \in [Hooks -> {"absent", "unverified", "verified", "suspended", "deleted"}]
      /\ received \in [Deliveries -> Nat]
      /\ challenge \in [Verifiers -> Hooks \cup {None}]
  BY DEF IInv, TypeOK
<1>1. CASE Aside
  <2>1. \A h \in Hooks : hook'[h] = "suspended" => hook[h] = "suspended"
    BY <1>1, <1>f
    DEF Aside, CreateWebhook, DeleteWebhook, Verify, BeginVerify, EndVerify, FailVerify, Pass
  <2> QED
    BY <1>1, <1>t, <2>1, AsideQuiet DEF LogIsTruthful
<1>2. CASE Emit
  BY <1>2, <1>t, EmitEffect DEF LogIsTruthful, Emit
<1>3. ASSUME NEW w \in Workers, StartRun(w) \/ Pick(w) \/ Crash(w)
      PROVE  LogIsTruthful'
  <2>1. UNCHANGED <<hook, delivery, received, began>>
    BY <1>3 DEF StartRun, Pick, Crash
  <2> QED
    BY <1>t, <2>1 DEF LogIsTruthful
<1>4. ASSUME NEW w \in Workers, Send(w)
      PROVE  LogIsTruthful'
  <2>1. UNCHANGED <<hook, delivery, began>>
    BY <1>4 DEF Send
  <2>2. PICK got \in BOOLEAN :
            received' = [received EXCEPT ![run[w].id] = IF got THEN @ + 1 ELSE @]
    BY <1>4 DEF Send
  <2>3. \A d \in Deliveries : received[d] > 0 => received'[d] > 0
    BY <2>2, <1>f
  <2> QED
    BY <1>t, <2>1, <2>3 DEF LogIsTruthful
<1>5. ASSUME NEW w \in Workers, Record(w)
      PROVE  LogIsTruthful'
  <2>0. PICK d \in Deliveries : d = run[w].id
    BY <1>5, BusyFacts DEF Record, Busy
  <2> DEFINE new == Attempted(run[w].seen, run[w].now, run[w].ok)
  <2>1. /\ delivery'[d] = new
        /\ \A e \in Deliveries \ {d} : delivery'[e] = delivery[e]
        /\ delivery[d].status = "retrying"
        /\ received' = received
    BY <1>5, <2>0, RecordEffect
  <2>2. /\ new.status = "delivered" => run[w].ok
        /\ new.status = "dropped" => new.attempts = MAX_ATTEMPTS
    BY <1>5, BusyFacts, AttemptedType DEF Record, Busy
  <2>3. run[w].ok => received[d] > 0
    BY <1>5, <2>0 DEF Record, IInv, AnswersReceived
  <2>4. \/ hook' = hook
        \/ new.status = "dropped" /\ hook' = [hook EXCEPT ![HookOf(d)] = "suspended"]
    BY <1>5, <2>0 DEF Record
  <2> HIDE DEF new
  <2>5. \A e \in Deliveries : delivery[e].status = "dropped" => delivery'[e].status = "dropped"
    BY <2>1
  <2>6. ASSUME NEW h \in Hooks, hook'[h] = "suspended"
        PROVE  \E e \in Deliveries : HookOf(e) = h /\ delivery'[e].status = "dropped"
    <3>1. CASE hook[h] = "suspended"
      BY <3>1, <2>5, <1>t DEF LogIsTruthful
    <3>2. CASE hook[h] # "suspended"
      BY <3>2, <2>6, <2>4, <2>1, <1>f
    <3> QED
      BY <3>1, <3>2
  <2>7. \A e \in Deliveries : delivery'[e].status = "delivered" => received'[e] > 0
    BY <2>1, <2>2, <2>3, <1>t DEF LogIsTruthful
  <2>8. \A e \in Deliveries : delivery'[e].status = "dropped" => delivery'[e].attempts = MAX_ATTEMPTS
    BY <2>1, <2>2, <1>t DEF LogIsTruthful
  <2>9. ASSUME NEW e \in Deliveries, NEW n \in 2..Len(began'[e])
        PROVE  began'[e][n] >= began'[e][n - 1] + RETRY_SCHEDULE[n]
    <3>1. CASE e # d
      <4>1. began'[e] = began[e]
        BY <1>5, <2>0, <3>1, RecordTime
      <4> QED
        BY <2>9, <4>1, <1>t DEF LogIsTruthful
    <3>2. CASE e = d
      <4>1. /\ Len(began[d]) = run[w].seen /\ Len(began'[d]) = run[w].seen + 1
            /\ began'[d][run[w].seen + 1] = run[w].now
            /\ \A m \in 1..run[w].seen : began'[d][m] = began[d][m]
        BY <1>5, <2>0, RecordTime
      <4>2. run[w].seen \in Nat /\ run[w].now \in Nat
        BY <1>5, BusyFacts DEF Record, Busy
      <4>3. CASE n <= run[w].seen
        <5>1. n \in 2..Len(began[d]) /\ n \in 1..run[w].seen /\ n - 1 \in 1..run[w].seen
          BY <4>1, <4>2, <4>3
        <5>2. began[d][n] >= began[d][n - 1] + RETRY_SCHEDULE[n]
          BY <5>1, <1>t DEF LogIsTruthful
        <5> QED
          BY <3>2, <4>1, <5>1, <5>2
      <4>4. CASE n = run[w].seen + 1
        <5>1. run[w].seen > 0 /\ n - 1 = run[w].seen /\ run[w].seen \in 1..run[w].seen
          BY <4>2, <4>4
        <5>2. delivery[d].attempts = run[w].seen /\ delivery[d].status = "retrying"
          BY <1>5, <2>0, RecordEffect
        <5>3. delivery[d].next = began[d][run[w].seen] + RETRY_SCHEDULE[run[w].seen + 1]
          BY <5>1, <5>2 DEF IInv, DelaysKept
        <5>4. delivery[d].next <= run[w].now /\ delivery[d].next \in Nat
          BY <1>5, <2>0 DEF IInv, DelaysKept, TypeOK, Record, Busy
        <5>5. run[w].now >= began[d][run[w].seen] + RETRY_SCHEDULE[run[w].seen + 1]
          BY <4>2, <5>3, <5>4
        <5>6. began'[e][n] = run[w].now /\ began'[e][n - 1] = began[d][run[w].seen]
          BY <3>2, <4>1, <4>4, <5>1
        <5> QED
          BY <4>4, <5>5, <5>6
      <4> QED
        BY <2>9, <3>2, <4>1, <4>2, <4>3, <4>4
    <3> QED
      BY <3>1, <3>2
  <2> QED
    BY <2>6, <2>7, <2>8, <2>9 DEF LogIsTruthful
<1>6. CASE UNCHANGED vars
  BY <1>6, <1>t DEF vars, LogIsTruthful
<1> QED
  BY <1>1, <1>2, <1>3, <1>4, <1>5, <1>6, NextParts

\* The invariant holds before anything is subscribed.
LEMMA InvInit == Init => IInv
<1> SUFFICES ASSUME Init
             PROVE  IInv
  OBVIOUS
<1>1. RowsLocked /\ AnswersReceived
  BY DEF Init, RowsLocked, AnswersReceived, Busy, NoRun
<1>2. QueueOpen
  BY DEF Init, QueueOpen, NoDelivery
<1>3. TriesAccounted
  <2>1. \A d \in Deliveries : Recording(d) = {}
    BY DEF Init, Recording
  <2>2. \A d \in Deliveries : tries[d] = 0 /\ delivery[d].attempts = 0 /\ lost[d] = 0
    BY DEF Init, NoDelivery
  <2>3. 0 = 0 + 0 + 0
    OBVIOUS
  <2> QED
    BY <2>1, <2>2, <2>3, Sizes DEF TriesAccounted
<1>4. LogIsTruthful
  BY DEF Init, NoDelivery, LogIsTruthful
<1>5. DelaysKept
  BY DEF Init, NoDelivery, DelaysKept, Busy
<1> QED
  BY <1>1, <1>2, <1>3, <1>4, <1>5, TypeInit DEF IInv

-------------------------------------------------------------------------------
(* Theorems *)

\* The inductive invariant of deliver_once: the lock, the queue and the accounts.
THEOREM Invariance == Spec => []IInv
<1>1. IInv /\ [Next]_vars => IInv'
  BY TypeNext, LockedNext, QueueNext, DelaysNext, ReceivedNext, AccountsNext, LogNext DEF IInv
<1> QED
  BY <1>1, InvInit, PTL DEF Spec

\* Every variable of the subscriptions and the queue keeps its type; in particular
\* attempt_count stays within the schedule.
THEOREM TypeCorrect == Spec => []TypeOK
<1>1. IInv => TypeOK
  BY DEF IInv
<1> QED
  BY <1>1, Invariance, PTL

\* Every POST of deliver_once is recorded in attempt_count, about to be recorded,
\* or lost with the worker that made it.
THEOREM TriesAccountedHolds == Spec => []TriesAccounted
<1>1. IInv => TriesAccounted
  BY DEF IInv
<1> QED
  BY <1>1, Invariance, PTL

\* What the delivery log and the status of a subscription say has happened, and
\* the recorded attempts keep the delays of the schedule.
THEOREM LogIsTruthfulHolds == Spec => []LogIsTruthful
<1>1. IInv => LogIsTruthful
  BY DEF IInv
<1> QED
  BY <1>1, Invariance, PTL

\* deliver_once never touches a delivery again that is delivered or dropped.
THEOREM EndedStaysEndedHolds == Spec => EndedStaysEnded
<1> DEFINE Stays == \A d \in Deliveries : delivery[d].status \in {"delivered", "dropped"} =>
                        delivery'[d] = delivery[d] /\ tries'[d] = tries[d]
<1>1. ASSUME IInv, [Next]_vars
      PROVE  Stays
  <2>1. CASE Aside
    BY <2>1, AsideQuiet DEF history
  <2>2. CASE Emit
    BY <1>1, <2>2, EmitEffect DEF history
  <2>3. ASSUME NEW w \in Workers, StartRun(w) \/ Pick(w) \/ Crash(w)
        PROVE  Stays
    BY <2>3 DEF StartRun, Pick, Crash, history
  <2>4. ASSUME NEW w \in Workers, Send(w)
        PROVE  Stays
    <3>1. delivery[run[w].id].status = "retrying" /\ tries \in [Deliveries -> Nat]
      BY <1>1, <2>4 DEF IInv, RowsLocked, TypeOK, Send, Busy
    <3> QED
      BY <2>4, <3>1 DEF Send
  <2>5. ASSUME NEW w \in Workers, Record(w)
        PROVE  Stays
    BY <1>1, <2>5, RecordEffect
  <2>6. CASE UNCHANGED vars
    BY <2>6 DEF vars, history
  <2> QED
    BY <1>1, <2>1, <2>2, <2>3, <2>4, <2>5, <2>6, NextParts
<1>2. IInv /\ [Next]_vars => [Stays]_vars
  BY <1>1
<1> QED
  BY <1>2, Invariance, PTL DEF Spec, EndedStaysEnded

================================================================================
