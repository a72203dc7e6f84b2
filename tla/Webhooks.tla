-------------------------------- MODULE Webhooks --------------------------------
(***************************************************************************)
(* Outbound webhooks: the subscriptions of the configuration plane, the    *)
(* queue of deliveries and its retry workers                               *)
(* (domain/policies/webhooks_delivery.py).                                 *)
(*                                                                         *)
(* A delivery worker locks a due delivery (FOR UPDATE OF d SKIP LOCKED),   *)
(* sends it while the transaction is open, records the attempt and         *)
(* commits; it takes the time once, when deliver_once starts.  A worker    *)
(* that dies after the consumer got the notification leaves the delivery   *)
(* as it was, to be sent again.  verify_webhook reads the status of the    *)
(* subscription, challenges the endpoint outside any transaction and then  *)
(* writes the status.  Deletion and verification run concurrently.         *)
(***************************************************************************)
EXTENDS Integers, Sequences, FiniteSets

CONSTANTS
    Hooks,          \* subscriptions, all to the same event type
    Workers,        \* the processes that run deliver_once
    Verifiers,      \* the processes that run verify_webhook
    RETRY_SCHEDULE, \* delays in seconds, indexed from 1
    Limit,          \* the attempts one call of deliver_once makes at most
    MaxEmits,       \* bound: notifications emitted
    MaxCrashes,     \* bound: deaths of delivery workers
    None

MAX_ATTEMPTS == Len(RETRY_SCHEDULE)

ASSUME ScheduleAssumption ==
    /\ RETRY_SCHEDULE \in Seq(Nat \ {0})
    /\ MAX_ATTEMPTS > 0
    /\ Limit \in Nat \ {0}
    /\ MaxEmits \in Nat
    /\ MaxCrashes \in Nat
    /\ None \notin Hooks \cup (Hooks \X (1..MaxEmits))

VARIABLES
    hook,           \* webhook_status of each subscription; "absent" before it exists
    delivery,       \* webhook_deliveries: [status, attempts, next]
    emits,          \* notifications emitted so far
    clock,          \* the time, in seconds
    pc,             \* where each worker is in deliver_once
    run,            \* [now, done, id, seen, ok]: when a run began, the attempts it
                    \* made, the delivery it has locked, the attempt_count it read
                    \* there and the answer it got
    challenge,      \* the subscription each verifier is challenging, or None
    tries,          \* history: POSTs made for each delivery
    received,       \* history: POSTs the consumer has processed
    lost,           \* history: attempts whose record was rolled back
    began,          \* history: when the runs of the recorded attempts began
    crashes

history == <<tries, received, lost, began>>
vars == <<hook, delivery, emits, clock, pc, run, challenge, history, crashes>>

\* One delivery per notification and subscription.
Deliveries == Hooks \X (1..MaxEmits)

HookOf(d) == d[1]

NoDelivery == [status |-> "absent", attempts |-> 0, next |-> 0]
NoRun == [now |-> 0, done |-> 0, id |-> None, seen |-> 0, ok |-> FALSE]

-------------------------------------------------------------------------------
(* Subscriptions *)

\* create_webhook: the same url and event set is answered with the existing
\* subscription, whatever its status.
CreateWebhook(h) ==
    /\ hook[h] = "absent"
    /\ hook' = [hook EXCEPT ![h] = "unverified"]
    /\ UNCHANGED <<delivery, emits, clock, pc, run, challenge, history, crashes>>

DeleteWebhook(h) ==
    /\ hook[h] \notin {"absent", "deleted"}
    /\ hook' = [hook EXCEPT ![h] = "deleted"]
    /\ UNCHANGED <<delivery, emits, clock, pc, run, challenge, history, crashes>>

\* verify_webhook reads the row: only an unverified subscription is challenged.
BeginVerify(v, h) ==
    /\ challenge[v] = None
    /\ hook[h] = "unverified"
    /\ challenge' = [challenge EXCEPT ![v] = h]
    /\ UNCHANGED <<hook, delivery, emits, clock, pc, run, history, crashes>>

\* The endpoint echoes the challenge: UPDATE ... SET 'verified' WHERE id = ...
EndVerify(v) ==
    /\ challenge[v] # None
    /\ hook' = [hook EXCEPT ![challenge[v]] = "verified"]
    /\ challenge' = [challenge EXCEPT ![v] = None]
    /\ UNCHANGED <<delivery, emits, clock, pc, run, history, crashes>>

\* The endpoint does not: TF-CFG-005.
FailVerify(v) ==
    /\ challenge[v] # None
    /\ challenge' = [challenge EXCEPT ![v] = None]
    /\ UNCHANGED <<hook, delivery, emits, clock, pc, run, history, crashes>>

\* emit: one delivery, due now, for every verified subscription.
Emit ==
    /\ emits < MaxEmits
    /\ emits' = emits + 1
    /\ delivery' = [d \in Deliveries |->
            IF d[2] = emits' /\ hook[HookOf(d)] = "verified"
            THEN [status |-> "retrying", attempts |-> 0, next |-> clock] ELSE delivery[d]]
    /\ UNCHANGED <<hook, clock, pc, run, challenge, history, crashes>>

-------------------------------------------------------------------------------
(* deliver_once *)

\* now = datetime.now(UTC)
StartRun(w) ==
    /\ pc[w] = "idle"
    /\ \E d \in Deliveries : delivery[d].status = "retrying" /\ delivery[d].next <= clock
    /\ pc' = [pc EXCEPT ![w] = "pick"]
    /\ run' = [run EXCEPT ![w] = [NoRun EXCEPT !.now = clock]]
    /\ UNCHANGED <<hook, delivery, emits, clock, challenge, history, crashes>>

Locked(w, d) == \E v \in Workers \ {w} : run[v].id = d

\* Faulty: FOR UPDATE is missing.
DueUnlocked(w) ==
    {d \in Deliveries : delivery[d].status = "retrying" /\ delivery[d].next <= run[w].now}

\* Faulty: the status of the delivery is not tested.
DueAnyStatus(w) ==
    {d \in Deliveries : /\ delivery[d].status # "absent"
                        /\ delivery[d].next <= run[w].now
                        /\ ~Locked(w, d)}

\* Faulty: off by one, the last attempt is never made.
DueBelowLimit(w) ==
    {d \in Deliveries : /\ delivery[d].status = "retrying"
                        /\ delivery[d].attempts < MAX_ATTEMPTS - 1
                        /\ delivery[d].next <= run[w].now
                        /\ ~Locked(w, d)}

\* The deliveries the query of deliver_once selects.
Due(w) ==
    {d \in Deliveries : /\ delivery[d].status = "retrying"
                        /\ delivery[d].next <= run[w].now
                        /\ ~Locked(w, d)}

\* The oldest due delivery that no other worker has; none, or the limit, ends
\* the run.
Pick(w) ==
    /\ pc[w] = "pick"
    /\ \/ \E d \in Due(w) :
            /\ run[w].done < Limit
            /\ \A f \in Due(w) : delivery[d].next <= delivery[f].next
            /\ run' = [run EXCEPT ![w].id = d, ![w].seen = delivery[d].attempts]
            /\ pc' = [pc EXCEPT ![w] = "send"]
       \/ /\ Due(w) = {} \/ run[w].done >= Limit
          /\ run' = [run EXCEPT ![w] = NoRun]
          /\ pc' = [pc EXCEPT ![w] = "idle"]
    /\ UNCHANGED <<hook, delivery, emits, clock, challenge, history, crashes>>

\* The POST, inside the open transaction.  The consumer may have processed a
\* notification whose answer never arrives.
Send(w) ==
    /\ pc[w] = "send"
    /\ \E got, ok \in BOOLEAN :
        /\ ok => got
        /\ run' = [run EXCEPT ![w].ok = ok]
        /\ received' = [received EXCEPT ![run[w].id] = IF got THEN @ + 1 ELSE @]
    /\ tries' = [tries EXCEPT ![run[w].id] = @ + 1]
    /\ pc' = [pc EXCEPT ![w] = "record"]
    /\ UNCHANGED <<hook, delivery, emits, clock, challenge, lost, began, crashes>>

\* Faulty: the number of attempts has no limit.
AttemptedNoLimit(seen, now, ok) ==
    [attempts |-> seen + 1,
     status |-> IF ok THEN "delivered" ELSE "retrying",
     next |-> IF ok THEN 0 ELSE now + RETRY_SCHEDULE[MAX_ATTEMPTS]]

\* The row an attempt leaves behind, from the attempt_count read before it.
Attempted(seen, now, ok) ==
    LET attempt == seen + 1 IN
    [attempts |-> attempt,
     status |-> IF ok THEN "delivered" ELSE IF attempt >= MAX_ATTEMPTS THEN "dropped" ELSE "retrying",
     next |-> IF ok \/ attempt >= MAX_ATTEMPTS THEN 0
              ELSE now + RETRY_SCHEDULE[attempt + 1]]    \* the tuple is indexed from 0

\* Faulty: any failed attempt suspends the subscription.
RecordSuspending(w) ==
    LET d == run[w].id
        new == Attempted(run[w].seen, run[w].now, run[w].ok) IN
    /\ pc[w] = "record"
    /\ delivery' = [delivery EXCEPT ![d] = new]
    /\ hook' = IF ~run[w].ok /\ hook[HookOf(d)] = "verified"
               THEN [hook EXCEPT ![HookOf(d)] = "suspended"] ELSE hook
    /\ run' = [run EXCEPT ![w] = [run[w] EXCEPT !.done = @ + 1, !.id = None, !.seen = 0, !.ok = FALSE]]
    /\ pc' = [pc EXCEPT ![w] = "pick"]
    /\ began' = [began EXCEPT ![d] = Append(@, run[w].now)]
    /\ UNCHANGED <<emits, clock, challenge, tries, received, lost, crashes>>

\* _attempt records the answer; a delivery that is dropped suspends its
\* subscription.  COMMIT, and on to the next due delivery.
Record(w) ==
    LET d == run[w].id
        new == Attempted(run[w].seen, run[w].now, run[w].ok) IN
    /\ pc[w] = "record"
    /\ delivery' = [delivery EXCEPT ![d] = new]
    /\ hook' = IF new.status = "dropped" /\ hook[HookOf(d)] = "verified"
               THEN [hook EXCEPT ![HookOf(d)] = "suspended"] ELSE hook
    /\ run' = [run EXCEPT ![w] = [run[w] EXCEPT !.done = @ + 1, !.id = None, !.seen = 0, !.ok = FALSE]]
    /\ pc' = [pc EXCEPT ![w] = "pick"]
    /\ began' = [began EXCEPT ![d] = Append(@, run[w].now)]
    /\ UNCHANGED <<emits, clock, challenge, tries, received, lost, crashes>>

\* The worker dies; the transaction and its lock are gone.
Crash(w) ==
    /\ pc[w] # "idle"
    /\ crashes < MaxCrashes
    /\ crashes' = crashes + 1
    /\ lost' = IF pc[w] = "record" THEN [lost EXCEPT ![run[w].id] = @ + 1] ELSE lost
    /\ run' = [run EXCEPT ![w] = NoRun]
    /\ pc' = [pc EXCEPT ![w] = "idle"]
    /\ UNCHANGED <<hook, delivery, emits, clock, challenge, tries, received, began>>

\* Time passes until another delivery is due.
Pass ==
    /\ \E d \in Deliveries :
        /\ delivery[d].status = "retrying"
        /\ delivery[d].next > clock
        /\ \A f \in Deliveries : delivery[f].status = "retrying" /\ delivery[f].next > clock =>
                delivery[d].next <= delivery[f].next
        /\ clock' = delivery[d].next
    /\ UNCHANGED <<hook, delivery, emits, pc, run, challenge, history, crashes>>

-------------------------------------------------------------------------------
Init ==
    /\ hook = [h \in Hooks |-> "absent"]
    /\ delivery = [d \in Deliveries |-> NoDelivery]
    /\ emits = 0
    /\ clock = 0
    /\ pc = [w \in Workers |-> "idle"]
    /\ run = [w \in Workers |-> NoRun]
    /\ challenge = [v \in Verifiers |-> None]
    /\ tries = [d \in Deliveries |-> 0]
    /\ received = [d \in Deliveries |-> 0]
    /\ lost = [d \in Deliveries |-> 0]
    /\ began = [d \in Deliveries |-> <<>>]
    /\ crashes = 0

Deliver(w) == StartRun(w) \/ Pick(w) \/ Send(w) \/ Record(w)

Verify(v) == (\E h \in Hooks : BeginVerify(v, h)) \/ EndVerify(v)

Next ==
    \/ \E h \in Hooks : CreateWebhook(h) \/ DeleteWebhook(h)
    \/ \E v \in Verifiers : Verify(v) \/ FailVerify(v)
    \/ Emit
    \/ \E w \in Workers : Deliver(w) \/ Crash(w)
    \/ Pass

Spec == Init /\ [][Next]_vars

\* deliver_once is run again and again, a POST times out after ten seconds,
\* time passes, and verifications that are asked for are carried out.
FairSpec ==
    /\ Spec
    /\ \A w \in Workers : WF_vars(Deliver(w))
    /\ \A v \in Verifiers : WF_vars(Verify(v))
    /\ WF_vars(Pass)

-------------------------------------------------------------------------------
(* Properties *)

\* Every variable has its type.
TypeOK ==
    /\ hook \in [Hooks -> {"absent", "unverified", "verified", "suspended", "deleted"}]
    /\ delivery \in [Deliveries -> [status : {"absent", "retrying", "delivered", "dropped"},
                                    attempts : 0..MAX_ATTEMPTS, next : Nat]]
    /\ emits \in 0..MaxEmits
    /\ clock \in Nat
    /\ pc \in [Workers -> {"idle", "pick", "send", "record"}]
    /\ run \in [Workers -> [now : Nat, done : 0..Limit, id : Deliveries \cup {None},
                         seen : 0..MAX_ATTEMPTS, ok : BOOLEAN]]
    /\ challenge \in [Verifiers -> Hooks \cup {None}]
    /\ tries \in [Deliveries -> Nat]
    /\ received \in [Deliveries -> Nat]
    /\ lost \in [Deliveries -> Nat]
    /\ began \in [Deliveries -> Seq(Nat)]
    /\ crashes \in 0..MaxCrashes

\* Workers whose POST for d is answered and not yet recorded.
Recording(d) == {w \in Workers : pc[w] = "record" /\ run[w].id = d}

\* Every POST is accounted for: it is recorded in attempt_count, its record
\* was lost with a worker, or it is about to be recorded.  Two workers never
\* send the same delivery at the same time, and no attempt is counted twice
\* or forgotten; consumers see a repeat only after a failure or a crash.
TriesAccounted ==
    \A d \in Deliveries : tries[d] = delivery[d].attempts + lost[d] + Cardinality(Recording(d))

\* "delivered" in the log means that the consumer has the notification; a
\* subscription is suspended only after a delivery to it failed as many times
\* as the schedule allows; and of the recorded attempts of a delivery, each
\* belongs to a run that began at least the delay of the schedule after the run
\* of the attempt before, whichever workers made them.
LogIsTruthful ==
    /\ \A d \in Deliveries : delivery[d].status = "delivered" => received[d] > 0
    /\ \A d \in Deliveries : delivery[d].status = "dropped" => delivery[d].attempts = MAX_ATTEMPTS
    /\ \A h \in Hooks : hook[h] = "suspended" =>
            \E d \in Deliveries : HookOf(d) = h /\ delivery[d].status = "dropped"
    /\ \A d \in Deliveries : \A n \in 2..Len(began[d]) :
            began[d][n] >= began[d][n - 1] + RETRY_SCHEDULE[n]

\* A delivery that ended stays as it is: it is never sent again.
EndedStaysEnded ==
    [][\A d \in Deliveries : delivery[d].status \in {"delivered", "dropped"} =>
            delivery'[d] = delivery[d] /\ tries'[d] = tries[d]]_vars

\* Every delivery that is enqueued is delivered or dropped in the end, although
\* workers skip each other's rows and die.
EveryDeliveryEnds ==
    \A d \in Deliveries : delivery[d].status = "retrying" ~>
                          delivery[d].status \in {"delivered", "dropped"}

\* webhooks_delivery.py:133, "re-verify to resume": a suspended subscription that
\* is verified again is verified, unless it is deleted.
ReverifyResumes ==
    \A h \in Hooks : hook[h] = "suspended" ~> hook[h] \in {"verified", "deleted"}
===============================================================================
