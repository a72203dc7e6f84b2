------------------------------ MODULE Ingestion -------------------------------
(***************************************************************************)
(* The write plane: POST /v1/events:batch and GET /v1/events/{key}/status  *)
(* (api/routes/ingest.py) over the events and rejected_events tables.      *)
(*                                                                         *)
(* Several processes run _process_one at the same time: the API processes, *)
(* each one batch at a time, and the import worker, whose uploaded file is *)
(* one long batch.  They meet in PostgreSQL, READ COMMITTED: a statement   *)
(* sees the rows committed before it, and an INSERT that meets another     *)
(* transaction's uncommitted row with the same dedup key waits for that    *)
(* transaction to end (uq_events_dedup).  One action below is one          *)
(* statement or one in-memory step of _process_one; a process may die      *)
(* between any two.                                                        *)
(***************************************************************************)
EXTENDS Integers, Sequences

CONSTANTS
    Ingestors,      \* the processes that run _process_one
    Sandbox,        \* those of them that serve the sandbox environment
    Deployments,    \* deployment ids events may name, registered or not
    Requests,       \* the submissions clients may make: [test, scope, batch]
    Horizon,        \* backfill_horizon_days of the workspace
    Skew,           \* the 24 hours an event may lie in the future
    MaxBatch,       \* _MAX_BATCH
    Pausable,       \* bound: the deployments an operator may pause
    Declarable,     \* bound: the deployments a format may be declared for
    MaxRequests,    \* bound: submissions made in a behaviour
    MaxTime         \* bound: last value of the clock

ASSUME BoundsAssumption ==
    MaxRequests \in Nat /\ MaxTime \in Nat /\ MaxBatch \in Nat /\ Horizon \in Nat /\ Skew \in Nat

VARIABLES
    deployments,    \* deployment id -> "absent", "active" or "paused"
    strict,         \* deployments whose identifier fields have a format_regex
    clock,          \* the time of the server
    events,         \* the committed rows of events, in id order
    rejected,       \* the rows of rejected_events: [key, code]
    requests,       \* submissions made so far
    pc,             \* where each process is in ingest_events
    job,            \* the submission each process works on
    results,        \* results[]: the answers each process has collected
    told            \* the answers clients have received

config == <<deployments, strict, clock>>
store == <<events, rejected>>
client == <<requests, told>>
vars == <<deployments, strict, clock, events, rejected, requests, pc, job, results, told>>

-------------------------------------------------------------------------------
(* Events and their keys *)

\* The events that submissions carry.  An event is a record of its type, the
\* deployment it names, its origin, the timestamp `at`, the remaining natural
\* key fields `fact`, its idempotency_scope, whether an identifier violates a
\* declared format (badId) and what is wrong with its shape (defect).
Events == UNION {{r.batch[n] : n \in DOMAIN r.batch} : r \in Requests}

\* The families whose natural key contains the deployment.
DeploymentScoped == {"activity", "cost_meter"}

\* The natural key: the origin of the event is not part of it.  The digest is
\* taken to be injective.
event_key(e) ==
    IF e.type \in DeploymentScoped
    THEN <<e.type, e.dep, e.fact, e.at, e.scope>>
    ELSE <<e.type, e.fact, e.at, e.scope>>

NoKey == <<>>

Keys == {event_key(e) : e \in Events}

\* The key kept with a rejected event: none when a natural key field or the
\* timestamp is missing.
safe_key(e) ==
    IF e.defect \in {"shape", "family", "timestamp"} THEN NoKey ELSE event_key(e)

\* The registry code of each defect that is visible in the event alone.
DefectCode ==
    [content   |-> "TF-EVT-006",    \* a content field
     value     |-> "TF-EVT-008",    \* an asserted value field
     version   |-> "TF-EVT-001",    \* an unsupported schema_version
     shape     |-> "TF-EVT-003",    \* a required field is missing
     unkeyable |-> "TF-EVT-003",    \* a natural key field is not a string
     timestamp |-> "TF-EVT-003"]    \* no timestamp, or one without a timezone

\* "family": the payload is that of another family than event_type.  The
\* envelope schema takes any family's payload, so the event is well formed.
Defects == DOMAIN DefectCode \cup {"none", "family"}

\* Batches are sequences of events; an event names a deployment, carries an
\* integer timestamp and at most one defect.
ASSUME RequestsAssumption ==
    /\ \A r \in Requests : /\ r.test \in BOOLEAN
                           /\ r.scope \subseteq Deployments
                           /\ r.batch \in Seq(Events)
    /\ \A e \in Events : /\ e.dep \in Deployments
                         /\ e.at \in Int
                         /\ e.defect \in Defects

OutOfRange(e, now) == e.at > now + Skew \/ e.at < now - Horizon

\* The row that is stored for an event.
Row(e) == [key |-> event_key(e), dep |-> e.dep, origin |-> e.origin, at |-> e.at]

StoredKeys == {events[n].key : n \in DOMAIN events}

-------------------------------------------------------------------------------
(* The control state of a process *)

\* "failed" is a submission answered by one error for the whole batch.
Steps == {"idle", "validate", "resolve", "namespaces", "lookup", "insert",
          "commit", "quarantine", "respond", "failed"}

Codes == {DefectCode[d] : d \in DOMAIN DefectCode} \cup
         {"", "TF-EVT-002", "TF-EVT-004", "TF-EVT-005", "TF-EVT-009",
          "TF-AUTH-002", "TF-SRV-001", "TF-SRV-002"}

Rows == {Row(e) : e \in Events}

Answers == [req : 1..MaxRequests, pos : Nat, key : Keys \cup {NoKey}, code : Codes,
            status : {"accepted", "duplicate", "rejected"}, origin : {e.origin : e \in Events},
            test : BOOLEAN]

NoRequest == [test |-> FALSE, scope |-> {}, batch |-> <<>>]

NoJob == [req |-> 0, request |-> NoRequest, pos |-> 1, code |-> ""]

Jobs == [req : 0..MaxRequests, request : Requests \cup {NoRequest},
         pos : Nat, code : Codes]

Current(i) == job[i].request.batch[job[i].pos]

Test(i) == job[i].request.test

\* The uncommitted row of a process between its INSERT and its COMMIT.
Open(i) == pc[i] = "commit"

Answer(i, status, code, key) ==
    [req |-> job[i].req, pos |-> job[i].pos, key |-> key, code |-> code,
     status |-> status, origin |-> Current(i).origin, test |-> Test(i)]

\* Faulty: the index runs one past the end of the batch.
CollectPastEnd(i, answer) ==
    LET last == job[i].pos > Len(job[i].request.batch) IN
    /\ results' = [results EXCEPT ![i] = @ \cup {answer}]
    /\ job' = [job EXCEPT ![i].pos = IF last THEN @ ELSE @ + 1, ![i].code = ""]
    /\ pc' = [pc EXCEPT ![i] = IF last THEN "respond" ELSE "validate"]

\* results.append(...), then the next event of the batch.
Collect(i, answer) ==
    LET last == job[i].pos = Len(job[i].request.batch) IN
    /\ results' = [results EXCEPT ![i] = @ \cup {answer}]
    /\ job' = [job EXCEPT ![i].pos = IF last THEN @ ELSE @ + 1, ![i].code = ""]
    /\ pc' = [pc EXCEPT ![i] = IF last THEN "respond" ELSE "validate"]

\* Control passes to another step of the same event.
Goto(i, step) ==
    /\ pc' = [pc EXCEPT ![i] = step]
    /\ UNCHANGED <<job, results>>

\* raise _Reject(code): caught in _process_one, which quarantines the event.
Reject(i, code) ==
    /\ pc' = [pc EXCEPT ![i] = "quarantine"]
    /\ job' = [job EXCEPT ![i].code = code]
    /\ UNCHANGED results

\* Any other exception leaves the loop of ingest_events: the transaction is
\* rolled back and the whole batch is answered by one error.
Fail(i, code) ==
    /\ pc' = [pc EXCEPT ![i] = "failed"]
    /\ job' = [job EXCEPT ![i].code = code]
    /\ UNCHANGED results

-------------------------------------------------------------------------------
(* ingest_events *)

\* A submission is admitted: resolve_key accepts a test-mode key in the sandbox
\* and nowhere else; body, rate and quota checks passed.
Admit(i, r) ==
    /\ pc[i] = "idle"
    /\ r.test <=> i \in Sandbox
    /\ requests < MaxRequests
    /\ Len(r.batch) <= MaxBatch
    /\ requests' = requests + 1
    /\ job' = [job EXCEPT ![i] = [req |-> requests + 1, request |-> r, pos |-> 1, code |-> ""]]
    /\ pc' = [pc EXCEPT ![i] = IF r.batch = <<>> THEN "respond" ELSE "validate"]
    /\ UNCHANGED <<config, store, told, results>>

\* The checks on the event alone, before any statement is executed.
Validate(i) ==
    LET e == Current(i) IN
    /\ pc[i] = "validate"
    /\ \/ /\ e.defect = "unkeyable"         \* _safe_key raises a TypeError
          /\ Fail(i, "TF-SRV-001")
       \/ /\ e.defect \in DOMAIN DefectCode \ {"unkeyable"}
          /\ Reject(i, DefectCode[e.defect])
       \/ /\ e.defect \notin DOMAIN DefectCode
          /\ OutOfRange(e, clock)
          /\ Reject(i, "TF-EVT-009")
       \/ /\ e.defect \notin DOMAIN DefectCode
          /\ ~OutOfRange(e, clock)
          /\ Goto(i, "resolve")
    /\ UNCHANGED <<config, store, client>>

\* BEGIN; SELECT ... FROM deployments: _resolve_dep.
Resolve(i) ==
    LET e == Current(i) IN
    /\ pc[i] = "resolve"
    /\ \/ deployments[e.dep] = "absent" /\ Reject(i, "TF-EVT-002")
       \/ /\ deployments[e.dep] # "absent"
          /\ e.dep \notin job[i].request.scope
          /\ Fail(i, "TF-AUTH-002")
       \/ /\ deployments[e.dep] = "paused"
          /\ e.dep \in job[i].request.scope
          /\ Fail(i, "TF-SRV-002")
       \/ /\ deployments[e.dep] = "active"
          /\ e.dep \in job[i].request.scope
          /\ Goto(i, "namespaces")
    /\ UNCHANGED <<config, store, client>>

\* SELECT format_regex ...: _check_namespaces; then the key, whose fields a
\* payload of another family lacks; a test-mode key is answered here.
CheckNamespaces(i) ==
    LET e == Current(i) IN
    /\ pc[i] = "namespaces"
    /\ \/ e.badId /\ e.dep \in strict /\ Reject(i, "TF-EVT-004")
       \/ /\ ~(e.badId /\ e.dep \in strict)
          /\ \/ e.defect = "family" /\ Fail(i, "TF-SRV-001")
             \/ /\ e.defect # "family"
                /\ IF Test(i) THEN Collect(i, Answer(i, "accepted", "", event_key(e)))
                   ELSE Goto(i, "lookup")
    /\ UNCHANGED <<config, store, client>>

\* Faulty: the lookup sees uncommitted rows.
LookupDirty(i) ==
    LET k == event_key(Current(i)) IN
    /\ pc[i] = "lookup"
    /\ IF k \in StoredKeys \cup {event_key(Current(j)) : j \in {n \in Ingestors : Open(n)}}
       THEN Collect(i, Answer(i, "duplicate", "TF-EVT-005", k))
       ELSE Goto(i, "insert")
    /\ UNCHANGED <<config, store, client>>

\* SELECT 1 FROM events WHERE event_key = ...
Lookup(i) ==
    LET k == event_key(Current(i)) IN
    /\ pc[i] = "lookup"
    /\ IF k \in StoredKeys
       THEN Collect(i, Answer(i, "duplicate", "TF-EVT-005", k))
       ELSE Goto(i, "insert")
    /\ UNCHANGED <<config, store, client>>

\* Faulty: the table has no unique constraint.
InsertUnchecked(i) ==
    /\ pc[i] = "insert"
    /\ Goto(i, "commit")
    /\ UNCHANGED <<config, store, client>>

\* Faulty: ON CONFLICT DO NOTHING, answered as an insertion.
InsertOrIgnore(i) ==
    LET k == event_key(Current(i)) IN
    /\ pc[i] = "insert"
    /\ \A j \in Ingestors : Open(j) => event_key(Current(j)) # k
    /\ IF k \in StoredKeys THEN Collect(i, Answer(i, "accepted", "", k)) ELSE Goto(i, "commit")
    /\ UNCHANGED <<config, store, client>>

\* Faulty: a UniqueViolation repeats the INSERT, not the lookup.
InsertAgain(i) ==
    LET k == event_key(Current(i)) IN
    /\ pc[i] = "insert"
    /\ \A j \in Ingestors : Open(j) => event_key(Current(j)) # k
    /\ IF k \in StoredKeys THEN Goto(i, "insert") ELSE Goto(i, "commit")
    /\ UNCHANGED <<config, store, client>>

\* INSERT INTO events: waits for an open transaction that inserted the key;
\* a committed row with the key is a UniqueViolation, which nobody catches.
Insert(i) ==
    LET k == event_key(Current(i)) IN
    /\ pc[i] = "insert"
    /\ \A j \in Ingestors : Open(j) => event_key(Current(j)) # k
    /\ IF k \in StoredKeys THEN Fail(i, "TF-SRV-001") ELSE Goto(i, "commit")
    /\ UNCHANGED <<config, store, client>>

Commit(i) ==
    /\ pc[i] = "commit"
    /\ events' = Append(events, Row(Current(i)))
    /\ Collect(i, Answer(i, "accepted", "", event_key(Current(i))))
    /\ UNCHANGED <<config, rejected, client>>

\* _quarantine, in a transaction of its own; nothing is kept for a test key.
Quarantine(i) ==
    LET k == safe_key(Current(i)) IN
    /\ pc[i] = "quarantine"
    /\ rejected' = IF Test(i) THEN rejected
                   ELSE rejected \cup {[key |-> k, code |-> job[i].code]}
    /\ Collect(i, Answer(i, "rejected", job[i].code, k))
    /\ UNCHANGED <<config, events, client>>

\* The process forgets its submission.
Finish(i) ==
    /\ pc' = [pc EXCEPT ![i] = "idle"]
    /\ job' = [job EXCEPT ![i] = NoJob]
    /\ results' = [results EXCEPT ![i] = {}]

\* The response reaches the client: the answers, or the error of the batch.
Respond(i) ==
    /\ pc[i] \in {"respond", "failed"}
    /\ told' = IF pc[i] = "respond" THEN told \cup results[i] ELSE told
    /\ Finish(i)
    /\ UNCHANGED <<config, store, requests>>

\* The process dies, or its response is lost; an open transaction is rolled
\* back by the server.
Crash(i) ==
    /\ pc[i] # "idle"
    /\ Finish(i)
    /\ UNCHANGED <<config, store, client>>

-------------------------------------------------------------------------------
(* The configuration plane and time *)

\* register_deployment
RegisterDeployment(d) ==
    /\ deployments[d] = "absent"
    /\ deployments' = [deployments EXCEPT ![d] = "active"]
    /\ UNCHANGED <<strict, clock, store, client, pc, job, results>>

\* Ingestion of a deployment is suspended and resumed by an operator.
PauseDeployment(d) ==
    /\ d \in Pausable
    /\ deployments[d] # "absent"
    /\ deployments' = [deployments EXCEPT ![d] = IF @ = "paused" THEN "active" ELSE "paused"]
    /\ UNCHANGED <<strict, clock, store, client, pc, job, results>>

\* register_id_namespace with a format_regex.
RegisterNamespace(d) ==
    /\ d \in Declarable
    /\ deployments[d] # "absent"
    /\ d \notin strict
    /\ strict' = strict \cup {d}
    /\ UNCHANGED <<deployments, clock, store, client, pc, job, results>>

Tick ==
    /\ clock < MaxTime
    /\ clock' = clock + 1
    /\ UNCHANGED <<deployments, strict, store, client, pc, job, results>>

-------------------------------------------------------------------------------
Init ==
    /\ deployments = [d \in Deployments |-> "absent"]
    /\ strict = {}
    /\ clock = 0
    /\ events = <<>>
    /\ rejected = {}
    /\ requests = 0
    /\ pc = [i \in Ingestors |-> "idle"]
    /\ job = [i \in Ingestors |-> NoJob]
    /\ results = [i \in Ingestors |-> {}]
    /\ told = {}

\* What a process does once it has a submission.
Work(i) ==
    \/ Validate(i) \/ Resolve(i) \/ CheckNamespaces(i) \/ Lookup(i) \/ Insert(i)
    \/ Commit(i) \/ Quarantine(i) \/ Respond(i)

Configure ==
    \/ \E d \in Deployments : RegisterDeployment(d) \/ PauseDeployment(d) \/ RegisterNamespace(d)
    \/ Tick

Next ==
    \/ \E i \in Ingestors : Work(i) \/ Crash(i) \/ \E r \in Requests : Admit(i, r)
    \/ Configure

Spec == Init /\ [][Next]_vars

\* A process that has a submission keeps executing: nothing in ingest_events
\* waits for a client, and PostgreSQL grants a lock once it is free.
FairSpec == Spec /\ \A i \in Ingestors : WF_vars(Work(i))

-------------------------------------------------------------------------------
(* event_status *)

\* Faulty: rejected_events is consulted before events.
EventStatusRejectedFirst(k) ==
    IF \E q \in rejected : q.key = k THEN "rejected"
    ELSE IF k \in StoredKeys THEN "stored"
    ELSE "unknown"

\* GET /v1/events/{event_key}/status: the row if there is one, else the newest
\* rejection, else TF-READ-001.  The stages of a stored row are the pipeline's.
EventStatus(k) ==
    IF k \in StoredKeys THEN "stored"
    ELSE IF \E q \in rejected : q.key = k THEN "rejected"
    ELSE "unknown"

-------------------------------------------------------------------------------
(* Properties *)

\* Every variable has its type, and a process that handles an event points at
\* an event of its batch (the loop of ingest_events never leaves the batch).
TypeOK ==
    /\ deployments \in [Deployments -> {"absent", "active", "paused"}]
    /\ strict \subseteq Deployments
    /\ clock \in 0..MaxTime
    /\ events \in Seq(Rows)
    /\ rejected \subseteq [key : Keys \cup {NoKey}, code : Codes]
    /\ requests \in 0..MaxRequests
    /\ pc \in [Ingestors -> Steps]
    /\ job \in [Ingestors -> Jobs]
    /\ \A i \in Ingestors : pc[i] # "idle" => job[i].req \in 1..MaxRequests
    /\ \A i \in Ingestors : pc[i] \notin {"idle", "respond", "failed"} =>
                                job[i].pos \in DOMAIN job[i].request.batch
    /\ results \in [Ingestors -> SUBSET Answers]
    /\ told \subseteq Answers

\* Everything said to clients, or about to be said, about production traffic.
Said == {a \in told \cup UNION {results[i] : i \in Ingestors} : ~a.test}

\* The dedup of _process_one (a lookup, then an insert, by processes that do
\* not exclude each other) never stores a fact twice.
OneRowPerFact ==
    \A m, n \in DOMAIN events : events[m].key = events[n].key => m = n

\* A client is answered "accepted" or "duplicate" only about a fact that is
\* committed: no answer is given on the strength of a transaction that a crash
\* may still roll back.
AcksDurable ==
    \A a \in Said : a.status \in {"accepted", "duplicate"} => a.key \in StoredKeys

\* An uncommitted row has no committed twin, and no other transaction has the
\* same fact open: whichever way the transactions end, facts stay unique.
OpenRowsFresh ==
    \A i \in Ingestors : Open(i) =>
        /\ event_key(Current(i)) \notin StoredKeys
        /\ \A j \in Ingestors : Open(j) /\ event_key(Current(j)) = event_key(Current(i)) => j = i

\* However often a fact is submitted, retried and raced, at most one submission
\* is answered "accepted"; all the others are answered otherwise.
AcceptedOnce ==
    \A a, b \in Said : a.status = "accepted" /\ b.status = "accepted" /\ a.key = b.key => a = b

\* event_status never takes back an answer: a stored fact stays stored even if
\* a later resend of it is rejected, and a rejection is not forgotten.
StatusNeverRegresses ==
    [][\A k \in Keys : /\ EventStatus(k) = "stored" => EventStatus(k)' = "stored"
                       /\ EventStatus(k) = "rejected" => EventStatus(k)' # "unknown"]_vars

\* Every submission is answered (or its process dies): processes that wait for
\* each other's uncommitted rows never wait for ever.
EveryRequestEnds ==
    \A i \in Ingestors : pc[i] # "idle" ~> pc[i] = "idle"

\* The statements of the concurrent processes implement one atomic store that
\* answers truthfully (module WitnessStore).
Store == INSTANCE WitnessStore WITH
    Keys <- Keys, Answers <- Answers,
    facts <- StoredKeys, told <- {a \in told : ~a.test}

ImplementsWitnessStore == Store!Spec
===============================================================================
