--------------------------- MODULE Ingestion_proofs ----------------------------
(***************************************************************************)
(* What the write plane guarantees for every set of processes, deployments *)
(* and submissions, and every bound.                                       *)
(***************************************************************************)
EXTENDS Ingestion, TLAPS

\* A process that handles an event has an event of a submission in its hands.
LEMMA CurrentIsEvent ==
    ASSUME TypeOK, NEW i \in Ingestors, pc[i] \notin {"idle", "respond", "failed"}
    PROVE  /\ job[i].request \in Requests
           /\ Current(i) \in Events
           /\ job[i].pos \in 1..Len(job[i].request.batch)
<1> USE DEF TypeOK
<1>1. /\ job[i].pos \in DOMAIN job[i].request.batch
      /\ job[i].request \in Requests \cup {NoRequest}
  BY DEF Jobs
<1>2. DOMAIN NoRequest.batch = {}
  BY DEF NoRequest
<1>3. job[i].request \in Requests
  BY <1>1, <1>2
<1>4. Current(i) \in {job[i].request.batch[n] : n \in DOMAIN job[i].request.batch}
  BY <1>1 DEF Current
<1>5. Current(i) \in Events
  BY <1>3, <1>4 DEF Events
<1>6. job[i].pos \in 1..Len(job[i].request.batch)
  BY <1>1, <1>3, RequestsAssumption
<1> QED
  BY <1>3, <1>5, <1>6

\* Keys, rows and answers are made of what submissions contain.
LEMMA EventTypes ==
    ASSUME NEW e \in Events
    PROVE  /\ event_key(e) \in Keys
           /\ safe_key(e) \in Keys \cup {NoKey}
           /\ Row(e) \in Rows
           /\ Row(e).key = event_key(e)
           /\ e.dep \in Deployments
           /\ e.at \in Int
  BY RequestsAssumption DEF Keys, safe_key, Rows, Row

\* What a process answers about its event is an answer.
LEMMA AnswerType ==
    ASSUME TypeOK, NEW i \in Ingestors, pc[i] \notin {"idle", "respond", "failed"},
           NEW status \in {"accepted", "duplicate", "rejected"},
           NEW code \in Codes, NEW key \in Keys \cup {NoKey}
    PROVE  Answer(i, status, code, key) \in Answers
<1>1. job[i].request \in Requests /\ Current(i) \in Events
  BY CurrentIsEvent
<1>2. job[i].req \in 1..MaxRequests /\ job[i].pos \in Nat
  BY DEF TypeOK, Jobs
<1>3. Test(i) \in BOOLEAN
  BY <1>1, RequestsAssumption DEF Test
<1> QED
  BY <1>1, <1>2, <1>3 DEF Answer, Answers

\* Collecting an answer keeps the control state of a process well typed.
LEMMA CollectType ==
    ASSUME TypeOK, NEW i \in Ingestors, pc[i] \notin {"idle", "respond", "failed"},
           NEW a \in Answers, Collect(i, a)
    PROVE  /\ pc' \in [Ingestors -> Steps]
           /\ job' \in [Ingestors -> Jobs]
           /\ \A j \in Ingestors : pc'[j] # "idle" => job'[j].req \in 1..MaxRequests
           /\ \A j \in Ingestors : pc'[j] \notin {"idle", "respond", "failed"} =>
                                        job'[j].pos \in DOMAIN job'[j].request.batch
           /\ results' \in [Ingestors -> SUBSET Answers]
<1> DEFINE last == job[i].pos = Len(job[i].request.batch)
<1> USE DEF TypeOK
<1>1. /\ job[i].request \in Requests
      /\ job[i].request.batch \in Seq(Events)
      /\ job[i].pos \in 1..Len(job[i].request.batch)
  BY CurrentIsEvent, RequestsAssumption
<1>2. /\ job'[i] = [job[i] EXCEPT !.pos = IF last THEN @ ELSE @ + 1, !.code = ""]
      /\ pc'[i] = IF last THEN "respond" ELSE "validate"
      /\ \A j \in Ingestors \ {i} : job'[j] = job[j] /\ pc'[j] = pc[j]
  BY DEF Collect
<1> DEFINE p == IF last THEN job[i].pos ELSE job[i].pos + 1
<1>a. "" \in Codes
  BY DEF Codes
<1>d. p \in Nat
  <2>1. job[i].pos \in Nat
    BY DEF Jobs
  <2> QED
    BY <2>1
<1>b. job[i] \in Jobs
  OBVIOUS
<1>c. job'[i] = [job[i] EXCEPT !.pos = p, !.code = ""]
  BY <1>2, <1>b DEF Jobs
<1> HIDE DEF p
<1>3. /\ job'[i] \in Jobs
      /\ job'[i].req = job[i].req
      /\ job'[i].request = job[i].request
      /\ job'[i].pos = p
  BY <1>a, <1>b, <1>c, <1>d DEF Jobs
<1> USE DEF p
<1>4. job' \in [Ingestors -> Jobs]
  BY <1>3 DEF Collect
<1>5. pc' \in [Ingestors -> Steps]
  BY DEF Collect, Steps
<1>6. \A j \in Ingestors : pc'[j] # "idle" => job'[j].req \in 1..MaxRequests
  BY <1>2, <1>3
<1>7. ~last => job'[i].pos \in DOMAIN job'[i].request.batch
  BY <1>1, <1>3
<1>8. \A j \in Ingestors : pc'[j] \notin {"idle", "respond", "failed"} =>
                                job'[j].pos \in DOMAIN job'[j].request.batch
  BY <1>2, <1>7
<1>9. results' \in [Ingestors -> SUBSET Answers]
  BY DEF Collect
<1> QED
  BY <1>4, <1>5, <1>6, <1>8, <1>9

\* So does a step to another statement, a rejection or a failure.
LEMMA StepType ==
    ASSUME TypeOK, NEW i \in Ingestors, pc[i] \notin {"idle", "respond", "failed"},
           NEW step \in Steps, NEW code \in Codes,
           Goto(i, step) \/ Reject(i, code) \/ Fail(i, code)
    PROVE  /\ pc' \in [Ingestors -> Steps]
           /\ job' \in [Ingestors -> Jobs]
           /\ \A j \in Ingestors : pc'[j] # "idle" => job'[j].req \in 1..MaxRequests
           /\ \A j \in Ingestors : pc'[j] \notin {"idle", "respond", "failed"} =>
                                        job'[j].pos \in DOMAIN job'[j].request.batch
           /\ results' \in [Ingestors -> SUBSET Answers]
<1> USE DEF TypeOK
<1>1. /\ pc' \in [Ingestors -> Steps]
      /\ \A j \in Ingestors \ {i} : pc'[j] = pc[j]
      /\ results' = results
  BY DEF Goto, Reject, Fail, Steps
<1>2. job' = job \/ job' = [job EXCEPT ![i].code = code]
  BY DEF Goto, Reject, Fail
<1>3. ASSUME NEW j \in Ingestors
      PROVE  /\ job'[j] \in Jobs
             /\ job'[j].req = job[j].req
             /\ job'[j].request = job[j].request
             /\ job'[j].pos = job[j].pos
  <2>1. job[j] \in Jobs
    OBVIOUS
  <2>2. job'[j] = job[j] \/ job'[j] = [job[j] EXCEPT !.code = code]
    BY <1>2
  <2> QED
    BY <2>1, <2>2 DEF Jobs
<1>4. job' \in [Ingestors -> Jobs]
  BY <1>2, <1>3
<1> QED
  BY <1>1, <1>3, <1>4

\* And the end of a submission.
LEMMA FinishType ==
    ASSUME TypeOK, NEW i \in Ingestors, Finish(i)
    PROVE  /\ pc' \in [Ingestors -> Steps]
           /\ job' \in [Ingestors -> Jobs]
           /\ \A j \in Ingestors : pc'[j] # "idle" => job'[j].req \in 1..MaxRequests
           /\ \A j \in Ingestors : pc'[j] \notin {"idle", "respond", "failed"} =>
                                        job'[j].pos \in DOMAIN job'[j].request.batch
           /\ results' \in [Ingestors -> SUBSET Answers]
<1>1. NoJob \in Jobs
  BY BoundsAssumption DEF NoJob, Jobs, Codes
<1> QED
  BY <1>1 DEF TypeOK, Finish, Steps

\* The codes an event or a batch can be refused with are registered.
LEMMA CodesUsed ==
    /\ {"", "TF-EVT-002", "TF-EVT-004", "TF-EVT-005", "TF-EVT-009",
        "TF-AUTH-002", "TF-SRV-001", "TF-SRV-002"} \subseteq Codes
    /\ \A d \in DOMAIN DefectCode : DefectCode[d] \in Codes
  BY DEF Codes

\* The empty store has the types.
LEMMA TypeInit == Init => TypeOK
<1> SUFFICES ASSUME Init PROVE TypeOK
  OBVIOUS
<1>1. NoJob \in Jobs
  BY BoundsAssumption DEF NoJob, Jobs, Codes
<1> QED
  BY <1>1, BoundsAssumption DEF Init, TypeOK, Steps

\* Every action keeps the types.
LEMMA TypeNext == TypeOK /\ [Next]_vars => TypeOK'
<1> SUFFICES ASSUME TypeOK, [Next]_vars PROVE TypeOK'
  OBVIOUS
<1> USE DEF config, store, client
<1>1. ASSUME NEW i \in Ingestors, NEW r \in Requests, Admit(i, r)
      PROVE  TypeOK'
  <2> DEFINE new == [req |-> requests + 1, request |-> r, pos |-> 1, code |-> ""]
  <2> DEFINE step == IF r.batch = <<>> THEN "respond" ELSE "validate"
  <2>1. /\ requests' = requests + 1
        /\ job' = [job EXCEPT ![i] = new]
        /\ pc' = [pc EXCEPT ![i] = step]
        /\ UNCHANGED <<deployments, strict, clock, events, rejected, results, told>>
    BY <1>1 DEF Admit
  <2>2. requests + 1 \in 1..MaxRequests
    <3>1. requests \in 0..MaxRequests /\ requests < MaxRequests
      BY <1>1 DEF Admit, TypeOK
    <3>2. MaxRequests \in Nat
      BY BoundsAssumption
    <3> QED
      BY <3>1, <3>2
  <2>3. new \in Jobs /\ new.req = requests + 1 /\ new.request = r /\ new.pos = 1
    <3>1. requests + 1 \in 0..MaxRequests
      BY <2>2
    <3>2. "" \in Codes
      BY CodesUsed
    <3> QED
      BY <3>1, <3>2 DEF Jobs
  <2>4. step \in Steps /\ (step \notin {"idle", "respond", "failed"} => 1 \in DOMAIN r.batch)
    BY RequestsAssumption DEF Steps
  <2> HIDE DEF new, step
  <2>5. job' \in [Ingestors -> Jobs] /\ pc' \in [Ingestors -> Steps] /\ requests' \in 0..MaxRequests
    BY <2>1, <2>2, <2>3, <2>4, BoundsAssumption DEF TypeOK
  <2>6. \A j \in Ingestors : pc'[j] # "idle" => job'[j].req \in 1..MaxRequests
    BY <2>1, <2>2, <2>3 DEF TypeOK
  <2>7. \A j \in Ingestors : pc'[j] \notin {"idle", "respond", "failed"} =>
                                job'[j].pos \in DOMAIN job'[j].request.batch
    BY <2>1, <2>3, <2>4 DEF TypeOK
  <2> QED
    BY <2>1, <2>5, <2>6, <2>7 DEF TypeOK
<1>2. ASSUME NEW i \in Ingestors, Validate(i) PROVE TypeOK'
  <2>1. pc[i] = "validate" /\ UNCHANGED <<deployments, strict, clock, events, rejected, requests, told>>
    BY <1>2 DEF Validate
  <2>2. \E code \in Codes : Goto(i, "resolve") \/ Reject(i, code) \/ Fail(i, code)
    BY <1>2, CodesUsed DEF Validate
  <2> QED
    BY <2>1, <2>2, StepType DEF TypeOK, Steps
<1>3. ASSUME NEW i \in Ingestors, Resolve(i) PROVE TypeOK'
  <2>1. pc[i] = "resolve" /\ UNCHANGED <<deployments, strict, clock, events, rejected, requests, told>>
    BY <1>3 DEF Resolve
  <2>2. \E code \in Codes : Goto(i, "namespaces") \/ Reject(i, code) \/ Fail(i, code)
    BY <1>3, CodesUsed DEF Resolve
  <2> QED
    BY <2>1, <2>2, StepType DEF TypeOK, Steps
<1>4. ASSUME NEW i \in Ingestors, CheckNamespaces(i) PROVE TypeOK'
  <2> DEFINE a == Answer(i, "accepted", "", event_key(Current(i)))
  <2>1. pc[i] = "namespaces" /\ UNCHANGED <<deployments, strict, clock, events, rejected, requests, told>>
    BY <1>4 DEF CheckNamespaces
  <2>2. a \in Answers
    BY <2>1, CodesUsed, CurrentIsEvent, EventTypes, AnswerType
  <2>3. CASE Collect(i, a)
    BY <2>1, <2>2, <2>3, CollectType DEF TypeOK
  <2>4. CASE \E code \in Codes : Goto(i, "lookup") \/ Reject(i, code) \/ Fail(i, code)
    BY <2>1, <2>4, StepType DEF TypeOK, Steps
  <2> QED
    BY <1>4, <2>3, <2>4, CodesUsed DEF CheckNamespaces
<1>5. ASSUME NEW i \in Ingestors, Lookup(i) PROVE TypeOK'
  <2> DEFINE a == Answer(i, "duplicate", "TF-EVT-005", event_key(Current(i)))
  <2>1. pc[i] = "lookup" /\ UNCHANGED <<deployments, strict, clock, events, rejected, requests, told>>
    BY <1>5 DEF Lookup
  <2>2. a \in Answers
    BY <2>1, CodesUsed, CurrentIsEvent, EventTypes, AnswerType
  <2>3. CASE Collect(i, a)
    BY <2>1, <2>2, <2>3, CollectType DEF TypeOK
  <2>4. CASE Goto(i, "insert")
    BY <2>1, <2>4, StepType, CodesUsed DEF TypeOK, Steps
  <2> QED
    BY <1>5, <2>3, <2>4 DEF Lookup
<1>6. ASSUME NEW i \in Ingestors, Insert(i) PROVE TypeOK'
  <2>1. pc[i] = "insert" /\ UNCHANGED <<deployments, strict, clock, events, rejected, requests, told>>
    BY <1>6 DEF Insert
  <2>2. \E code \in Codes : Goto(i, "commit") \/ Reject(i, code) \/ Fail(i, code)
    BY <1>6, CodesUsed DEF Insert
  <2> QED
    BY <2>1, <2>2, StepType DEF TypeOK, Steps
<1>7. ASSUME NEW i \in Ingestors, Commit(i) PROVE TypeOK'
  <2> DEFINE a == Answer(i, "accepted", "", event_key(Current(i)))
  <2>1. pc[i] = "commit" /\ UNCHANGED <<deployments, strict, clock, rejected, requests, told>>
    BY <1>7 DEF Commit
  <2>2. a \in Answers
    BY <2>1, CodesUsed, CurrentIsEvent, EventTypes, AnswerType
  <2>3. events' \in Seq(Rows)
    <3>1. Row(Current(i)) \in Rows
      BY <2>1, CurrentIsEvent, EventTypes
    <3>2. events \in Seq(Rows) /\ events' = Append(events, Row(Current(i)))
      BY <1>7 DEF Commit, TypeOK
    <3> QED
      BY <3>1, <3>2
  <2>4. Collect(i, a)
    BY <1>7 DEF Commit
  <2> QED
    BY <2>1, <2>2, <2>3, <2>4, CollectType DEF TypeOK
<1>8. ASSUME NEW i \in Ingestors, Quarantine(i) PROVE TypeOK'
  <2> DEFINE k == safe_key(Current(i))
  <2> DEFINE a == Answer(i, "rejected", job[i].code, k)
  <2>1. pc[i] = "quarantine" /\ UNCHANGED <<deployments, strict, clock, events, requests, told>>
    BY <1>8 DEF Quarantine
  <2>2. job[i].code \in Codes
    BY DEF TypeOK, Jobs
  <2>3. k \in Keys \cup {NoKey}
    BY <2>1, CurrentIsEvent, EventTypes
  <2>4. a \in Answers
    BY <2>1, <2>2, <2>3, AnswerType
  <2>5. rejected' \subseteq [key : Keys \cup {NoKey}, code : Codes]
    BY <1>8, <2>2, <2>3 DEF Quarantine, TypeOK
  <2>6. Collect(i, a)
    BY <1>8 DEF Quarantine
  <2> QED
    BY <2>1, <2>4, <2>5, <2>6, CollectType DEF TypeOK
<1>9. ASSUME NEW i \in Ingestors, Respond(i) PROVE TypeOK'
  <2>1. Finish(i) /\ UNCHANGED <<deployments, strict, clock, events, rejected, requests>>
    BY <1>9 DEF Respond
  <2>2. told' \subseteq Answers
    BY <1>9 DEF Respond, TypeOK
  <2> QED
    BY <2>1, <2>2, FinishType DEF TypeOK
<1>10. ASSUME NEW i \in Ingestors, Crash(i) PROVE TypeOK'
  BY <1>10, FinishType DEF Crash, TypeOK
<1>11. CASE Configure
  <2>1. /\ deployments' \in [Deployments -> {"absent", "active", "paused"}]
        /\ strict' \subseteq Deployments
    BY <1>11 DEF Configure, RegisterDeployment, PauseDeployment, RegisterNamespace, Tick, TypeOK
  <2>2. clock' \in 0..MaxTime
    BY <1>11, BoundsAssumption
    DEF Configure, RegisterDeployment, PauseDeployment, RegisterNamespace, Tick, TypeOK
  <2>3. UNCHANGED <<events, rejected, requests, told, pc, job, results>>
    BY <1>11 DEF Configure, RegisterDeployment, PauseDeployment, RegisterNamespace, Tick
  <2> QED
    BY <2>1, <2>2, <2>3 DEF TypeOK
<1>12. CASE UNCHANGED vars
  BY <1>12 DEF vars, TypeOK
<1> QED
  BY <1>1, <1>2, <1>3, <1>4, <1>5, <1>6, <1>7, <1>8, <1>9, <1>10, <1>11, <1>12 DEF Next, Work

\* Type correctness: ingest_events never leaves its batch, and the tables hold
\* only rows, rejections and answers built from what clients submitted.
THEOREM TypeCorrect == Spec => []TypeOK
  BY TypeInit, TypeNext, PTL DEF Spec

-------------------------------------------------------------------------------
(* The inductive invariant.  OneRowPerFact alone is not inductive: that COMMIT *)
(* adds no second row follows from what INSERT left open, and that a new       *)
(* "accepted" is the only one follows from earlier ones being stored.          *)

Safe == OneRowPerFact /\ OpenRowsFresh /\ AcksDurable /\ AcceptedOnce

IInv == TypeOK /\ Safe

\* A step that opens no transaction, stores nothing and says nothing new, or
\* only things that hold of the store, keeps the store safe.
LEMMA QuietStep ==
    ASSUME IInv, events' = events,
           \A j \in Ingestors : Open(j)' => Open(j) /\ Current(j)' = Current(j),
           \A x \in Said' : \/ x \in Said
                            \/ /\ x.status # "accepted"
                               /\ x.status = "duplicate" => x.key \in StoredKeys
    PROVE  Safe'
<1> USE DEF IInv, Safe
<1>1. StoredKeys' = StoredKeys /\ OneRowPerFact'
  BY DEF StoredKeys, OneRowPerFact
<1>2. OpenRowsFresh'
  BY <1>1 DEF OpenRowsFresh, event_key
<1>3. AcksDurable'
  BY <1>1 DEF AcksDurable
<1>4. AcceptedOnce'
  BY DEF AcceptedOnce
<1> QED
  BY <1>1, <1>2, <1>3, <1>4

\* The tests of a Goto, Reject or Fail to a step other than "commit".
LEMMA MoveQuiet ==
    ASSUME TypeOK, NEW i \in Ingestors, NEW step \in Steps \ {"commit"}, NEW code \in Codes,
           Goto(i, step) \/ Reject(i, code) \/ Fail(i, code), told' = told
    PROVE  /\ \A j \in Ingestors : Open(j)' => Open(j) /\ Current(j)' = Current(j)
           /\ Said' = Said
<1>1. /\ pc'[i] # "commit"
      /\ \A j \in Ingestors \ {i} : pc'[j] = pc[j] /\ job'[j] = job[j]
  BY DEF TypeOK, Goto, Reject, Fail
<1>2. Said' = Said
  BY DEF Goto, Reject, Fail, Said
<1> QED
  BY <1>1, <1>2 DEF Open, Current

\* Collecting an answer adds that answer to what is said, and opens nothing.
LEMMA CollectSays ==
    ASSUME TypeOK, NEW i \in Ingestors, NEW a, Collect(i, a), told' = told
    PROVE  /\ \A j \in Ingestors : Open(j)' => Open(j) /\ Current(j)' = Current(j)
           /\ \A j \in Ingestors \ {i} : Open(j)' <=> Open(j)
           /\ \A x \in Said' : x \in Said \/ (x = a /\ ~a.test)
<1>1. /\ pc'[i] # "commit"
      /\ \A j \in Ingestors \ {i} : pc'[j] = pc[j] /\ job'[j] = job[j]
  BY DEF TypeOK, Collect
<1>2. \A j \in Ingestors : \A x \in results'[j] : x \in results[j] \/ x = a
  BY DEF TypeOK, Collect
<1> QED
  BY <1>1, <1>2 DEF Open, Current, Said

\* The end of a submission says nothing that was not said before.
LEMMA FinishSays ==
    ASSUME TypeOK, NEW i \in Ingestors, Finish(i), told' \in {told, told \cup results[i]}
    PROVE  /\ \A j \in Ingestors : Open(j)' => Open(j) /\ Current(j)' = Current(j)
           /\ \A x \in Said' : x \in Said
<1>1. /\ pc'[i] = "idle"
      /\ \A j \in Ingestors \ {i} : pc'[j] = pc[j] /\ job'[j] = job[j]
      /\ \A j \in Ingestors : results'[j] \subseteq results[j]
  BY DEF TypeOK, Finish
<1> QED
  BY <1>1 DEF Open, Current, Said

\* INSERT opens a transaction for a fact that nobody has.
LEMMA InsertSafe ==
    ASSUME IInv, NEW i \in Ingestors, Insert(i)
    PROVE  Safe'
<1> USE DEF IInv, Safe
<1> DEFINE k == event_key(Current(i))
<1>1. UNCHANGED <<events, told>> /\ "TF-SRV-001" \in Codes
  BY CodesUsed DEF Insert, store, client
<1>2. CASE Fail(i, "TF-SRV-001")
  BY <1>1, <1>2, MoveQuiet, QuietStep DEF Steps
<1>3. CASE Goto(i, "commit") /\ k \notin StoredKeys
  <2>1. /\ StoredKeys' = StoredKeys
        /\ Said' = Said
        /\ job' = job
        /\ \A j \in Ingestors \ {i} : Open(j)' <=> Open(j)
    BY <1>1, <1>3 DEF Goto, StoredKeys, Said, Open, TypeOK
  <2>2. \A j \in Ingestors : Current(j)' = Current(j) /\ event_key(Current(j))' = event_key(Current(j))
    BY <2>1 DEF Current, event_key
  <2>3. \A j \in Ingestors : Open(j) => event_key(Current(j)) # k
    BY DEF Insert
  <2>4. OpenRowsFresh'
    BY <1>3, <2>1, <2>2, <2>3 DEF OpenRowsFresh
  <2>5. OneRowPerFact' /\ AcksDurable' /\ AcceptedOnce'
    BY <1>1, <2>1 DEF OneRowPerFact, AcksDurable, AcceptedOnce
  <2> QED
    BY <2>4, <2>5
<1> QED
  BY <1>2, <1>3 DEF Insert

\* What appending a row does to the table.
LEMMA AppendFacts ==
    ASSUME NEW R, NEW s \in Seq(R), NEW r \in R
    PROVE  /\ DOMAIN Append(s, r) = 1..(Len(s) + 1)
           /\ DOMAIN s = 1..Len(s)
           /\ Len(s) \in Nat
           /\ \A n \in 1..Len(s) : Append(s, r)[n] = s[n]
           /\ Append(s, r)[Len(s) + 1] = r
  OBVIOUS

\* COMMIT stores that fact, and is the first to say "accepted" about it.
LEMMA CommitSafe ==
    ASSUME IInv, NEW i \in Ingestors, Commit(i)
    PROVE  /\ Safe'
           /\ event_key(Current(i)) \notin StoredKeys
           /\ StoredKeys' = StoredKeys \cup {event_key(Current(i))}
<1> USE DEF IInv, Safe
<1> DEFINE k == event_key(Current(i))
<1> DEFINE a == Answer(i, "accepted", "", k)
<1>1. /\ pc[i] = "commit"
      /\ Collect(i, a)
      /\ events' = Append(events, Row(Current(i)))
      /\ told' = told
  BY DEF Commit, client
<1>2. Row(Current(i)) \in Rows /\ Row(Current(i)).key = k
  BY <1>1, CurrentIsEvent, EventTypes
<1>3. /\ DOMAIN events' = 1..(Len(events) + 1)
      /\ DOMAIN events = 1..Len(events)
      /\ Len(events) \in Nat
      /\ \A n \in 1..Len(events) : events'[n] = events[n]
      /\ events'[Len(events) + 1] = Row(Current(i))
  <2>1. events \in Seq(Rows)
    BY DEF TypeOK
  <2>2. PICK r \in Rows : r = Row(Current(i)) /\ events' = Append(events, r)
    BY <1>1, <1>2
  <2>3. /\ DOMAIN Append(events, r) = 1..(Len(events) + 1)
        /\ DOMAIN events = 1..Len(events)
        /\ Len(events) \in Nat
        /\ \A n \in 1..Len(events) : Append(events, r)[n] = events[n]
        /\ Append(events, r)[Len(events) + 1] = r
    BY <2>1, AppendFacts, Zenon
  <2> QED
    BY <2>2, <2>3, Zenon
<1>4. k \notin StoredKeys
  BY <1>1 DEF OpenRowsFresh, Open
<1>5. StoredKeys' = StoredKeys \cup {k}
  BY <1>2, <1>3 DEF StoredKeys
<1>6. OneRowPerFact'
  <2> SUFFICES ASSUME NEW m \in DOMAIN events', NEW n \in DOMAIN events',
                      events'[m].key = events'[n].key
               PROVE  m = n
    BY DEF OneRowPerFact
  <2>1. \A l \in 1..Len(events) : events[l].key # k
    BY <1>3, <1>4 DEF StoredKeys
  <2>2. CASE m \in 1..Len(events) /\ n \in 1..Len(events)
    BY <1>3, <2>2 DEF OneRowPerFact
  <2>3. CASE m = Len(events) + 1 \/ n = Len(events) + 1
    BY <1>2, <1>3, <2>1, <2>3
  <2> QED
    BY <1>3, <2>2, <2>3
<1>7. /\ \A j \in Ingestors : Open(j)' => Open(j) /\ Current(j)' = Current(j)
      /\ \A x \in Said' : x \in Said \/ x = a
      /\ ~Open(i)'
  <2>1. ~Open(i)'
    BY <1>1 DEF Collect, Open, TypeOK
  <2> QED
    BY <1>1, <2>1, CollectSays
<1>8. OpenRowsFresh'
  <2>1. \A j \in Ingestors : Open(j)' => event_key(Current(j)) # k
    BY <1>1, <1>7 DEF OpenRowsFresh, Open
  <2> QED
    BY <1>5, <1>7, <2>1 DEF OpenRowsFresh, event_key
<1>9. a.key = k /\ a.status = "accepted"
  BY DEF Answer
<1>10. AcksDurable'
  BY <1>5, <1>7, <1>9 DEF AcksDurable
<1>11. AcceptedOnce'
  <2>1. \A x \in Said : x.status = "accepted" => x.key # k
    BY <1>4 DEF AcksDurable
  <2> QED
    BY <1>7, <1>9, <2>1 DEF AcceptedOnce
<1> QED
  BY <1>4, <1>5, <1>6, <1>8, <1>10, <1>11

\* Every action keeps the store safe.
LEMMA SafeNext == IInv /\ [Next]_vars => Safe'
<1> SUFFICES ASSUME IInv, [Next]_vars PROVE Safe'
  OBVIOUS
<1> USE DEF config, store, client
<1>t. TypeOK
  BY DEF IInv
<1>1. ASSUME NEW i \in Ingestors, NEW r \in Requests, Admit(i, r)
      PROVE  Safe'
  <2>1. /\ UNCHANGED <<events, told, results>>
        /\ pc'[i] # "commit"
        /\ \A j \in Ingestors \ {i} : pc'[j] = pc[j] /\ job'[j] = job[j]
    BY <1>1, <1>t DEF Admit, TypeOK
  <2> QED
    BY <2>1, QuietStep DEF Said, Open, Current
<1>2. ASSUME NEW i \in Ingestors, Validate(i) PROVE Safe'
  <2>1. UNCHANGED <<events, told>> /\ "resolve" \in Steps \ {"commit"}
    BY <1>2 DEF Validate, Steps
  <2>2. \E code \in Codes : Goto(i, "resolve") \/ Reject(i, code) \/ Fail(i, code)
    BY <1>2, CodesUsed DEF Validate
  <2> QED
    BY <1>t, <2>1, <2>2, MoveQuiet, QuietStep
<1>3. ASSUME NEW i \in Ingestors, Resolve(i) PROVE Safe'
  <2>1. UNCHANGED <<events, told>> /\ "namespaces" \in Steps \ {"commit"}
    BY <1>3 DEF Resolve, Steps
  <2>2. \E code \in Codes : Goto(i, "namespaces") \/ Reject(i, code) \/ Fail(i, code)
    BY <1>3, CodesUsed DEF Resolve
  <2> QED
    BY <1>t, <2>1, <2>2, MoveQuiet, QuietStep
<1>4. ASSUME NEW i \in Ingestors, CheckNamespaces(i) PROVE Safe'
  <2> DEFINE a == Answer(i, "accepted", "", event_key(Current(i)))
  <2>1. UNCHANGED <<events, told>> /\ "lookup" \in Steps \ {"commit"}
    BY <1>4 DEF CheckNamespaces, Steps
  <2>2. CASE Collect(i, a) /\ Test(i)
    <3>1. a.test
      BY <2>2 DEF Answer
    <3> QED
      BY <1>t, <2>1, <2>2, <3>1, CollectSays, QuietStep
  <2>3. CASE \E code \in Codes : Goto(i, "lookup") \/ Reject(i, code) \/ Fail(i, code)
    BY <1>t, <2>1, <2>3, MoveQuiet, QuietStep
  <2> QED
    BY <1>4, <2>2, <2>3, CodesUsed DEF CheckNamespaces
<1>5. ASSUME NEW i \in Ingestors, Lookup(i) PROVE Safe'
  <2> DEFINE k == event_key(Current(i))
  <2> DEFINE a == Answer(i, "duplicate", "TF-EVT-005", k)
  <2>1. UNCHANGED <<events, told>> /\ "insert" \in Steps \ {"commit"}
    BY <1>5 DEF Lookup, Steps
  <2>2. CASE Collect(i, a) /\ k \in StoredKeys
    <3>1. a.status = "duplicate" /\ a.key = k
      BY DEF Answer
    <3> QED
      BY <1>t, <2>1, <2>2, <3>1, CollectSays, QuietStep
  <2>3. CASE Goto(i, "insert")
    BY <1>t, <2>1, <2>3, MoveQuiet, QuietStep, CodesUsed
  <2> QED
    BY <1>5, <2>2, <2>3 DEF Lookup
<1>6. ASSUME NEW i \in Ingestors, Insert(i) PROVE Safe'
  BY <1>6, InsertSafe
<1>7. ASSUME NEW i \in Ingestors, Commit(i) PROVE Safe'
  BY <1>7, CommitSafe
<1>8. ASSUME NEW i \in Ingestors, Quarantine(i) PROVE Safe'
  <2> DEFINE a == Answer(i, "rejected", job[i].code, safe_key(Current(i)))
  <2>1. UNCHANGED <<events, told>> /\ Collect(i, a)
    BY <1>8 DEF Quarantine
  <2>2. a.status = "rejected"
    BY DEF Answer
  <2> QED
    BY <1>t, <2>1, <2>2, CollectSays, QuietStep
<1>9. ASSUME NEW i \in Ingestors, Respond(i) PROVE Safe'
  <2>1. events' = events /\ Finish(i) /\ told' \in {told, told \cup results[i]}
    BY <1>9 DEF Respond
  <2> QED
    BY <1>t, <2>1, FinishSays, QuietStep
<1>10. ASSUME NEW i \in Ingestors, Crash(i) PROVE Safe'
  <2>1. events' = events /\ Finish(i) /\ told' = told
    BY <1>10 DEF Crash
  <2> QED
    BY <1>t, <2>1, FinishSays, QuietStep
<1>11. CASE Configure \/ UNCHANGED vars
  <2>1. UNCHANGED <<events, told, results, pc, job>>
    BY <1>11
    DEF Configure, RegisterDeployment, PauseDeployment, RegisterNamespace, Tick, vars
  <2> QED
    BY <2>1, QuietStep DEF Said, Open, Current
<1> QED
  BY <1>1, <1>2, <1>3, <1>4, <1>5, <1>6, <1>7, <1>8, <1>9, <1>10, <1>11 DEF Next, Work

\* An empty store, about which nothing was said, is safe.
LEMMA SafeInit == Init => Safe
  BY DEF Init, Safe, OneRowPerFact, OpenRowsFresh, Open, AcksDurable, AcceptedOnce, Said

\* The invariant of the write plane: the statements of _process_one, executed by
\* any number of processes in any order and cut off anywhere by crashes, keep
\* the store free of twins and every answer covered by a committed row.
THEOREM Invariance == Spec => []IInv
<1>1. Init => IInv
  BY TypeInit, SafeInit DEF IInv
<1>2. IInv /\ [Next]_vars => IInv'
  BY TypeNext, SafeNext DEF IInv
<1> QED
  BY <1>1, <1>2, PTL DEF Spec

\* However many processes race to store a fact, it gets one row.
THEOREM OneRowPerFactHolds == Spec => []OneRowPerFact
<1>1. IInv => OneRowPerFact
  BY DEF IInv, Safe
<1> QED
  BY <1>1, Invariance, PTL

\* No process says "accepted" or "duplicate" about a fact that is not durable.
THEOREM AcksDurableHolds == Spec => []AcksDurable
<1>1. IInv => AcksDurable
  BY DEF IInv, Safe
<1> QED
  BY <1>1, Invariance, PTL

\* At most one submission of a fact is ever answered "accepted".
THEOREM AcceptedOnceHolds == Spec => []AcceptedOnce
<1>1. IInv => AcceptedOnce
  BY DEF IInv, Safe
<1> QED
  BY <1>1, Invariance, PTL

-------------------------------------------------------------------------------
(* Action properties and refinement *)

\* What a step does to the tables and to what clients know: only COMMIT adds a
\* fact, only a response adds answers, and nothing is ever removed.
LEMMA StepEffect ==
    ASSUME IInv, [Next]_vars
    PROVE  /\ rejected \subseteq rejected'
           /\ \/ StoredKeys' = StoredKeys
              \/ \E k \in Keys \ StoredKeys : StoredKeys' = StoredKeys \cup {k} /\ told' = told
           /\ told \subseteq told'
<1> USE DEF config, store, client
<1>t. TypeOK
  BY DEF IInv
<1>1. ASSUME NEW i \in Ingestors, Commit(i)
      PROVE  /\ \E k \in Keys \ StoredKeys : StoredKeys' = StoredKeys \cup {k}
             /\ told' = told /\ rejected' = rejected
  <2>1. event_key(Current(i)) \in Keys
    BY <1>1, <1>t, CurrentIsEvent, EventTypes DEF Commit
  <2> QED
    BY <1>1, <2>1, CommitSafe DEF Commit
<1>2. ASSUME NEW i \in Ingestors,
             \/ Validate(i) \/ Resolve(i) \/ CheckNamespaces(i) \/ Lookup(i) \/ Insert(i)
             \/ Quarantine(i) \/ Respond(i) \/ Crash(i) \/ \E r \in Requests : Admit(i, r)
      PROVE  events' = events /\ rejected \subseteq rejected' /\ told \subseteq told'
  BY <1>2 DEF Validate, Resolve, CheckNamespaces, Lookup, Insert, Quarantine, Respond, Crash, Admit
<1>3. CASE Configure \/ UNCHANGED vars
  BY <1>3
  DEF Configure, RegisterDeployment, PauseDeployment, RegisterNamespace, Tick, vars, StoredKeys
<1>4. events' = events => StoredKeys' = StoredKeys
  BY DEF StoredKeys
<1> QED
  BY <1>1, <1>2, <1>3, <1>4 DEF Next, Work

\* event_status never takes back an answer: rows of events are never removed, and
\* a rejection recorded for a stored fact does not hide the row.
THEOREM StatusNeverRegressesHolds == Spec => StatusNeverRegresses
<1> DEFINE Keeps == \A k \in Keys :
        /\ EventStatus(k) = "stored" => EventStatus(k)' = "stored"
        /\ EventStatus(k) = "rejected" => EventStatus(k)' # "unknown"
<1>1. IInv /\ [Next]_vars => Keeps
  <2> SUFFICES ASSUME IInv, [Next]_vars PROVE Keeps
    OBVIOUS
  <2>1. rejected \subseteq rejected' /\ StoredKeys \subseteq StoredKeys'
    BY StepEffect
  <2> QED
    BY <2>1 DEF EventStatus
<1> QED
  BY <1>1, Invariance, PTL DEF Spec, StatusNeverRegresses

\* The statements of any number of concurrent _process_one calls implement the
\* atomic store of module WitnessStore: COMMIT is its Witness, the response its
\* Tell, and every other step is invisible.
THEOREM Refinement == Spec => ImplementsWitnessStore
<1> DEFINE heard == {a \in told : ~a.test}
<1>1. Init => Store!Init
  BY DEF Init, Store!Init, StoredKeys
<1>2. IInv /\ IInv' /\ [Next]_vars => [Store!Next]_(Store!vars)
  <2> SUFFICES ASSUME IInv, IInv', [Next]_vars,
                      ~UNCHANGED <<StoredKeys, heard>>
               PROVE  Store!Next
    BY DEF Store!vars
  <2>1. told \subseteq told' /\ heard \subseteq heard'
    BY StepEffect
  <2>2. CASE StoredKeys' = StoredKeys
    <3>1. heard' \subseteq Answers
      BY DEF IInv, TypeOK
    <3>2. heard' \subseteq Said'
      BY DEF Said
    <3>3. \A a \in heard' : a.status \in {"accepted", "duplicate"} => a.key \in StoredKeys
      BY <2>2, <3>2 DEF IInv, Safe, AcksDurable
    <3>4. \A a, b \in heard' :
              a.status = "accepted" /\ b.status = "accepted" /\ a.key = b.key => a = b
      BY <3>2 DEF IInv, Safe, AcceptedOnce
    <3>5. Store!Tell
      BY <2>1, <2>2, <3>1, <3>3, <3>4 DEF Store!Tell, Store!Claims, Store!Accepts
    <3> QED
      BY <3>5 DEF Store!Next
  <2>3. CASE \E k \in Keys \ StoredKeys : StoredKeys' = StoredKeys \cup {k} /\ told' = told
    <3>1. PICK k \in Keys \ StoredKeys : StoredKeys' = StoredKeys \cup {k} /\ told' = told
      BY <2>3
    <3>2. Store!Witness(k)
      BY <3>1 DEF Store!Witness
    <3> QED
      BY <3>2 DEF Store!Next
  <2> QED
    BY <2>2, <2>3, StepEffect
<1> QED
  BY <1>1, <1>2, Invariance, PTL DEF Spec, ImplementsWitnessStore, Store!Spec
===============================================================================
