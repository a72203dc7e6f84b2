------------------------------- MODULE Admission --------------------------------
(***************************************************************************)
(* Who may write, and how much: API keys and their grants                  *)
(* (api/application_services/auth.py, ops/opsctl.py), the request rate of  *)
(* a workspace and the monthly quota of its plan                           *)
(* (platform/billing/ratelimit.py), as the ingestion handler goes through  *)
(* them before it stores a batch.                                          *)
(*                                                                         *)
(* require_principal runs in a thread of its API process; the handler then *)
(* runs in the event loop, and its statements block the loop: one request  *)
(* of a process at a time.  The counters of the rate limit are in the      *)
(* memory of each process; keys, limits, plan and events are in the        *)
(* database, where operators change them meanwhile.  One workspace.        *)
(***************************************************************************)
EXTENDS Integers, Sequences, FiniteSets

CONSTANTS
    Keys,           \* API keys: records with a name, mode, scope and the deployments granted at issue
    Deployments,
    Environment,    \* "production" or "sandbox"
    Procs,          \* API processes
    Slots,          \* requests in flight
    ProcOf,         \* slot -> the process that serves it
    Batches,        \* batches of events that may be sent: sequences of [dep, month]
    WindowLength,   \* seconds per rate window
    DefaultRate,    \* rate_limit_rpm of a new workspace
    Rates,          \* values of rate_limit_rpm that operators set
    InitialQuota,   \* PLAN_QUOTA of the organization's first plan
    Quotas,         \* PLAN_QUOTA of the plans that operators set
    MaxTime,        \* bound: seconds
    MaxMonths,      \* bound: months
    MaxRequests,    \* bound: requests
    MaxEdits,       \* bound: commands of operators, imports and restarts
    None

\* The month of an event is -1, 0 or 1: before, in or after the month in which
\* it is sent (_check_timestamp allows 24 hours of the future).  A batch has at
\* least one event, and there is a longest one (_MAX_BATCH, TF-EVT-007).
ASSUME AdmissionAssumption ==
    /\ WindowLength \in Nat \ {0}
    /\ Rates \cup Quotas \cup {DefaultRate, InitialQuota} \subseteq Nat
    /\ {MaxTime, MaxRequests, MaxEdits} \subseteq Nat
    /\ MaxMonths \in Nat \ {0}
    /\ IsFiniteSet(Procs)
    /\ ProcOf \in [Slots -> Procs]
    /\ \A k \in Keys : k.deps \subseteq Deployments
    /\ Batches \subseteq Seq([dep : Deployments, month : {-1, 0, 1}]) \ {<<>>}
    /\ \E b \in Batches : \A c \in Batches : Len(c) <= Len(b)

VARIABLES
    status,         \* key -> "absent", "active" or "revoked"
    grants,         \* api_key_deployments: key -> deployments
    rpm,            \* workspaces.rate_limit_rpm
    quota,          \* the quota of organizations.plan_type
    hits,           \* _window_hits: process -> its newest window and the count
    used,           \* month -> the number of events that occurred in it and are stored
    req,            \* slot -> the request it serves
    now, month,
    admitted,       \* history: requests that passed check_rate in the current window
    counted,        \* history: month -> events stored by requests that passed check_quota in it
    writes,         \* history: <<key, deployment, late>> of the events stored
    top,            \* history: the highest rate and quota in force so far
    requests, restarts, edits

clock == <<now, month>>
admin == <<status, grants, rpm, quota, top, edits>>
store == <<used, counted, writes>>
limiter == <<hits, admitted>>
vars == <<admin, store, limiter, req, clock, requests, restarts>>

Idle == [pc |-> "idle", key |-> None, batch |-> <<>>, pos |-> 1, granted |-> {}, rpm |-> 0,
         sent |-> 0, checked |-> 0, late |-> FALSE]

Higher(a, b) == IF a > b THEN a ELSE b

-------------------------------------------------------------------------------
(* require_principal *)

\* A request arrives: late if its key was revoked before.
Arrive(s, k, b) ==
    /\ req[s].pc = "idle"
    /\ requests < MaxRequests
    /\ requests' = requests + 1
    /\ req' = [req EXCEPT ![s] = [Idle EXCEPT !.pc = "key", !.key = k, !.batch = b, !.sent = month,
                                             !.late = status[k] = "revoked"]]
    /\ UNCHANGED <<admin, store, limiter, clock, restarts>>

Goto(s, step) == req' = [req EXCEPT ![s].pc = step]

\* The request is answered.
Finish(s) == req' = [req EXCEPT ![s] = Idle]

\* Faulty: a key that was active when the process saw it first is not looked up again.
ResolveKeyCached(s) ==
    LET k == req[s].key IN
    /\ req[s].pc = "key"
    /\ \/ status[k] = "absent" /\ Finish(s)
       \/ status[k] # "absent" /\ Goto(s, IF k.scope = "deployment" THEN "grants" ELSE "principal")
    /\ UNCHANGED <<admin, store, limiter, clock, requests, restarts>>

\* resolve_key: TF-AUTH-001, TF-AUTH-003
ResolveKey(s) ==
    LET k == req[s].key
        serves == k.mode = (IF Environment = "production" THEN "production" ELSE "test") IN
    /\ req[s].pc = "key"
    /\ \/ (status[k] # "active" \/ ~serves) /\ Finish(s)
       \/ /\ status[k] = "active" /\ serves
          /\ Goto(s, IF k.scope = "deployment" THEN "grants" ELSE "principal")
    /\ UNCHANGED <<admin, store, limiter, clock, requests, restarts>>

\* SELECT deployment_id FROM api_key_deployments
ReadGrants(s) ==
    /\ req[s].pc = "grants"
    /\ req' = [req EXCEPT ![s].pc = "principal", ![s].granted = grants[req[s].key]]
    /\ UNCHANGED <<admin, store, limiter, clock, requests, restarts>>

-------------------------------------------------------------------------------
(* ingest_events *)

\* The event loop runs the handler of one request at a time.
LoopFree(s) ==
    \A t \in Slots \ {s} : ProcOf[t] = ProcOf[s] => req[t].pc \notin {"rate", "quota", "store"}

\* SELECT rate_limit_rpm
ReadRate(s) ==
    /\ req[s].pc = "principal"
    /\ LoopFree(s)
    /\ req' = [req EXCEPT ![s].pc = "rate", ![s].rpm = rpm]
    /\ UNCHANGED <<admin, store, limiter, clock, requests, restarts>>

Window(t) == t \div WindowLength

\* The hits of the process in the current window, this one included.
Count(p) == IF hits[p].window = Window(now) THEN hits[p].count + 1 ELSE 1

\* Faulty: the request is compared before it is counted.
OverBefore(p, limit) == Count(p) - 1 > limit

Over(p, limit) == Count(p) > limit

\* check_rate: a request that is refused counts too.
CheckRate(s) ==
    LET p == ProcOf[s] IN
    /\ req[s].pc = "rate"
    /\ hits' = [hits EXCEPT ![p] = [window |-> Window(now), count |-> Count(p)]]
    /\ \/ /\ Over(p, req[s].rpm)
          /\ Finish(s)
          /\ UNCHANGED admitted
       \/ /\ ~Over(p, req[s].rpm)
          /\ admitted' = admitted + 1
          /\ Goto(s, "quota")
    /\ UNCHANGED <<admin, store, clock, requests, restarts>>

\* Faulty: the quota may be exceeded by one.
ExhaustedBeyond(m) == used[m] > quota

\* The events that occurred in the month, however they were stored.
Exhausted(m) == used[m] >= quota

\* check_quota: TF-RATE-002
CheckQuota(s) ==
    /\ req[s].pc = "quota"
    /\ \/ Exhausted(month) /\ Finish(s)
       \/ /\ ~Exhausted(month)
          /\ req' = [req EXCEPT ![s].pc = "store", ![s].checked = month]
    /\ UNCHANGED <<admin, store, limiter, clock, requests, restarts>>

\* require_deployment
InScope(s, dep) == req[s].key.scope = "deployment" => dep \in req[s].granted

\* _process_one for each event, which is a new one (Ingestion has duplicates);
\* TF-AUTH-002 ends the request, after what was stored before.  A test-mode key
\* stores nothing.
Store(s) ==
    LET e == req[s].batch[req[s].pos]
        m == req[s].sent + e.month IN
    /\ req[s].pc = "store"
    /\ \/ ~InScope(s, e.dep) /\ Finish(s) /\ UNCHANGED store
       \/ /\ InScope(s, e.dep)
          /\ IF req[s].key.mode = "test" THEN UNCHANGED store
             ELSE /\ used' = [used EXCEPT ![m] = @ + 1]
                  /\ counted' = IF m = req[s].checked THEN [counted EXCEPT ![m] = @ + 1] ELSE counted
                  /\ writes' = writes \cup {<<req[s].key, e.dep, req[s].late>>}
          /\ IF req[s].pos = Len(req[s].batch) THEN Finish(s) ELSE req' = [req EXCEPT ![s].pos = @ + 1]
    /\ UNCHANGED <<admin, limiter, clock, requests, restarts>>

-------------------------------------------------------------------------------
(* Operators, the clock and the processes *)

Edit ==
    /\ edits < MaxEdits
    /\ edits' = edits + 1
    /\ UNCHANGED <<store, limiter, req, clock, requests, restarts>>

\* The key and its grants are inserted in one transaction.
key_issue(k) ==
    /\ status[k] = "absent"
    /\ status' = [status EXCEPT ![k] = "active"]
    /\ grants' = [grants EXCEPT ![k] = k.deps]
    /\ UNCHANGED <<rpm, quota, top>>
    /\ Edit

key_revoke(k) ==
    /\ status[k] = "active"
    /\ status' = [status EXCEPT ![k] = "revoked"]
    /\ UNCHANGED <<grants, rpm, quota, top>>
    /\ Edit

grant_add(k, d) ==
    /\ status[k] # "absent"
    /\ grants' = [grants EXCEPT ![k] = @ \cup {d}]
    /\ UNCHANGED <<status, rpm, quota, top>>
    /\ Edit

limits_set(r) ==
    /\ rpm' = r
    /\ top' = [top EXCEPT !.rpm = Higher(@, r)]
    /\ UNCHANGED <<status, grants, quota>>
    /\ Edit

plan_set(q) ==
    /\ quota' = q
    /\ top' = [top EXCEPT !.quota = Higher(@, q)]
    /\ UNCHANGED <<status, grants, rpm>>
    /\ Edit

\* run_import stores a line: no limit is asked.
Import ==
    /\ used' = [used EXCEPT ![month] = @ + 1]
    /\ edits < MaxEdits
    /\ edits' = edits + 1
    /\ UNCHANGED <<status, grants, rpm, quota, top, counted, writes, limiter, req, clock, requests, restarts>>

\* A second passes; a month begins with a minute.
Tick ==
    /\ now < MaxTime
    /\ now' = now + 1
    /\ \/ Window(now') = Window(now) /\ UNCHANGED <<month, admitted>>
       \/ /\ Window(now') # Window(now)
          /\ month' \in {m \in {month, month + 1} : m <= MaxMonths}
          /\ admitted' = 0
    /\ UNCHANGED <<admin, store, hits, req, requests, restarts>>

\* The process is started again: its requests and its counters are lost.
Restart(p) ==
    /\ edits < MaxEdits
    /\ edits' = edits + 1
    /\ restarts' = restarts + 1
    /\ hits' = [hits EXCEPT ![p] = [window |-> 0, count |-> 0]]
    /\ req' = [s \in Slots |-> IF ProcOf[s] = p THEN Idle ELSE req[s]]
    /\ UNCHANGED <<status, grants, rpm, quota, top, store, admitted, clock, requests>>

-------------------------------------------------------------------------------
Init ==
    /\ status \in {[k \in Keys |-> "absent"], [k \in Keys |-> "active"]}
    /\ grants = [k \in Keys |-> IF status[k] = "active" THEN k.deps ELSE {}]
    /\ rpm = DefaultRate
    /\ quota = InitialQuota
    /\ hits = [p \in Procs |-> [window |-> 0, count |-> 0]]
    /\ used = [m \in 0..MaxMonths + 1 |-> 0]
    /\ req = [s \in Slots |-> Idle]
    /\ now = 0 /\ month = 1
    /\ admitted = 0
    /\ counted = [m \in 0..MaxMonths + 1 |-> 0]
    /\ writes = {}
    /\ top = [rpm |-> rpm, quota |-> quota]
    /\ requests = 0 /\ restarts = 0 /\ edits = 0

Handle(s) ==
    \/ ResolveKey(s) \/ ReadGrants(s) \/ ReadRate(s) \/ CheckRate(s) \/ CheckQuota(s) \/ Store(s)

Operate ==
    \/ \E k \in Keys : key_issue(k) \/ key_revoke(k)
    \/ \E k \in Keys, d \in Deployments : grant_add(k, d)
    \/ \E r \in Rates : limits_set(r)
    \/ \E q \in Quotas : plan_set(q)
    \/ Import

Next ==
    \/ \E s \in Slots, k \in Keys, b \in Batches : Arrive(s, k, b)
    \/ \E s \in Slots : Handle(s)
    \/ Operate
    \/ Tick
    \/ \E p \in Procs : Restart(p)

Spec == Init /\ [][Next]_vars

-------------------------------------------------------------------------------
(* Properties *)

\* In one window the processes together admit at most the highest limit that
\* was in force for each process and each restart (the module says "a single
\* API worker"): requests that are refused, limits that change between the read
\* and the count, and windows that begin meanwhile add nothing.
RateBounded == admitted <= top.rpm * (Cardinality(Procs) + restarts)

MaxBatch == CHOOSE n \in {Len(b) : b \in Batches} : \A b \in Batches : Len(b) <= n

\* The quota is asked before a batch is stored, so that it is overshot, but by
\* no more than one batch for each process: requests that passed the check in
\* a month store less than the quota and those batches of its events.
QuotaBounded ==
    \A m \in DOMAIN counted : counted[m] < Higher(top.quota, 1) + Cardinality(Procs) * MaxBatch

\* Nothing is stored for a request that arrived after its key was revoked, for a
\* key of another mode, or in a deployment that a scoped key was not granted.
AuthorizedOnly ==
    \A w \in writes : LET k == w[1] IN
        /\ ~w[3]
        /\ k.mode = "production" /\ Environment = "production"
        /\ k.scope = "deployment" => w[2] \in grants[k]
===============================================================================
