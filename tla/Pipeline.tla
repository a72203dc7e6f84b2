-------------------------------- MODULE Pipeline --------------------------------
(***************************************************************************)
(* The post-ingestion pipeline (domain/policies/pipeline.py): any number   *)
(* of workers run run_pipeline at the same time.  A worker takes the       *)
(* oldest accepted event that no other worker has locked (FOR UPDATE SKIP  *)
(* LOCKED), attributes it against the roster, joins its work item and      *)
(* upserts the daily aggregates, all in one transaction per event.         *)
(*                                                                         *)
(* PostgreSQL, READ COMMITTED: each statement sees what is committed when  *)
(* it runs.  INSERT ... ON CONFLICT DO UPDATE locks the row it meets until *)
(* the transaction ends and waits while another transaction has it; what   *)
(* it writes stays in the transaction (draft) until COMMIT.  One action is *)
(* one statement.  A worker may die between any two; its transaction is    *)
(* then rolled back.                                                       *)
(***************************************************************************)
EXTENDS Aggregates      \* the tables, the folds, and the atomic folding that the workers implement

CONSTANTS
    Workers,        \* the processes that run run_pipeline
    Namespaces,     \* names of identifier namespaces
    RosterItems,    \* the roster entries that may be upserted: [user, kind, until, idents]
    MaxChanges,     \* bound: changes of the roster in a behaviour
    MaxCrashes      \* bound: deaths of workers in a behaviour

\* NULL is no row of a table.
ASSUME PipelineAssumption ==
    /\ None \notin [exists : BOOLEAN, size : {e.size : e \in Events} \cup {None}]
    /\ None \notin [sum : 0..Capacity, gauge : (0..Capacity) \cup {None}]

VARIABLES
    users,          \* the roster: user -> [kind, blocked, until]; kind "absent" before it is known
    identifiers,    \* user_identifiers: <<namespace, value, user>>
    namespace,      \* the namespace declared for the identity field, or None
    pc,             \* the statement each worker executes next
    task,           \* what each worker has read: [event, ns, user, reason]
    draft,          \* what each worker's transaction has written
    held,           \* the row locks of each worker's transaction
    changes,        \* roster changes so far
    crashes         \* deaths so far

tables == <<row, items, stats, activity, meters>>
roster == <<users, identifiers, namespace, changes>>
pipeVars == <<tables, roster, pc, task, draft, held, crashes>>

-------------------------------------------------------------------------------
(* Transactions *)

NoTask == [event |-> None, ns |-> None, user |-> None, reason |-> None]

NoDraft == [item |-> None, stats |-> None, activity |-> None, meter |-> None]

\* Faulty: an upsert reads the row without locking it.
FreeUnlocked(w, x) == TRUE

\* Whether no other transaction has the row.
Free(w, x) == \A v \in Workers \ {w} : x \notin held[v]

\* The statement returns; the worker goes on with the next one.
Goto(w, step) == pc' = [pc EXCEPT ![w] = step]

\* The transaction writes a value to row x and keeps x locked.
Write(w, x, field, value) ==
    /\ Free(w, x)
    /\ held' = [held EXCEPT ![w] = @ \cup {x}]
    /\ draft' = [draft EXCEPT ![w][field] = value]

\* The transaction ends: its locks and what it read are gone.
End(w) ==
    /\ pc' = [pc EXCEPT ![w] = "idle"]
    /\ task' = [task EXCEPT ![w] = NoTask]
    /\ draft' = [draft EXCEPT ![w] = NoDraft]
    /\ held' = [held EXCEPT ![w] = {}]

-------------------------------------------------------------------------------
(* run_pipeline *)

Lockable(w) == {e \in Events : row[e].status = "accepted" /\ Free(w, <<"event", e>>)}

\* SELECT ... WHERE pipeline_status = 'accepted' ORDER BY occurred_at
\* FOR UPDATE SKIP LOCKED LIMIT 1
Take(w) ==
    /\ pc[w] = "idle"
    /\ \E e \in Lockable(w) :
        /\ \A f \in Lockable(w) : e.at <= f.at
        /\ task' = [task EXCEPT ![w] = [NoTask EXCEPT !.event = e]]
        /\ held' = [held EXCEPT ![w] = {<<"event", e>>}]
        /\ Goto(w, IF e.who = None THEN "join" ELSE "namespace")
    /\ UNCHANGED <<tables, roster, draft, crashes>>

\* _applicable_namespace
FindNamespace(w) ==
    /\ pc[w] = "namespace"
    /\ task' = [task EXCEPT ![w].ns = namespace]
    /\ Goto(w, "identify")
    /\ UNCHANGED <<tables, roster, draft, held, crashes>>

\* The users an identifier value stands for: within the declared namespace,
\* else in any namespace (LIMIT 1 picks one of them).
Candidates(ns, value) ==
    {u \in Users : \E n \in Namespaces : /\ <<n, value, u>> \in identifiers
                                         /\ ns = None \/ n = ns}

\* The identifier, else the user_ref itself, else nobody.
Identify(w) ==
    LET value == task[w].event.who
        found == Candidates(task[w].ns, value) IN
    /\ pc[w] = "identify"
    /\ \/ \E u \in found : /\ task' = [task EXCEPT ![w].user = u]
                           /\ Goto(w, "profile")
       \/ /\ found = {}
          /\ value \in Users
          /\ users[value].kind # "absent"
          /\ task' = [task EXCEPT ![w].user = value]
          /\ Goto(w, "profile")
       \/ /\ found = {}
          /\ value \in Users => users[value].kind = "absent"
          /\ Goto(w, "join")
          /\ UNCHANGED task
    /\ UNCHANGED <<tables, roster, draft, held, crashes>>

\* _EXCLUSION_BY_TYPE
Exclusion(kind) ==
    CASE kind = "shared"  -> "shared_account"
      [] kind = "service" -> "service_account"
      [] kind = "bot"     -> "bot_account"
      [] OTHER            -> None

\* SELECT user_type, user_status, effective_to FROM users
Profile(w) ==
    LET u == users[task[w].user] IN
    /\ pc[w] = "profile"
    /\ task' = IF u.blocked
               THEN [task EXCEPT ![w].reason = "unresolved_identity"]
               ELSE IF u.until # None /\ Day(task[w].event) > u.until
                    THEN [task EXCEPT ![w].user = None]
                    ELSE [task EXCEPT ![w].reason = Exclusion(u.kind)]
    /\ Goto(w, "join")
    /\ UNCHANGED <<tables, roster, draft, held, crashes>>

\* _join_work_item
Join(w) ==
    LET e == task[w].event
        i == ItemOf(e) IN
    /\ pc[w] = "join"
    /\ IF i = None THEN UNCHANGED <<draft, held>>
       ELSE Write(w, <<"item", i>>, "item", FoldItem(items[i], e))
    /\ Goto(w, "stats")
    /\ UNCHANGED <<tables, roster, task, crashes>>

\* UPDATE events (the row is locked already), then ingestion_stats_daily.
Stats(w) ==
    LET e == task[w].event
        k == StatsKey(e) IN
    /\ pc[w] = "stats"
    /\ Write(w, <<"stats", k>>, "stats", FoldStats(stats[k], e, task[w].user, task[w].reason))
    /\ Goto(w, "activity")
    /\ UNCHANGED <<tables, roster, task, crashes>>

\* user_activity_daily
Activity(w) ==
    LET e == task[w].event
        k == ActivityKey(e, task[w].user) IN
    /\ pc[w] = "activity"
    /\ IF CountsActivity(e, task[w].user, task[w].reason)
       THEN Write(w, <<"activity", k>>, "activity", activity[k] + 1)
       ELSE UNCHANGED <<draft, held>>
    /\ Goto(w, "meter")
    /\ UNCHANGED <<tables, roster, task, crashes>>

\* Faulty: an overflow is tried again inside the transaction.
MeterRetrying(w) ==
    LET e == task[w].event
        k == MeterKey(e)
        m == FoldMeter(meters[k], e) IN
    /\ pc[w] = "meter"
    /\ \/ /\ e.type # "cost_meter"
          /\ Goto(w, "commit")
          /\ UNCHANGED <<task, draft, held>>
       \/ /\ e.type = "cost_meter"
          /\ Fits(m)
          /\ Write(w, <<"meter", k>>, "meter", m)
          /\ Goto(w, "commit")
          /\ UNCHANGED task
    /\ UNCHANGED <<tables, roster, crashes>>

\* meter_usage_daily; a value that does not fit raises, the transaction is
\* rolled back and run_pipeline ends.
Meter(w) ==
    LET e == task[w].event
        k == MeterKey(e)
        m == FoldMeter(meters[k], e) IN
    /\ pc[w] = "meter"
    /\ \/ /\ e.type # "cost_meter"
          /\ Goto(w, "commit")
          /\ UNCHANGED <<task, draft, held>>
       \/ /\ e.type = "cost_meter"
          /\ Free(w, <<"meter", k>>)
          /\ IF Fits(m)
             THEN Write(w, <<"meter", k>>, "meter", m) /\ Goto(w, "commit") /\ UNCHANGED task
             ELSE End(w)
    /\ UNCHANGED <<tables, roster, crashes>>

\* COMMIT: the drafts become the rows.
Commit(w) ==
    LET t == task[w]
        e == t.event
        d == draft[w] IN
    /\ pc[w] = "commit"
    /\ row' = [row EXCEPT ![e] = Outcome(e, t.user, t.reason)]
    /\ items' = IF d.item = None THEN items ELSE [items EXCEPT ![ItemOf(e)] = d.item]
    /\ stats' = [stats EXCEPT ![StatsKey(e)] = d.stats]
    /\ activity' = IF d.activity = None THEN activity
                   ELSE [activity EXCEPT ![ActivityKey(e, t.user)] = d.activity]
    /\ meters' = IF d.meter = None THEN meters ELSE [meters EXCEPT ![MeterKey(e)] = d.meter]
    /\ End(w)
    /\ UNCHANGED <<roster, crashes>>

\* A worker dies and is started again.
Crash(w) ==
    /\ pc[w] # "idle"
    /\ crashes < MaxCrashes
    /\ crashes' = crashes + 1
    /\ End(w)
    /\ UNCHANGED <<tables, roster>>

-------------------------------------------------------------------------------
(* What happens around the workers *)

\* The write plane commits an event.
IngestEvent(e) ==
    /\ Ingest(e)
    /\ UNCHANGED <<roster, pc, task, draft, held, crashes>>

Change ==
    /\ changes < MaxChanges
    /\ changes' = changes + 1
    /\ UNCHANGED <<tables, pc, task, draft, held, crashes>>

\* One entry of upsert_roster, in a transaction of its own: refused when one of
\* its identifiers belongs to somebody else.  The status of a known user stays.
UpsertRoster(r) ==
    /\ Change
    /\ \A n \in r.idents, u \in Users \ {r.user} : <<n[1], n[2], u>> \notin identifiers
    /\ users' = [users EXCEPT ![r.user] = [kind |-> r.kind, blocked |-> @.blocked, until |-> r.until]]
    /\ identifiers' = identifiers \cup {<<n[1], n[2], r.user>> : n \in r.idents}
    /\ UNCHANGED namespace

\* An operator blocks a user.
BlockUser(u) ==
    /\ Change
    /\ users[u].kind # "absent"
    /\ ~users[u].blocked
    /\ users' = [users EXCEPT ![u].blocked = TRUE]
    /\ UNCHANGED <<identifiers, namespace>>

\* register_id_namespace for the identity field: at most one active declaration.
DeclareNamespace(n) ==
    /\ Change
    /\ namespace = None
    /\ namespace' = n
    /\ UNCHANGED <<users, identifiers>>

-------------------------------------------------------------------------------
PipeInit ==
    /\ Init
    /\ users = [u \in Users |-> [kind |-> "absent", blocked |-> FALSE, until |-> None]]
    /\ identifiers = {}
    /\ namespace = None
    /\ pc = [w \in Workers |-> "idle"]
    /\ task = [w \in Workers |-> NoTask]
    /\ draft = [w \in Workers |-> NoDraft]
    /\ held = [w \in Workers |-> {}]
    /\ changes = 0
    /\ crashes = 0

\* One statement of a worker.
Step(w) ==
    \/ Take(w) \/ FindNamespace(w) \/ Identify(w) \/ Profile(w) \/ Join(w)
    \/ Stats(w) \/ Activity(w) \/ Meter(w) \/ Commit(w)

PipeNext ==
    \/ \E w \in Workers : Step(w) \/ Crash(w)
    \/ \E e \in Events : IngestEvent(e)
    \/ \E r \in RosterItems : UpsertRoster(r)
    \/ \E u \in Users : BlockUser(u)
    \/ \E n \in Namespaces : DeclareNamespace(n)

PipeSpec == PipeInit /\ [][PipeNext]_pipeVars

\* The pipeline is a worker-loop tick: every worker is run again and again.
\* PostgreSQL grants a row lock to the transactions that wait for it in the
\* order of their arrival, so one that keeps failing and coming back (an event
\* that overflows) does not overtake the others for ever: strong fairness.
FairSpec == PipeSpec /\ \A w \in Workers : SF_pipeVars(Step(w))

-------------------------------------------------------------------------------
(* Properties *)

\* The workers' statements, crashes and waits implement the atomic folding of
\* Aggregates: no update of a shared aggregate row is lost, an event is folded
\* exactly when its row is marked, and a dead worker leaves no trace.
ImplementsAggregates == Spec

\* An accepted cost_meter event whose quantity its row cannot take, not younger
\* than e: every run takes it first and ends with it.
Overflowing(e) ==
    \E f \in Events : /\ f.type = "cost_meter"
                      /\ f.at <= e.at
                      /\ row[f].status = "accepted"
                      /\ ~Fits(FoldMeter(meters[MeterKey(f)], f))

\* No event stays accepted for ever, unless an overflowing event stands before
\* it: workers that wait for each other's rows, die, or skip locked events
\* starve none.
EveryEventFolded ==
    \A e \in Events : []<>(row[e].status = "accepted" => Overflowing(e))
===============================================================================
