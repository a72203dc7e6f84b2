------------------------------ MODULE ConfigPlane ------------------------------
(***************************************************************************)
(* The configuration plane (api/routes/config_plane.py): the handlers that *)
(* declare deployments, namespaces, subscriptions, mapping contracts,      *)
(* label schemas, parameter versions, licenses, change events and the      *)
(* roster.  A handler is one transaction (the roster: one for each entry)  *)
(* of the statements below, READ COMMITTED, and each API process serves    *)
(* one request at a time.                                                  *)
(*                                                                         *)
(* Most handlers look first and insert afterwards.  What keeps two of them *)
(* from both finding nothing are the unique indexes: an INSERT that meets  *)
(* an entry of an open transaction waits for it to end, and one that meets *)
(* a committed entry fails, which no handler catches (TF-SRV-001).         *)
(* Identities are numbers: a row is as old as its id is small.             *)
(***************************************************************************)
EXTENDS Integers, Sequences, FiniteSets, FiniteSetsExt, Relation

CONSTANTS
    Procs,          \* API processes
    Workloads,      \* bound: the sets of requests that may arrive together
    Seed,           \* rows committed before
    MaxRequests,    \* bound: requests served
    MaxCrashes,     \* bound: deaths of processes
    None            \* SQL NULL

\* The handlers that declare something, and the others.
Declaring == {"register_deployment", "register_id_namespace", "create_webhook",
              "create_mapping_contract", "register_label_schema", "create_parameter_version",
              "declare_license", "declare_change_event"}
Handlers == Declaring \cup {"update_deployment", "delete_webhook", "upsert_roster"}

ASSUME ConfigAssumption ==
    /\ IsFiniteSet(Procs)
    /\ None \notin Procs \cup Int
    /\ MaxRequests \in Nat /\ MaxCrashes \in Nat

\* A request names its handler (op), the natural key of what it declares, the
\* deployment it is about, a date, a list (service accounts, deployments or
\* roster entries) and whether the key has the role or the grants it takes.  The
\* request models require the date of a license, the user of a roster entry and
\* the value of an identifier.
ASSUME RequestsAssumption ==
    \A w \in Workloads : \A r \in w :
        /\ r.op \in Handlers
        /\ "op" \in DOMAIN r /\ "identifiers" \notin DOMAIN r
        /\ r.list \in Seq({r.list[n] : n \in DOMAIN r.list})
        /\ r.op = "declare_license" => r.key # None /\ r.from \in Int
        /\ r.op = "upsert_roster" => \A n \in DOMAIN r.list : LET e == r.list[n] IN
            /\ "identifiers" \in DOMAIN e /\ "op" \notin DOMAIN e
            /\ e.user # None
            /\ e.identifiers \in Seq({e.identifiers[i] : i \in DOMAIN e.identifiers} \ {None})

\* A workspace begins empty; to start with some deployments and users shortens
\* behaviours.
ASSUME SeedAssumption ==
    /\ IsFiniteSet(Seed)
    /\ \A r \in Seed :
        /\ r = [id |-> r.id, tab |-> r.tab, key |-> r.key, val |-> r.val, num |-> r.num,
                from |-> r.from, upto |-> r.upto]
        /\ r.id \in 1..Cardinality(Seed)
        /\ r.tab \in {"deployments", "users"}
        /\ r.key # None
    /\ \A r, s \in Seed : r.id = s.id \/ (r.tab = s.tab /\ r.key = s.key) => r = s

VARIABLES
    tables,         \* the committed rows
    own,            \* process -> the rows its open transaction has written
    pc,             \* process -> the statement it executes next
    job,            \* process -> its request and what it has read
    workload,       \* the requests of this behaviour
    answers,        \* history: the answers sent
    begun,          \* history: requests begun
    crashes

vars == <<tables, own, pc, job, workload, answers, begun, crashes>>

\* A row: val is a kind, status or name, num a version or the id of another row
\* (owner, successor, what is linked), from and upto the window of a license.
Row(id, tab, key, val, num, from) ==
    [id |-> id, tab |-> tab, key |-> key, val |-> val, num |-> num, from |-> from, upto |-> None]

NoJob == [req |-> None, item |-> 1, pos |-> 1, id |-> None, target |-> None, version |-> 0, said |-> {}]

-------------------------------------------------------------------------------
(* Unique indexes and what a transaction sees *)

\* The unique columns of a row: constraints and partial indexes of the schema.
UniqueColumns(r) ==
    CASE r.tab = "parameter_sets" -> {<<"version", r.num>>, <<"effective_from", r.key>>}
      [] r.tab = "deployment_licenses" -> IF r.upto = None THEN {<<"current", r.key>>} ELSE {}
      [] r.tab = "links" -> {<<"links", r.num, r.key>>}
      [] r.tab = "change_log" -> {}
      [] OTHER -> {<<r.tab, r.key>>}

\* Faulty: no unique constraint on the version of parameters.
EntriesNoVersion(r) == {c \in UniqueColumns(r) : c[2] # None /\ c[1] # "version"}

\* Faulty: no index on the current license.
EntriesNoCurrent(r) == {c \in UniqueColumns(r) : c[2] # None /\ c[1] # "current"}

\* Faulty: no unique constraint on (workspace_id, external_ref).
EntriesNoDeployment(r) == {c \in UniqueColumns(r) : c[2] # None /\ c[1] # "deployments"}

\* The entries of a row in the unique indexes: NULLs are distinct.
Entries(r) == {c \in UniqueColumns(r) : c[2] # None}

Ids(S) == {r.id : r \in S}

\* What a statement of p reads: the committed rows as p has changed them.
View(p) == {r \in tables : r.id \notin Ids(own[p])} \cup own[p]

In(p, tab) == {r \in View(p) : r.tab = tab}

Named(p, tab, key) == {r \in In(p, tab) : r.key = key}

\* An id nobody has; the id of a row that was rolled back was never told.
NewId == 1 + Max({0} \cup Ids(tables) \cup UNION {Ids(own[q]) : q \in Procs})

\* The other transactions that have an entry of r, or are about to give it up.
Holders(p, r) ==
    {q \in Procs \ {p} : \E s \in own[q] \cup {t \in tables : t.id \in Ids(own[q])} :
                            Entries(s) \cap Entries(r) # {}}

\* The other transactions that have written the row.
Lockers(p, id) == {q \in Procs \ {p} : id \in Ids(own[q])}

Taken(p, r) == \E s \in View(p) : Entries(s) \cap Entries(r) # {}

-------------------------------------------------------------------------------
(* The rows that the next statement of p writes *)

Item(p) == job[p].req.list[job[p].item]

TableOf(op) ==
    CASE op = "register_deployment" -> "deployments"
      [] op = "register_id_namespace" -> "identifier_namespaces"
      [] op = "create_webhook" -> "webhooks"
      [] op = "create_mapping_contract" -> "mapping_contracts"
      [] op = "register_label_schema" -> "qa_label_definitions"
      [] op = "create_parameter_version" -> "parameter_sets"
      [] op = "declare_license" -> "deployment_licenses"
      [] op = "declare_change_event" -> "change_log"

\* INSERT of the handler.
Draft(p) ==
    LET r == job[p].req IN
    Row(NewId, TableOf(r.op), r.key,
        IF r.op = "create_webhook" THEN "unverified" ELSE None,
        IF r.op = "create_parameter_version" THEN job[p].version ELSE None,
        r.from)

DraftUser(p) == Row(NewId, "users", Item(p).user, Item(p).kind, None, None)

DraftIdentifier(p) ==
    Row(NewId, "user_identifiers", Item(p).identifiers[job[p].pos], None, job[p].id, None)

\* Whom the next statement of p waits for.
WaitsFor(p) ==
    CASE pc[p] = "insert" -> Holders(p, Draft(p))
      [] pc[p] = "user" -> Holders(p, DraftUser(p))
      [] pc[p] = "claim" -> Holders(p, DraftIdentifier(p))
      [] pc[p] \in {"close", "supersede", "delete", "rename"} -> Lockers(p, job[p].target)
      [] OTHER -> {}

-------------------------------------------------------------------------------
(* Control *)

Goto(p, step) == pc' = [pc EXCEPT ![p] = step]

Answer(about, out, id) == [about |-> about, out |-> out, id |-> id]

\* An exception ends the handler: the transaction is rolled back, and the
\* entries of a roster that were committed before are not reported.
Fail(p, code, id) ==
    /\ own' = [own EXCEPT ![p] = {}]
    /\ job' = [job EXCEPT ![p].said = {Answer(job[p].req, code, id)}]
    /\ Goto(p, "reply")
    /\ UNCHANGED tables

\* A statement has written row r, and the handler goes on.
Wrote(p, r, step) ==
    /\ own' = [own EXCEPT ![p] = {s \in @ : s.id # r.id} \cup {r}]
    /\ Goto(p, step)

Step(p, at) ==
    /\ pc[p] = at
    /\ WaitsFor(p) = {}
    /\ UNCHANGED <<workload, answers, begun, crashes>>

FirstStep(r) ==
    CASE r.op \in {"register_deployment", "create_webhook", "create_mapping_contract"} ->
            IF r.key = None THEN "insert" ELSE "check"
      [] r.op = "create_parameter_version" -> "role"
      [] r.op = "register_id_namespace" -> IF r.dep = None THEN "check" ELSE "resolve"
      [] r.op \in {"declare_license", "update_deployment"} -> "resolve"
      [] r.op = "delete_webhook" -> "delete"
      [] r.op = "upsert_roster" -> IF r.list = <<>> THEN "reply" ELSE "user"
      [] OTHER -> "insert"

\* What a request may refer to: a client knows the ids of committed rows; 0 is
\* an id that does not exist.
Targets(r) ==
    CASE r.op = "declare_change_event" /\ r.val = "supersedes" ->
            Ids({s \in tables : s.tab = "change_log"}) \cup {0}
      [] r.op = "delete_webhook" -> Ids({s \in tables : s.tab = "webhooks"}) \cup {0}
      [] OTHER -> {None}

Begin(p) ==
    /\ pc[p] = "idle"
    /\ begun < MaxRequests
    /\ begun' = begun + 1
    /\ \E r \in workload, t \in UNION {Targets(q) : q \in workload} :
        /\ t \in Targets(r)
        /\ job' = [job EXCEPT ![p] = [NoJob EXCEPT !.req = r, !.target = t]]
        /\ Goto(p, FirstStep(r))
    /\ UNCHANGED <<tables, own, workload, answers, crashes>>

-------------------------------------------------------------------------------
(* Looking first *)

\* "finance_params" not in principal.roles (BR-016)
RequireRole(p) ==
    /\ Step(p, "role")
    /\ \/ job[p].req.allowed /\ Goto(p, "check") /\ UNCHANGED <<tables, own, job>>
       \/ ~job[p].req.allowed /\ Fail(p, "TF-CFG-002", None)

\* _resolve_deployment
ResolveDeployment(p) ==
    LET r == job[p].req
        known == Named(p, "deployments", r.dep) IN
    /\ Step(p, "resolve")
    /\ \/ known = {} /\ Fail(p, "TF-EVT-002", None)
       \/ known # {} /\ ~r.allowed /\ Fail(p, "TF-AUTH-002", None)
       \/ /\ known # {} /\ r.allowed
          /\ \E d \in known : job' = [job EXCEPT ![p].target = d.id]
          /\ Goto(p, CASE r.op = "declare_license" -> "find"
                       [] r.op = "update_deployment" -> "retype"
                       [] OTHER -> "check")
          /\ UNCHANGED <<tables, own>>

\* The answer of a handler that finds what it was asked to declare.  A
\* subscription counts although it was deleted.
ExistsCode(op) ==
    CASE op = "register_deployment" -> "TF-CFG-003"
      [] op = "register_id_namespace" -> "TF-CFG-004"
      [] op = "create_mapping_contract" -> "TF-CFG-006"
      [] op = "create_parameter_version" -> "TF-CFG-001"
      [] op = "create_webhook" -> "idempotent"

\* SELECT ... WHERE the natural key is the same
CheckExisting(p) ==
    LET r == job[p].req
        same == Named(p, TableOf(r.op), r.key) IN
    /\ Step(p, "check")
    /\ \/ \E s \in same : Fail(p, ExistsCode(r.op), s.id)
       \/ /\ same = {}
          /\ Goto(p, IF r.op = "create_parameter_version" THEN "number" ELSE "insert")
          /\ UNCHANGED <<tables, own, job>>

\* SELECT COALESCE(MAX(version), 0) + 1
NumberVersion(p) ==
    /\ Step(p, "number")
    /\ job' = [job EXCEPT ![p].version = 1 + Max({0} \cup {r.num : r \in In(p, "parameter_sets")})]
    /\ Goto(p, "insert")
    /\ UNCHANGED <<tables, own>>

-------------------------------------------------------------------------------
(* Writing *)

\* The statement after the INSERT: the next link, or COMMIT.
AfterInsert(p, pos) ==
    IF pos > Len(job[p].req.list) THEN "commit"
    ELSE IF job[p].req.op = "declare_license" THEN "licensed" ELSE "link"

\* INSERT, once nobody holds an entry of the row; uq_... fails the request.
Insert(p) ==
    LET r == Draft(p) IN
    /\ Step(p, "insert")
    /\ \/ Taken(p, r) /\ Fail(p, "TF-SRV-001", None)
       \/ /\ ~Taken(p, r)
          /\ Wrote(p, r, IF r.tab = "change_log" /\ job[p].target # None THEN "supersede"
                         ELSE AfterInsert(p, 1))
          /\ job' = [job EXCEPT ![p].id = r.id]
          /\ UNCHANGED tables

\* service_user_refs of a deployment must be roster service accounts, and
\* deployment_refs of a change event are resolved: they must be deployments that
\* the key has a grant for.  A ref given twice fails on the unique constraint of
\* the link.
Link(p) ==
    LET r == job[p].req
        ref == r.list[job[p].pos]
        resolved == r.op = "declare_change_event"
        linked == IF resolved THEN Named(p, "deployments", ref)
                  ELSE {u \in Named(p, "users", ref) : u.val = "service"}
        granted == resolved => r.allowed
        link == Row(NewId, "links", ref, None, job[p].id, None) IN
    /\ Step(p, "link")
    /\ \/ linked = {} /\ Fail(p, IF resolved THEN "TF-EVT-002" ELSE "TF-CFG-007", None)
       \/ linked # {} /\ ~granted /\ Fail(p, "TF-AUTH-002", None)
       \/ linked # {} /\ granted /\ Taken(p, link) /\ Fail(p, "TF-SRV-001", None)
       \/ /\ linked # {} /\ granted /\ ~Taken(p, link)
          /\ Wrote(p, link, AfterInsert(p, job[p].pos + 1))
          /\ job' = [job EXCEPT ![p].pos = @ + 1]
          /\ UNCHANGED tables

\* licensed_user_refs, which the roster need not know: ON CONFLICT DO NOTHING
LinkLicensed(p) ==
    LET link == Row(NewId, "links", job[p].req.list[job[p].pos], None, job[p].id, None)
        step == AfterInsert(p, job[p].pos + 1) IN
    /\ Step(p, "licensed")
    /\ IF Taken(p, link) THEN Goto(p, step) /\ UNCHANGED own ELSE Wrote(p, link, step)
    /\ job' = [job EXCEPT ![p].pos = @ + 1]
    /\ UNCHANGED tables

\* UPDATE change_log SET superseded_by_id on the old row
Supersede(p) ==
    LET old == {r \in In(p, "change_log") : r.id = job[p].target} IN
    /\ Step(p, "supersede")
    /\ \/ old = {} /\ Fail(p, "TF-CFG-007", None)
       \/ \E r \in old : /\ Wrote(p, [r EXCEPT !.num = job[p].id], AfterInsert(p, 1))
                         /\ UNCHANGED <<tables, job>>

\* UPDATE deployment_licenses ... WHERE valid_to IS NULL begins: the current
\* license of its snapshot is the row it will wait for.
FindCurrent(p) ==
    LET current == {r \in Named(p, "deployment_licenses", job[p].req.key) : r.upto = None} IN
    /\ Step(p, "find")
    /\ \/ /\ current = {}
          /\ Goto(p, "insert")
          /\ UNCHANGED <<tables, own, job>>
       \/ \E r \in current : /\ job' = [job EXCEPT ![p].target = r.id]
                             /\ Goto(p, "close")
                             /\ UNCHANGED <<tables, own>>

\* ... and is closed unless it was closed meanwhile; ck_deployment_licenses_validity.
CloseCurrent(p) ==
    LET r == CHOOSE s \in View(p) : s.id = job[p].target
        from == job[p].req.from IN
    /\ Step(p, "close")
    /\ \/ r.upto # None /\ Goto(p, "insert") /\ UNCHANGED <<tables, own, job>>
       \/ r.upto = None /\ from < r.from /\ Fail(p, "TF-SRV-001", None)
       \/ /\ r.upto = None /\ from >= r.from
          /\ Wrote(p, [r EXCEPT !.upto = from], "insert")
          /\ UNCHANGED <<tables, job>>

\* UPDATE webhooks SET webhook_status='deleted' ... AND webhook_status<>'deleted'
DeleteWebhook(p) ==
    LET live == {r \in In(p, "webhooks") : r.id = job[p].target /\ r.val # "deleted"} IN
    /\ Step(p, "delete")
    /\ \/ live = {} /\ Fail(p, "TF-READ-001", None)
       \/ \E r \in live : /\ Wrote(p, [r EXCEPT !.val = "deleted"], "commit")
                          /\ job' = [job EXCEPT ![p].id = r.id]
                          /\ UNCHANGED tables

\* update_deployment: another type is refused once events exist, and ignored
\* before; ingestion decides which it is.
CheckType(p) ==
    /\ Step(p, "retype")
    /\ \/ /\ Goto(p, IF "name" \in job[p].req.val THEN "rename" ELSE "commit")
          /\ job' = [job EXCEPT ![p].id = job[p].target]
          /\ UNCHANGED <<tables, own>>
       \/ "type" \in job[p].req.val /\ Fail(p, "TF-CFG-006", None)

\* UPDATE deployments SET name
Rename(p) ==
    LET d == CHOOSE s \in View(p) : s.id = job[p].target IN
    /\ Step(p, "rename")
    /\ Wrote(p, [d EXCEPT !.val = "renamed"], "commit")
    /\ UNCHANGED <<tables, job>>

-------------------------------------------------------------------------------
(* upsert_roster: a transaction for each entry *)

\* On to the next entry, or to the answer.
EndItem(p, out) ==
    LET j == job[p]
        last == j.item = Len(j.req.list) IN
    /\ own' = [own EXCEPT ![p] = {}]
    /\ job' = [job EXCEPT ![p] =
            [j EXCEPT !.said = @ \cup {Answer(Item(p), out, j.id)},
                      !.item = IF last THEN @ ELSE @ + 1, !.pos = 1, !.id = None]]
    /\ Goto(p, IF last THEN "reply" ELSE "user")

\* INSERT INTO users ... ON CONFLICT DO UPDATE; an unknown kind is not a
\* user_type, and the database refuses it.
UpsertUser(p) ==
    LET known == Named(p, "users", Item(p).user)
        row == IF known = {} THEN DraftUser(p)
               ELSE [(CHOOSE u \in known : TRUE) EXCEPT !.val = Item(p).kind] IN
    /\ Step(p, "user")
    /\ \/ Item(p).kind = "unknown" /\ Fail(p, "TF-SRV-001", None)
       \/ /\ Item(p).kind # "unknown"
          /\ Wrote(p, row, IF Item(p).identifiers = <<>> THEN "commit" ELSE "owner")
          /\ job' = [job EXCEPT ![p].id = row.id]
          /\ UNCHANGED tables

\* Faulty: the owners that open transactions have written are seen.
CheckOwnerDirty(p) ==
    LET owned == {r \in tables \cup UNION {own[q] : q \in Procs} :
                    /\ r.tab = "user_identifiers"
                    /\ r.key = Item(p).identifiers[job[p].pos]} IN
    /\ Step(p, "owner")
    /\ UNCHANGED tables
    /\ \/ (\E r \in owned : r.num # job[p].id) /\ EndItem(p, "TF-CFG-004")
       \/ /\ \A r \in owned : r.num = job[p].id
          /\ Goto(p, "claim")
          /\ UNCHANGED <<own, job>>

\* SELECT user_id FROM user_identifiers: the entry is rejected, and undone, when
\* another user has the identifier.
CheckOwner(p) ==
    LET owned == Named(p, "user_identifiers", Item(p).identifiers[job[p].pos]) IN
    /\ Step(p, "owner")
    /\ UNCHANGED tables
    /\ \/ (\E r \in owned : r.num # job[p].id) /\ EndItem(p, "TF-CFG-004")
       \/ /\ \A r \in owned : r.num = job[p].id
          /\ Goto(p, "claim")
          /\ UNCHANGED <<own, job>>

\* Faulty: the identifier is inserted again until nobody has it.
ClaimIdentifierAgain(p) ==
    LET r == DraftIdentifier(p)
        step == IF job[p].pos = Len(Item(p).identifiers) THEN "commit" ELSE "owner" IN
    /\ Step(p, "claim")
    /\ ~Taken(p, r)
    /\ Wrote(p, r, step)
    /\ job' = [job EXCEPT ![p].pos = @ + 1]
    /\ UNCHANGED tables

\* INSERT INTO user_identifiers ... ON CONFLICT DO NOTHING
ClaimIdentifier(p) ==
    LET r == DraftIdentifier(p)
        step == IF job[p].pos = Len(Item(p).identifiers) THEN "commit" ELSE "owner" IN
    /\ Step(p, "claim")
    /\ IF Taken(p, r) THEN Goto(p, step) /\ UNCHANGED own ELSE Wrote(p, r, step)
    /\ job' = [job EXCEPT ![p].pos = @ + 1]
    /\ UNCHANGED tables

-------------------------------------------------------------------------------
(* The end of a transaction, and of a request *)

\* COMMIT
Commit(p) ==
    /\ Step(p, "commit")
    /\ tables' = View(p)
    /\ \/ job[p].req.op = "upsert_roster" /\ EndItem(p, "upserted")
       \/ /\ job[p].req.op # "upsert_roster"
          /\ own' = [own EXCEPT ![p] = {}]
          /\ job' = [job EXCEPT ![p].said = {Answer(job[p].req, "done", job[p].id)}]
          /\ Goto(p, "reply")

Leave(p) ==
    /\ Goto(p, "idle")
    /\ job' = [job EXCEPT ![p] = NoJob]

Reply(p) ==
    /\ pc[p] = "reply"
    /\ answers' = answers \cup job[p].said
    /\ Leave(p)
    /\ UNCHANGED <<tables, own, workload, begun, crashes>>

\* p waits for itself, by way of others.
InCircle(p) == TransitiveClosure([a, b \in Procs |-> b \in WaitsFor(a)], Procs)[p, p]

\* PostgreSQL ends a transaction of a circle that wait for each other.
Deadlock(p) ==
    /\ WaitsFor(p) # {}
    /\ InCircle(p)
    /\ Fail(p, "TF-SRV-001", None)
    /\ UNCHANGED <<workload, answers, begun, crashes>>

\* The process dies: its transaction is rolled back and nobody is answered.
Crash(p) ==
    /\ pc[p] # "idle"
    /\ crashes < MaxCrashes
    /\ crashes' = crashes + 1
    /\ own' = [own EXCEPT ![p] = {}]
    /\ Leave(p)
    /\ UNCHANGED <<tables, workload, answers, begun>>

-------------------------------------------------------------------------------
Init ==
    /\ tables = Seed
    /\ own = [p \in Procs |-> {}]
    /\ pc = [p \in Procs |-> "idle"]
    /\ job = [p \in Procs |-> NoJob]
    /\ workload \in Workloads
    /\ answers = {}
    /\ begun = 0
    /\ crashes = 0

\* A step of the request that p serves.
Serve(p) ==
    \/ RequireRole(p) \/ ResolveDeployment(p) \/ CheckExisting(p) \/ NumberVersion(p)
    \/ Insert(p) \/ Link(p) \/ LinkLicensed(p) \/ Supersede(p)
    \/ FindCurrent(p) \/ CloseCurrent(p) \/ DeleteWebhook(p) \/ CheckType(p) \/ Rename(p)
    \/ UpsertUser(p) \/ CheckOwner(p) \/ ClaimIdentifier(p)
    \/ Commit(p) \/ Reply(p) \/ Deadlock(p)

Next == \E p \in Procs : Begin(p) \/ Serve(p) \/ Crash(p)

Spec == Init /\ [][Next]_vars

\* A statement that waits for nobody is executed, and PostgreSQL looks for
\* deadlocks.
FairSpec == Spec /\ \A p \in Procs : WF_vars(Serve(p))

-------------------------------------------------------------------------------
(* Properties *)

Committed(tab) == {r \in tables : r.tab = tab}

\* The handlers that find what was declared before by its natural key.
Keyed == {"register_deployment", "register_id_namespace", "create_webhook", "create_mapping_contract",
          "create_parameter_version"}

\* The answers that name the row of a natural key: "created" and "already there".
Naming == {a \in answers : "op" \in DOMAIN a.about /\ a.id # None
                          /\ a.about.op \in Keyed /\ a.about.key # None}

\* A declaration may be repeated, at the same time on another process or after
\* a lost answer (semantics.md:99, "Config retry idempotency"): every answer
\* that names a row names a committed one with the key that was asked for, all
\* answers about a key name the same row, and the row of a request that was
\* carried out has all its links.
RetriesAgree ==
    /\ \A a \in Naming : \E r \in Committed(TableOf(a.about.op)) :
            /\ r.id = a.id /\ r.key = a.about.key
            /\ a.out = "done" =>
                Cardinality({l \in Committed("links") : l.num = r.id}) = Len(a.about.list)
    /\ \A a, b \in Naming :
            a.about.op = b.about.op /\ a.about.key = b.about.key => a.id = b.id

\* Versions of parameters are 1 to n without a gap, each given once, although
\* requests number them at the same time and fail: figures stamped with a
\* version name one set of rates.
VersionsGapless ==
    {r.num : r \in Committed("parameter_sets")} = 1..Cardinality(Committed("parameter_sets"))

\* The licenses of a deployment tile time: one of them is current, every other
\* one ends where a later one begins, and no two are in force together.
LicensesTile ==
    \A r \in Committed("deployment_licenses") :
        LET others == {s \in Committed("deployment_licenses") : s.key = r.key /\ s.id # r.id} IN
        /\ \E s \in others \cup {r} : s.upto = None
        /\ r.upto = None => \A s \in others : s.upto # None /\ s.upto <= r.from
        /\ r.upto # None => /\ r.from <= r.upto
                            /\ \E s \in others : s.from = r.upto
                            /\ \A s \in others : s.from >= r.upto \/ (s.upto # None /\ s.upto <= r.from)

UserNamed(id) == (CHOOSE u \in Committed("users") : u.id = id).key

OwnersOf(ident) == {UserNamed(r.num) : r \in {s \in Committed("user_identifiers") : s.key = ident}}

RosterAnswers == {a \in answers : "identifiers" \in DOMAIN a.about}

\* What the roster answers is so, whatever the other batches do: an entry is
\* rejected only for an identifier that another user has, and after "upserted"
\* the user is there and each identifier of the entry has one owner.
RosterAnswersTrue ==
    \A a \in RosterAnswers : LET idents == {a.about.identifiers[n] : n \in DOMAIN a.about.identifiers} IN
        /\ a.out = "TF-CFG-004" => \E i \in idents : \E u \in OwnersOf(i) : u # a.about.user
        /\ a.out = "upserted" => /\ UserNamed(a.id) = a.about.user
                                 /\ \A i \in idents : Cardinality(OwnersOf(i)) = 1

\* Every request ends: transactions that wait for each other's entries are not
\* stuck, and one that waits is served when the others have ended.
EveryRequestEnds == \A p \in Procs : []<>(pc[p] = "idle")

===============================================================================
