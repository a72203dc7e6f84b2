--------------------------------- MODULE Engine ---------------------------------
(***************************************************************************)
(* The measurement engine (domain/engine.py): compute_deployment measures  *)
(* the figures of a deployment in one transaction and announces them, and  *)
(* issue_report binds the latest versions into a report, stores its        *)
(* artifact and announces it.  One workspace and one period are modelled.  *)
(*                                                                         *)
(* Operators start both by hand or from cron (opsctl), so several run at   *)
(* once.  Every claim is measured, numbered (MAX(version) + 1) and         *)
(* inserted by statements of its own; an insert that meets the same        *)
(* version waits for the other transaction and fails if that one commits.  *)
(* What is measured comes from the aggregates, the license, the parameter  *)
(* versions and the change log, which change meanwhile.                    *)
(***************************************************************************)
EXTENDS Integers, Sequences, FiniteSets, FiniteSetsExt

CONSTANTS
    Deployments,
    Agents,         \* the deployments of type agent
    Engines,        \* processes
    Facts,          \* what may have been witnessed in the period
    ParameterSets,  \* parameter versions that may be created: [from, prices]
    ChangeEvents,   \* changes that may be declared: [id, type, sided, at, deps]
    Licenses,       \* licenses that may be declared: "priced" or "unpriced"
    PeriodStart,    \* the period, in days
    PeriodEnd,
    MaxEdits,       \* bound: changes of the inputs
    MaxRuns,        \* bound: computations and reports started
    MaxCrashes,     \* bound: deaths of processes
    None

Meters == {"tokens_in", "seats_active"}

\* The order of compute_deployment.
Claims == <<"cost", "seats", "time", "containment">>

ASSUME EngineAssumption ==
    /\ IsFiniteSet(Engines)
    /\ Agents \subseteq Deployments
    /\ PeriodStart \in Nat /\ PeriodEnd \in Nat
    /\ MaxEdits \in Nat /\ MaxRuns \in Nat /\ MaxCrashes \in Nat
    /\ Facts \subseteq [meters : SUBSET Meters, effect : {"none", "weak", "thin", "clear"},
                        cases : BOOLEAN, corroborated : BOOLEAN]
    /\ ParameterSets \subseteq [from : Nat, prices : SUBSET (Meters \cup {"labor"})]
    /\ \A c \in ChangeEvents : c.at \in Nat

VARIABLES
    facts,          \* deployment -> what the aggregates and events say
    license,        \* deployment -> the current license
    params,         \* parameter_sets, in the order of their versions
    log,            \* change_log in the order of its ids: [event, by], where by is the
                    \* place of the change that superseded it first, or 0
    figures,        \* the committed rows of figures
    reports,        \* the committed rows of reports with report_figures
    artifacts,      \* report-artifacts: the stored versions -> the figures in the document
    updated,        \* figure.updated notifications: <<deployment, claim>> -> number
    lifted,         \* refusal.lifted notifications
    issued,         \* report.issued notifications: <<deployment, version>>
    pc,             \* where each process is
    task,           \* what each process has read and written
    edits, runs, crashes,
    commits,        \* history: computations committed
    unannounced     \* history: announcements lost with a process

inputs == <<facts, license, params, log, edits>>
outputs == <<figures, reports, artifacts, commits>>
notices == <<updated, lifted, issued, unannounced>>
vars == <<inputs, outputs, notices, pc, task, runs, crashes>>

Kept == Deployments \X {Claims[n] : n \in DOMAIN Claims}

NoFigure == [status |-> "none", grade |-> None, valued |-> FALSE, pv |-> 0, treatment |-> None]
NoTask == [dep |-> None, pos |-> 1, fig |-> NoFigure, version |-> 0, rows |-> <<>>, figs |-> {}]

-------------------------------------------------------------------------------
(* Measuring *)

\* Faulty: the newest version, in force or not.
resolve_newest_version == Len(params)

\* The version in force when the period starts, or 0.
resolve_parameter_version ==
    LET inForce == {v \in DOMAIN params : params[v].from <= PeriodStart} IN
    IF inForce = {} THEN 0
    ELSE CHOOSE v \in inForce : \A u \in inForce : params[u].from <= params[v].from

\* What the version in force has a price for.
Priced == IF resolve_parameter_version = 0 THEN {} ELSE params[resolve_parameter_version].prices

\* The changes within the period that concern the deployment.
InWindow(d) ==
    {log[n].event : n \in {m \in DOMAIN log : /\ log[m].by = 0
                                              /\ log[m].event.at \in PeriodStart..PeriodEnd
                                              /\ d \in log[m].event.deps \/ log[m].event.deps = {}}}

\* How a change is treated.
Treatment(c) ==
    IF c.sided = "symmetric" THEN "symmetric_cancel"
    ELSE IF c.type = "tool_change" THEN "incumbent_tool_change_excluded"
    ELSE "one_sided_adjusted"

\* Faulty: the latest change decides, not the earliest.
change_treatment_latest(d) ==
    IF InWindow(d) = {} THEN None
    ELSE Treatment(CHOOSE x \in InWindow(d) : \A y \in InWindow(d) : x.at >= y.at)

\* _change_treatment: ORDER BY occurred_at LIMIT 1
change_treatment(d) ==
    IF InWindow(d) = {} THEN None
    ELSE Treatment(CHOOSE x \in InWindow(d) : \A y \in InWindow(d) : x.at <= y.at)

Awaiting(pv) == [NoFigure EXCEPT !.status = "awaiting_parameters", !.pv = pv]

Computed(grade, valued, pv, treatment) ==
    [status |-> "computed", grade |-> grade, valued |-> valued, pv |-> pv, treatment |-> treatment]

compute_cost(d) ==
    LET pv == resolve_parameter_version IN
    IF pv = 0 THEN Awaiting(0)
    ELSE IF facts[d].meters # {} /\ facts[d].meters \cap Priced = {} THEN Awaiting(pv)
    ELSE Computed("measured", TRUE, pv, change_treatment(d))

compute_seats(d) ==
    IF license[d] = "none" THEN Awaiting(0)
    ELSE Computed("measured", license[d] = "priced" \/ "seats_active" \in Priced,
                  resolve_parameter_version, None)

\* The effect is none (no items to compare), weak (within the margin), thin
\* (beyond it, on fewer than four items) or clear.
compute_time_savings(d) ==
    LET pv == resolve_parameter_version IN
    CASE facts[d].effect = "none" -> NoFigure
      [] facts[d].effect = "weak" -> [NoFigure EXCEPT !.status = "refused", !.pv = pv]
      [] OTHER -> IF pv = 0 \/ "labor" \notin Priced THEN Awaiting(pv)
                  ELSE Computed(IF facts[d].effect = "thin" THEN "estimate" ELSE "measured",
                                TRUE, pv, change_treatment(d))

compute_containment(d) ==
    IF d \in Agents /\ facts[d].cases
    THEN Computed(IF facts[d].corroborated THEN "verified" ELSE "measured", TRUE, 0, None)
    ELSE NoFigure

Measured(d, claim) ==
    CASE claim = "cost" -> compute_cost(d)
      [] claim = "seats" -> compute_seats(d)
      [] claim = "time" -> compute_time_savings(d)
      [] OTHER -> compute_containment(d)

-------------------------------------------------------------------------------
(* compute_deployment *)

Versions(d, claim) == {f.version : f \in {g \in figures : g.dep = d /\ g.claim = claim}}

Newest(S) == IF S = {} THEN 0 ELSE Max(S)

StatusOf(d, claim, v) ==
    (CHOOSE f \in figures : f.dep = d /\ f.claim = claim /\ f.version = v).fig.status

Goto(i, step) == pc' = [pc EXCEPT ![i] = step]

Leave(i) ==
    /\ Goto(i, "idle")
    /\ task' = [task EXCEPT ![i] = NoTask]

StartCompute(i, d) ==
    /\ pc[i] = "idle"
    /\ runs < MaxRuns
    /\ runs' = runs + 1
    /\ Goto(i, "measure")
    /\ task' = [task EXCEPT ![i] = [NoTask EXCEPT !.dep = d]]
    /\ UNCHANGED <<inputs, outputs, notices, crashes>>

\* On to the next claim, or to the end of the transaction.
NextClaim(i) == IF task[i].pos = Len(Claims) THEN "commit" ELSE "measure"

\* A claim is measured; one that cannot be stated is passed over.  Its SELECTs
\* read different tables, each once, and changes of different tables commute:
\* what they return together is what one state could have returned.
Measure(i) ==
    LET fig == Measured(task[i].dep, Claims[task[i].pos]) IN
    /\ pc[i] = "measure"
    /\ IF fig = NoFigure
       THEN task' = [task EXCEPT ![i].pos = @ + 1] /\ Goto(i, NextClaim(i))
       ELSE task' = [task EXCEPT ![i].fig = fig] /\ Goto(i, "number")
    /\ UNCHANGED <<inputs, outputs, notices, runs, crashes>>

\* _write_figure: SELECT COALESCE(MAX(version), 0) + 1
NumberFigure(i) ==
    /\ pc[i] = "number"
    /\ task' = [task EXCEPT ![i].version = Newest(Versions(task[i].dep, Claims[task[i].pos])) + 1]
    /\ Goto(i, "insert")
    /\ UNCHANGED <<inputs, outputs, notices, runs, crashes>>

\* The row that the process inserts.
Draft(i) ==
    [dep |-> task[i].dep, claim |-> Claims[task[i].pos], version |-> task[i].version,
     fig |-> task[i].fig, by |-> 0]

SameVersion(f, g) == f.dep = g.dep /\ f.claim = g.claim /\ f.version = g.version

\* Another open transaction has inserted the same version.
Waits(i) ==
    \E j \in Engines \ {i} : \E n \in DOMAIN task[j].rows :
        /\ pc[j] \in {"measure", "number", "insert", "commit"}
        /\ SameVersion(task[j].rows[n], Draft(i))

\* The row is written, within the transaction.
Inserted(i) ==
    /\ task' = [task EXCEPT ![i].rows = Append(@, Draft(i)), ![i].pos = @ + 1]
    /\ Goto(i, NextClaim(i))
    /\ UNCHANGED <<inputs, outputs, notices, runs, crashes>>

\* Faulty: no unique constraint on (deployment_id, figure_ref, version).
InsertFigureUnchecked(i) ==
    /\ pc[i] = "insert"
    /\ Inserted(i)

\* Faulty: every insert is committed by itself.
InsertFigureAutocommit(i) ==
    /\ pc[i] = "insert"
    /\ \A f \in figures : ~SameVersion(f, Draft(i))
    /\ figures' = figures \cup {[Draft(i) EXCEPT !.by = commits + 1]}
    /\ task' = [task EXCEPT ![i].rows = Append(@, Draft(i)), ![i].pos = @ + 1]
    /\ Goto(i, NextClaim(i))
    /\ UNCHANGED <<inputs, reports, artifacts, commits, notices, runs, crashes>>

\* Faulty: the process waits for every other open computation of the deployment,
\* and so two that have written something wait for each other.
InsertFigureWaiting(i) ==
    /\ pc[i] = "insert"
    /\ \A j \in Engines \ {i} : pc[j] \notin {"measure", "number", "insert", "commit"}
    /\ Inserted(i)

\* INSERT INTO figures: waits for the same version, then fails on uq_figures if
\* that was committed; fails on ck_figures_computed_shape for a computed figure
\* without a value.  A failure rolls everything back and nothing catches it.
InsertFigure(i) ==
    LET shape == task[i].fig.status = "computed" /\ ~task[i].fig.valued
        taken == \E f \in figures : SameVersion(f, Draft(i)) IN
    /\ pc[i] = "insert"
    /\ \/ /\ shape \/ (~Waits(i) /\ taken)
          /\ Leave(i)
          /\ UNCHANGED <<inputs, outputs, notices, runs, crashes>>
       \/ ~shape /\ ~Waits(i) /\ ~taken /\ Inserted(i)

\* COMMIT: the figures of the computation appear together.
CommitFigures(i) ==
    /\ pc[i] = "commit"
    /\ commits' = commits + 1
    /\ figures' = figures \cup {[task[i].rows[n] EXCEPT !.by = commits + 1] : n \in DOMAIN task[i].rows}
    /\ Goto(i, "announce")
    /\ UNCHANGED <<inputs, reports, artifacts, notices, task, runs, crashes>>

Key(i) == <<task[i].dep, Head(task[i].rows).claim>>

\* _fire_figure_webhooks: emit figure.updated
Announce(i) ==
    /\ pc[i] = "announce"
    /\ updated' = [updated EXCEPT ![Key(i)] = @ + 1]
    /\ Goto(i, "lift")
    /\ UNCHANGED <<inputs, outputs, lifted, issued, unannounced, task, runs, crashes>>

\* Faulty: the loop ends after the first figure whose refusal is not lifted.
CheckLiftedOnce(i) ==
    /\ pc[i] = "lift"
    /\ Leave(i)
    /\ UNCHANGED <<inputs, outputs, notices, runs, crashes>>

\* The last two versions of the figure: refused and then computed is announced
\* with refusal.lifted.
CheckLifted(i) ==
    LET k == Key(i)
        n == Newest(Versions(k[1], k[2])) IN
    /\ pc[i] = "lift"
    /\ lifted' = IF /\ n >= 2
                    /\ StatusOf(k[1], k[2], n) = "computed"
                    /\ StatusOf(k[1], k[2], n - 1) = "refused"
                 THEN [lifted EXCEPT ![k] = @ + 1] ELSE lifted
    /\ IF Len(task[i].rows) > 1
       THEN task' = [task EXCEPT ![i].rows = Tail(@)] /\ Goto(i, "announce")
       ELSE Leave(i)
    /\ UNCHANGED <<inputs, outputs, updated, issued, unannounced, runs, crashes>>

-------------------------------------------------------------------------------
(* issue_report *)

\* The latest of the rows in S, for each claim of the deployment.
Latest(d, S) ==
    {f \in S : f.dep = d /\ \A g \in S : g.dep = d /\ g.claim = f.claim => g.version <= f.version}

StartReport(i, d) ==
    /\ pc[i] = "idle"
    /\ runs < MaxRuns
    /\ runs' = runs + 1
    /\ Goto(i, "select")
    /\ task' = [task EXCEPT ![i] = [NoTask EXCEPT !.dep = d]]
    /\ UNCHANGED <<inputs, outputs, notices, crashes>>

\* SELECT DISTINCT ON (figure_ref) ... ORDER BY figure_ref, version DESC
SelectFigures(i) ==
    /\ pc[i] = "select"
    /\ task' = [task EXCEPT ![i].figs = Latest(task[i].dep, figures)]
    /\ Goto(i, "renumber")
    /\ UNCHANGED <<inputs, outputs, notices, runs, crashes>>

ReportVersions(d) == {r.version : r \in {x \in reports : x.dep = d}}

NumberReport(i) ==
    /\ pc[i] = "renumber"
    /\ task' = [task EXCEPT ![i].version = Newest(ReportVersions(task[i].dep)) + 1]
    /\ Goto(i, "issue")
    /\ UNCHANGED <<inputs, outputs, notices, runs, crashes>>

\* Faulty: report.issued is emitted within the transaction.
IssueReportAnnounced(i) ==
    LET d == task[i].dep
        v == task[i].version IN
    /\ pc[i] = "issue"
    /\ v \notin ReportVersions(d)
    /\ reports' = reports \cup {[dep |-> d, version |-> v, figs |-> task[i].figs]}
    /\ issued' = issued \cup {<<d, v>>}
    /\ Goto(i, "put")
    /\ UNCHANGED <<inputs, figures, artifacts, commits, updated, lifted, unannounced, task, runs, crashes>>

\* INSERT INTO reports and report_figures, and COMMIT; uq_reports fails the run.
IssueReport(i) ==
    LET d == task[i].dep
        v == task[i].version IN
    /\ pc[i] = "issue"
    /\ \/ /\ v \in ReportVersions(d)
          /\ Leave(i)
          /\ UNCHANGED reports
       \/ /\ v \notin ReportVersions(d)
          /\ reports' = reports \cup {[dep |-> d, version |-> v, figs |-> task[i].figs]}
          /\ Goto(i, "put")
          /\ UNCHANGED task
    /\ UNCHANGED <<inputs, figures, artifacts, commits, notices, runs, crashes>>

\* The artifact goes to {workspace}/{report_ref}.v{version}.json.
PutArtifact(i) ==
    /\ pc[i] = "put"
    /\ artifacts' = [v \in DOMAIN artifacts \cup {task[i].version} |->
                        IF v = task[i].version THEN task[i].figs ELSE artifacts[v]]
    /\ Goto(i, "notify")
    /\ UNCHANGED <<inputs, figures, reports, commits, notices, task, runs, crashes>>

\* _issue_report_webhook
NotifyIssued(i) ==
    /\ pc[i] = "notify"
    /\ issued' = issued \cup {<<task[i].dep, task[i].version>>}
    /\ Leave(i)
    /\ UNCHANGED <<inputs, outputs, updated, lifted, unannounced, runs, crashes>>

-------------------------------------------------------------------------------
(* The environment *)

\* The announcements that process i still has to make.
Pending(i) ==
    IF pc[i] = "announce" THEN {task[i].rows[n] : n \in DOMAIN task[i].rows}
    ELSE IF pc[i] = "lift" THEN {task[i].rows[n] : n \in 2..Len(task[i].rows)}
    ELSE {}

Crash(i) ==
    /\ pc[i] # "idle"
    /\ crashes < MaxCrashes
    /\ crashes' = crashes + 1
    /\ unannounced' = [k \in Kept |->
            unannounced[k] + Cardinality({f \in Pending(i) : <<f.dep, f.claim>> = k})]
    /\ Leave(i)
    /\ UNCHANGED <<inputs, outputs, updated, lifted, issued, runs>>

Edit ==
    /\ edits < MaxEdits
    /\ edits' = edits + 1
    /\ UNCHANGED <<outputs, notices, pc, task, runs, crashes>>

\* The pipeline folds events of the period.
Witness(d, f) ==
    /\ f # facts[d]
    /\ facts' = [facts EXCEPT ![d] = f]
    /\ UNCHANGED <<license, params, log>>
    /\ Edit

declare_license(d, l) ==
    /\ l # license[d]
    /\ license' = [license EXCEPT ![d] = l]
    /\ UNCHANGED <<facts, params, log>>
    /\ Edit

\* TF-CFG-001 refuses a second version with the same effective_from.
create_parameter_version(p) ==
    /\ \A v \in DOMAIN params : params[v].from # p.from
    /\ params' = Append(params, p)
    /\ UNCHANGED <<facts, license, log>>
    /\ Edit

\* A change is declared, and may supersede one that was declared before.
declare_change_event(c) ==
    /\ \A n \in DOMAIN log : log[n].event # c
    /\ \E old \in 0..Len(log) :
        log' = Append([n \in DOMAIN log |->
                            IF n = old /\ log[n].by = 0 THEN [log[n] EXCEPT !.by = Len(log) + 1]
                            ELSE log[n]],
                      [event |-> c, by |-> 0])
    /\ UNCHANGED <<facts, license, params>>
    /\ Edit

-------------------------------------------------------------------------------
Init ==
    /\ facts = [d \in Deployments |->
                    [meters |-> {}, effect |-> "none", cases |-> FALSE, corroborated |-> FALSE]]
    /\ license = [d \in Deployments |-> "none"]
    /\ params = <<>>
    /\ log = <<>>
    /\ figures = {}
    /\ reports = {}
    /\ artifacts = <<>>
    /\ updated = [k \in Kept |-> 0]
    /\ lifted = [k \in Kept |-> 0]
    /\ issued = {}
    /\ pc = [i \in Engines |-> "idle"]
    /\ task = [i \in Engines |-> NoTask]
    /\ edits = 0 /\ runs = 0 /\ crashes = 0
    /\ commits = 0
    /\ unannounced = [k \in Kept |-> 0]

Step(i) ==
    \/ Measure(i) \/ NumberFigure(i) \/ InsertFigure(i) \/ CommitFigures(i)
    \/ Announce(i) \/ CheckLifted(i)
    \/ SelectFigures(i) \/ NumberReport(i) \/ IssueReport(i) \/ PutArtifact(i) \/ NotifyIssued(i)

Start(i) == \E d \in Deployments : StartCompute(i, d) \/ StartReport(i, d)

Configure ==
    \/ \E d \in Deployments, f \in Facts : Witness(d, f)
    \/ \E d \in Deployments, l \in Licenses : declare_license(d, l)
    \/ \E p \in ParameterSets : create_parameter_version(p)
    \/ \E c \in ChangeEvents : declare_change_event(c)

Next ==
    \/ \E i \in Engines : Start(i) \/ Step(i) \/ Crash(i)
    \/ Configure

Spec == Init /\ [][Next]_vars

\* A command that is started runs on until it ends.
FairSpec == Spec /\ \A i \in Engines : WF_vars(Step(i))

-------------------------------------------------------------------------------
(* Properties *)

\* The versions of a figure are 1 to n, each written once, although several
\* computations number them at the same time, fail and die: a version names one
\* row forever and the history has no gap.
VersionsContiguous ==
    \A k \in Kept :
        LET rows == {f \in figures : <<f.dep, f.claim>> = k} IN
        /\ Versions(k[1], k[2]) = 1..Newest(Versions(k[1], k[2]))
        /\ Cardinality(rows) = Newest(Versions(k[1], k[2]))

\* A report binds the figures that were the latest ones at one moment: it never
\* shows some figures of a computation together with what it replaced.
ReportsAreSnapshots ==
    \A r \in reports : \E n \in 0..commits :
        r.figs = Latest(r.dep, {f \in figures : f.by <= n})

\* A report that was announced can be read: its row is committed and there is
\* an artifact where the row says.
IssuedIsReadable ==
    \A x \in issued : x[2] \in ReportVersions(x[1]) \cap DOMAIN artifacts

\* Every version of a figure is announced once with figure.updated, is about to
\* be, or its announcement was lost with the process that owed it; and
\* refusal.lifted is said only of a figure that was refused and then computed.
UpdatesAccounted ==
    \A k \in Kept : LET versions == Versions(k[1], k[2]) IN
        /\ Cardinality(versions) = updated[k] + unannounced[k]
              + Cardinality({x \in Engines \X figures :
                    \E f \in Pending(x[1]) : SameVersion(x[2], f) /\ <<f.dep, f.claim>> = k})
        /\ lifted[k] > 0 => \E n \in versions : /\ n + 1 \in versions
                                               /\ StatusOf(k[1], k[2], n) = "refused"
                                               /\ StatusOf(k[1], k[2], n + 1) = "computed"

\* The parameter version stamped on a figure explains its amount, whatever
\* versions are created while it is computed: the version is in force when the
\* period starts and has the rate that hours saved are multiplied with.
PricedFromStamp ==
    \A f \in figures : LET pv == f.fig.pv IN
        /\ pv > 0 => params[pv].from <= PeriodStart
        /\ f.claim = "time" /\ f.fig.status = "computed" => pv > 0 /\ "labor" \in params[pv].prices

\* The changes that concerned the deployment within the period when the first n
\* of the change log were declared.
KnownAt(d, n) ==
    {log[m].event : m \in {k \in 1..n : /\ log[k].by = 0 \/ log[k].by > n
                                        /\ PeriodStart <= log[k].event.at /\ log[k].event.at <= PeriodEnd
                                        /\ log[k].event.deps # {} => d \in log[k].event.deps}}

\* A change treatment stamped on a figure is what the change log once said,
\* although changes are declared and superseded while figures are computed: it is
\* that of the earliest of the changes that the log held then.  A later change of
\* the same period never decides, and neither does one of another deployment.
TreatmentFromLog ==
    \A f \in figures : LET t == f.fig.treatment IN
        t # None => \E n \in DOMAIN log : \E c \in KnownAt(f.dep, n) :
            /\ \A x \in KnownAt(f.dep, n) : c.at <= x.at
            /\ (t = "symmetric_cancel") = (c.sided = "symmetric")
            /\ (t = "incumbent_tool_change_excluded") = (c.sided # "symmetric" /\ c.type = "tool_change")

\* A computation or a report that is started ends: processes that wait for each
\* other's rows are never stuck.
RunsEnd == \A i \in Engines : []<>(pc[i] = "idle")

===============================================================================
