----------------------------- MODULE Engine_proofs ------------------------------
(***************************************************************************)
(* What computations and reports that run at the same time keep true, for  *)
(* any number of processes, deployments, edits, failures and crashes.      *)
(***************************************************************************)
EXTENDS Engine, FiniteSetTheorems, SequenceTheorems, WellFoundedInduction, TLAPS

-------------------------------------------------------------------------------
(* Smallest and largest elements *)

\* A set of naturals that is not empty has a smallest element.
LEMMA Smallest ==
    ASSUME NEW T \in SUBSET Nat, T # {}
    PROVE  \E x \in T : \A y \in T : x <= y
<1>1. PICK x \in T : \A y \in T : ~(<<y, x>> \in OpToRel(<, Nat))
  BY NatLessThanWellFounded, WFMin
<1>2. \A y \in T : ~(y < x)
  BY <1>1 DEF OpToRel
<1> QED
  BY <1>2

\* A bounded set of naturals that is not empty has a largest element.
LEMMA Largest ==
    ASSUME NEW b \in Nat, NEW T \in SUBSET (0..b), T # {}
    PROVE  \E x \in T : \A y \in T : y <= x
<1> DEFINE D == {b - x : x \in T}
<1>1. D \in SUBSET Nat /\ D # {}
  <2>1. \A x \in T : b - x \in Nat
    OBVIOUS
  <2>2. PICK x \in T : TRUE
    OBVIOUS
  <2>3. b - x \in D
    BY <2>2
  <2> QED
    BY <2>1, <2>3
<1>2. PICK m \in D : \A y \in D : m <= y
  <2> HIDE DEF D
  <2> QED
    BY <1>1, Smallest
<1>3. PICK x \in T : m = b - x
  OBVIOUS
<1>4. \A y \in T : b - x <= b - y
  BY <1>2, <1>3
<1> QED
  BY <1>3, <1>4

\* The newest of the versions 1 to n is n.
LEMMA NewestOfInterval ==
    ASSUME NEW n \in Nat
    PROVE  Newest(1..n) = n
<1>1. CASE n = 0
  BY <1>1 DEF Newest
<1>2. CASE n # 0
  <2>1. n \in 1..n /\ \A y \in 1..n : n >= y
    BY <1>2
  <2>2. \A x \in 1..n : (\A y \in 1..n : x >= y) => x = n
    BY <2>1
  <2>3. Max(1..n) = n
    BY <2>1, <2>2 DEF Max
  <2> QED
    BY <1>2, <2>1, <2>3 DEF Newest
<1> QED
  BY <1>1, <1>2

-------------------------------------------------------------------------------
(* The inductive invariant *)

ClaimNames == {Claims[n] : n \in DOMAIN Claims}

Figures ==
    [status : {"none", "awaiting_parameters", "refused", "computed"},
     grade : {None, "measured", "estimate", "verified"}, valued : BOOLEAN, pv : Nat,
     treatment : {None, "symmetric_cancel", "incumbent_tool_change_excluded", "one_sided_adjusted"}]

FigureRows == [dep : Deployments, claim : ClaimNames, version : Nat \ {0}, fig : Figures, by : Nat]

Reports == [dep : Deployments, version : Nat \ {0}, figs : SUBSET FigureRows]

Tasks ==
    [dep : Deployments \cup {None}, pos : 1..5, fig : Figures, version : Nat,
     rows : Seq(FigureRows), figs : SUBSET FigureRows]

OpenSteps == {"measure", "number", "insert", "commit"}

Steps == OpenSteps \cup {"idle", "announce", "lift", "select", "renumber", "issue", "put", "notify"}

\* The rows of the change log.
Changes == [event : ChangeEvents, by : Nat]

\* The tables have their types.
DataOK ==
    /\ params \in Seq(ParameterSets)
    /\ log \in Seq(Changes)
    /\ \A n \in DOMAIN log : log[n].by <= Len(log)
    /\ figures \in SUBSET FigureRows
    /\ IsFiniteSet(figures)
    /\ reports \in SUBSET Reports
    /\ updated \in [Kept -> Nat]
    /\ lifted \in [Kept -> Nat]
    /\ unannounced \in [Kept -> Nat]
    /\ commits \in Nat

\* What a process has at step s, in its task t: a deployment, a claim to measure,
\* and one row for each claim that it has passed and not passed over.
Control(s, t) ==
    /\ s # "idle" => t.dep \in Deployments
    /\ s \in {"measure", "number", "insert"} => t.pos \in 1..4
    /\ s = "commit" => t.pos = 5
    /\ s \in {"insert", "issue", "put", "notify"} => t.version # 0
    /\ s \in {"announce", "lift"} => t.rows # <<>>
    /\ s \in OpenSteps /\ t.pos # 1 => t.rows # <<>>
    /\ \A n \in DOMAIN t.rows : t.rows[n].dep = t.dep
    /\ \A n, m \in DOMAIN t.rows : n # m => t.rows[n].claim # t.rows[m].claim
    /\ s \in OpenSteps =>
            \A n \in DOMAIN t.rows : \E c \in 1..4 : c < t.pos /\ t.rows[n].claim = Claims[c]

ProcessesOK ==
    /\ pc \in [Engines -> Steps]
    /\ task \in [Engines -> Tasks]
    /\ \A i \in Engines : Control(pc[i], task[i])

TypeOK == DataOK /\ ProcessesOK

\* The rows that a process has written and not committed.
OpenRows(i) == IF pc[i] \in OpenSteps THEN {task[i].rows[n] : n \in DOMAIN task[i].rows} ELSE {}

\* A version names one row.
VersionsUnique == \A f, g \in figures : SameVersion(f, g) => f = g

\* The versions of a figure have no gap.
VersionsGapless ==
    \A d \in Deployments, c \in ClaimNames :
        /\ Newest(Versions(d, c)) \in Nat
        /\ Versions(d, c) = 1..Newest(Versions(d, c))

\* An open row has the next version, and no other transaction has a row of that
\* figure open.
OpenIsNext ==
    /\ \A i \in Engines : \A f \in OpenRows(i) : f.version = Newest(Versions(f.dep, f.claim)) + 1
    /\ \A i, j \in Engines : i # j =>
            \A f \in OpenRows(i), g \in OpenRows(j) : ~SameVersion(f, g)

\* The version that a process is about to insert is the next one, or taken.
NumberedNext ==
    \A i \in Engines, d \in Deployments, c \in 1..4 :
        pc[i] = "insert" /\ task[i].dep = d /\ task[i].pos = c =>
            task[i].version <= Newest(Versions(d, Claims[c])) + 1

VersionInv == VersionsUnique /\ VersionsGapless /\ OpenIsNext /\ NumberedNext

\* The same of reports, which are numbered and inserted alike.
ReportsGapless ==
    /\ \A d \in Deployments :
        /\ Newest(ReportVersions(d)) \in Nat
        /\ ReportVersions(d) = 1..Newest(ReportVersions(d))
    /\ \A i \in Engines, d \in Deployments : pc[i] = "issue" /\ task[i].dep = d =>
            task[i].version <= Newest(ReportVersions(d)) + 1

\* A treatment is that of the earliest change known with the first n of the log.
Decided(d, t, n) ==
    \E c \in KnownAt(d, n) :
        /\ \A x \in KnownAt(d, n) : c.at <= x.at
        /\ (t = "symmetric_cancel") = (c.sided = "symmetric")
        /\ (t = "incumbent_tool_change_excluded") = (c.sided # "symmetric" /\ c.type = "tool_change")

\* A figure that is stamped as the parameters and the change log explain.
Explained(d, claim, fig) ==
    /\ fig.pv > 0 => fig.pv \in DOMAIN params /\ params[fig.pv].from <= PeriodStart
    /\ claim = "time" /\ fig.status = "computed" =>
            fig.pv > 0 /\ "labor" \in params[fig.pv].prices
    /\ fig.treatment # None => \E n \in DOMAIN log : Decided(d, fig.treatment, n)

StampInv ==
    /\ \A f \in figures : Explained(f.dep, f.claim, f.fig)
    /\ \A i \in Engines, d \in Deployments, c \in 1..4, fig \in Figures :
        pc[i] \in {"number", "insert"} /\ task[i].dep = d /\ task[i].pos = c /\ task[i].fig = fig =>
            Explained(d, Claims[c], fig)
    /\ \A i \in Engines : \A f \in OpenRows(i) : Explained(f.dep, f.claim, f.fig)

\* What was selected for a report is what was the latest at some moment.
Snapshot(d, figs) == \E n \in 0..commits : figs = Latest(d, {f \in figures : f.by <= n})

SnapshotInv ==
    /\ \A f \in figures : f.by <= commits
    /\ \A r \in reports : Snapshot(r.dep, r.figs)
    /\ \A i \in Engines, d \in Deployments : pc[i] \in {"renumber", "issue"} /\ task[i].dep = d =>
            \E figs \in SUBSET FigureRows : figs = task[i].figs /\ Snapshot(d, figs)

\* A report that is stored has its row, and one that is announced is stored.
ReadableInv ==
    /\ IssuedIsReadable
    /\ \A i \in Engines, d \in Deployments : pc[i] \in {"put", "notify"} /\ task[i].dep = d =>
            task[i].version \in ReportVersions(d)
    /\ \A i \in Engines : pc[i] = "notify" => task[i].version \in DOMAIN artifacts

\* A row that still has to be announced is committed.
PendingInv == \A i \in Engines : \A f \in Pending(i) : \E g \in figures : SameVersion(f, g)

-------------------------------------------------------------------------------
(* What is measured *)

\* The four claims are different, and the first is the cost.
LEMMA ClaimFacts ==
    /\ Len(Claims) = 4 /\ DOMAIN Claims = 1..4
    /\ \A c \in 1..4 : Claims[c] \in ClaimNames
    /\ \A c, d \in 1..4 : c # d => Claims[c] # Claims[d]
    /\ Claims[1] = "cost"
    /\ Kept = Deployments \X ClaimNames
<1>1. Len(Claims) = 4 /\ DOMAIN Claims = 1..4 /\ Claims[1] = "cost"
  BY DEF Claims
<1>2. \A c, d \in 1..4 : c # d => Claims[c] # Claims[d]
  BY DEF Claims
<1>3. \A c \in 1..4 : Claims[c] \in ClaimNames
  BY <1>1 DEF ClaimNames
<1> QED
  BY <1>1, <1>2, <1>3 DEF Kept, ClaimNames

\* The parameter version is 0, or one that is in force when the period starts.
LEMMA InForce ==
    ASSUME params \in Seq(ParameterSets)
    PROVE  \/ resolve_parameter_version = 0
           \/ /\ resolve_parameter_version \in DOMAIN params
              /\ resolve_parameter_version \in Nat \ {0}
              /\ params[resolve_parameter_version].from <= PeriodStart
<1> DEFINE inForce == {v \in DOMAIN params : params[v].from <= PeriodStart}
           froms == {params[v].from : v \in inForce}
<1>1. CASE inForce = {}
  BY <1>1 DEF resolve_parameter_version
<1>2. CASE inForce # {}
  <2>1. \A v \in DOMAIN params : params[v] \in ParameterSets /\ v \in Nat \ {0}
    OBVIOUS
  <2>2. \A v \in DOMAIN params : params[v].from \in Nat
    BY <2>1, EngineAssumption
  <2>3. froms \in SUBSET (0..PeriodStart) /\ PeriodStart \in Nat
    BY <2>2, EngineAssumption
  <2>4. froms # {}
    BY <1>2
  <2>5. PICK m \in froms : \A y \in froms : y <= m
    <3> HIDE DEF froms
    <3> QED
      BY <2>3, <2>4, Largest
  <2>6. \E v \in inForce : \A u \in inForce : params[u].from <= params[v].from
    BY <2>5
  <2>7. resolve_parameter_version = CHOOSE v \in inForce : \A u \in inForce : params[u].from <= params[v].from
    BY <1>2 DEF resolve_parameter_version
  <2>8. resolve_parameter_version \in inForce
    <3> HIDE DEF inForce
    <3> QED
      BY <2>6, <2>7
  <2> QED
    BY <2>1, <2>8
<1> QED
  BY <1>1, <1>2

\* A change treatment is one of those that the schema allows.
LEMMA TreatmentType ==
    ASSUME NEW d
    PROVE  change_treatment(d) \in {None, "symmetric_cancel", "incumbent_tool_change_excluded", "one_sided_adjusted"}
  BY DEF change_treatment, Treatment

\* A measured figure is a figure; the cost is always stated.
LEMMA MeasuredType ==
    ASSUME params \in Seq(ParameterSets), NEW d, NEW claim
    PROVE  Measured(d, claim) \in Figures /\ Measured(d, "cost") # NoFigure
<1>1. resolve_parameter_version \in Nat
  BY InForce
<1>2. change_treatment(d) \in {None, "symmetric_cancel", "incumbent_tool_change_excluded", "one_sided_adjusted"}
  BY TreatmentType
<1>3. NoFigure \in Figures /\ NoFigure.status = "none"
  BY DEF NoFigure, Figures
<1>4. \A pv \in Nat : Awaiting(pv) \in Figures /\ Awaiting(pv).status = "awaiting_parameters"
  BY DEF NoFigure, Figures, Awaiting
<1>5. \A g \in {"measured", "estimate", "verified"}, b \in BOOLEAN, pv \in Nat,
         t \in {None, "symmetric_cancel", "incumbent_tool_change_excluded", "one_sided_adjusted"} :
            Computed(g, b, pv, t) \in Figures /\ Computed(g, b, pv, t).status = "computed"
  BY DEF Figures, Computed
<1>6. compute_cost(d) \in Figures /\ compute_cost(d) # NoFigure
  BY <1>1, <1>2, <1>3, <1>4, <1>5 DEF compute_cost
<1>7. compute_seats(d) \in Figures
  BY <1>1, <1>2, <1>3, <1>4, <1>5 DEF compute_seats
<1>8. compute_time_savings(d) \in Figures
  <2>1. [NoFigure EXCEPT !.status = "refused", !.pv = resolve_parameter_version] \in Figures
    BY <1>1 DEF NoFigure, Figures
  <2> QED
    BY <1>1, <1>2, <1>3, <1>4, <1>5, <2>1 DEF compute_time_savings
<1>9. compute_containment(d) \in Figures
  BY <1>1, <1>2, <1>3, <1>4, <1>5 DEF compute_containment
<1> QED
  BY <1>6, <1>7, <1>8, <1>9 DEF Measured

-------------------------------------------------------------------------------
(* Types and control *)

\* A process goes to step s with task t, and the others stay where they are.
Moves(i, s, t) == pc' = [pc EXCEPT ![i] = s] /\ task' = [task EXCEPT ![i] = t]

\* A move to a step whose needs the new task meets keeps the processes as they should be.
LEMMA MovesOK ==
    ASSUME ProcessesOK, NEW i \in Engines, NEW s \in Steps, NEW t \in Tasks, Control(s, t), Moves(i, s, t)
    PROVE  ProcessesOK'
<1>1. pc' \in [Engines -> Steps] /\ task' \in [Engines -> Tasks]
  BY DEF ProcessesOK, Moves
<1>2. ASSUME NEW j \in Engines
      PROVE  Control(pc'[j], task'[j])
  <2>1. CASE j = i
    <3>1. pc'[j] = s /\ task'[j] = t
      BY <2>1 DEF ProcessesOK, Moves
    <3> QED
      BY <3>1
  <2>2. CASE j # i
    <3>1. pc'[j] = pc[j] /\ task'[j] = task[j]
      BY <2>2 DEF ProcessesOK, Moves
    <3> QED
      BY <3>1 DEF ProcessesOK
  <2> QED
    BY <2>1, <2>2
<1> QED
  BY <1>1, <1>2 DEF ProcessesOK

\* What is known of a process and its task.
LEMMA TaskFacts ==
    ASSUME ProcessesOK, NEW i \in Engines
    PROVE  /\ task[i] \in Tasks /\ pc[i] \in Steps /\ Control(pc[i], task[i])
           /\ task = [task EXCEPT ![i] = task[i]]
  BY DEF ProcessesOK

\* A process that leaves has nothing.
LEMMA LeaveMoves ==
    ASSUME ProcessesOK, NEW i \in Engines, Leave(i)
    PROVE  Moves(i, "idle", NoTask) /\ ProcessesOK'
<1>1. Moves(i, "idle", NoTask)
  BY DEF Leave, Goto, Moves
<1>2. NoTask \in Tasks
  <2>1. NoFigure \in Figures
    BY DEF NoFigure, Figures
  <2> QED
    BY <2>1 DEF NoTask, Tasks
<1>3. Control("idle", NoTask)
  BY DEF Control, NoTask, OpenSteps
<1> QED
  BY <1>1, <1>2, <1>3, MovesOK DEF Steps

\* The task of a process that starts.
LEMMA StartTask ==
    ASSUME NEW d
    PROVE  [NoTask EXCEPT !.dep = d]
             = [dep |-> d, pos |-> 1, fig |-> NoFigure, version |-> 0, rows |-> <<>>, figs |-> {}]
<1>1. PICK r, g : r = <<>> /\ g = {}
  OBVIOUS
<1>2. NoTask = [dep |-> None, pos |-> 1, fig |-> NoFigure, version |-> 0, rows |-> r, figs |-> g]
  BY <1>1 DEF NoTask
<1>3. [NoTask EXCEPT !.dep = d] = [dep |-> d, pos |-> 1, fig |-> NoFigure, version |-> 0, rows |-> r, figs |-> g]
  BY <1>2
<1> QED
  BY <1>1, <1>3

\* A process that starts has a deployment, and nothing else.
LEMMA StartMoves ==
    ASSUME ProcessesOK, NEW i \in Engines, NEW d \in Deployments, StartCompute(i, d) \/ StartReport(i, d)
    PROVE  /\ \E s \in {"measure", "select"} : Moves(i, s, [NoTask EXCEPT !.dep = d])
           /\ ProcessesOK' /\ pc[i] = "idle"
           /\ UNCHANGED <<inputs, outputs, notices>>
<1> DEFINE t == [NoTask EXCEPT !.dep = d]
<1>1. t = [dep |-> d, pos |-> 1, fig |-> NoFigure, version |-> 0, rows |-> <<>>, figs |-> {}]
  BY StartTask
<1>2. t \in Tasks
  <2>1. NoFigure \in Figures
    BY DEF NoFigure, Figures
  <2> HIDE DEF t
  <2> QED
    BY <1>1, <2>1 DEF Tasks
<1>3. \A s \in {"measure", "select"} : Control(s, t)
  <2>1. t.dep = d /\ t.pos = 1 /\ DOMAIN t.rows = {}
    BY <1>1
  <2> HIDE DEF t
  <2> QED
    BY <2>1 DEF Control, OpenSteps
<1>4. PICK s \in {"measure", "select"} : Moves(i, s, t)
  BY DEF StartCompute, StartReport, Goto, Moves
<1>5. s \in Steps
  BY DEF Steps, OpenSteps
<1>6. ProcessesOK'
  <2> HIDE DEF t
  <2> QED
    BY <1>2, <1>3, <1>4, <1>5, MovesOK
<1> QED
  BY <1>4, <1>6 DEF StartCompute, StartReport

\* A claim is passed over, or measured.
LEMMA MeasureMoves ==
    ASSUME DataOK, ProcessesOK, NEW i \in Engines, Measure(i)
    PROVE  /\ pc[i] = "measure"
           /\ \/ Moves(i, NextClaim(i), [task[i] EXCEPT !.pos = task[i].pos + 1])
              \/ Moves(i, "number", [task[i] EXCEPT !.fig = Measured(task[i].dep, Claims[task[i].pos])])
           /\ ProcessesOK'
           /\ UNCHANGED <<inputs, outputs, notices>>
<1>t. task[i] \in Tasks /\ Control(pc[i], task[i])
  BY TaskFacts
<1> DEFINE fig == Measured(task[i].dep, Claims[task[i].pos])
<1>1. pc[i] = "measure" /\ task[i].pos \in 1..4 /\ task[i].dep \in Deployments
  BY <1>t DEF Measure, Control
<1>2. fig \in Figures /\ (Claims[task[i].pos] = "cost" => fig # NoFigure)
  BY MeasuredType DEF DataOK
<1>3. CASE fig = NoFigure
  <2> DEFINE t == [task[i] EXCEPT !.pos = task[i].pos + 1]
  <2>1. Moves(i, NextClaim(i), t)
    BY <1>3 DEF Measure, Moves, Goto
  <2>2. task[i].pos # 1
    BY <1>2, <1>3, ClaimFacts
  <2>3. /\ t \in Tasks /\ t.dep = task[i].dep /\ t.rows = task[i].rows /\ t.pos = task[i].pos + 1
    BY <1>t, <1>1 DEF Tasks
  <2>4. NextClaim(i) \in {"measure", "commit"} /\ (NextClaim(i) = "measure" => t.pos \in 1..4) /\ (NextClaim(i) = "commit" => t.pos = 5)
    BY <1>1, <2>3, ClaimFacts DEF NextClaim
  <2> HIDE DEF t
  <2>5. Control(NextClaim(i), t)
    BY <1>t, <1>1, <2>2, <2>3, <2>4 DEF Control, OpenSteps
  <2>6. NextClaim(i) \in Steps
    BY <2>4 DEF Steps, OpenSteps
  <2>7. ProcessesOK'
    BY <2>1, <2>3, <2>5, <2>6, MovesOK
  <2> QED
    BY <1>1, <2>1, <2>7 DEF Measure, t
<1>4. CASE fig # NoFigure
  <2> DEFINE t == [task[i] EXCEPT !.fig = fig]
  <2>1. Moves(i, "number", t)
    BY <1>4 DEF Measure, Moves, Goto
  <2>2. t \in Tasks /\ t.dep = task[i].dep /\ t.rows = task[i].rows /\ t.pos = task[i].pos
    <3> HIDE DEF fig
    <3> QED
      BY <1>t, <1>2 DEF Tasks
  <2> HIDE DEF t
  <2>3. Control("number", t)
    BY <1>t, <1>1, <2>2 DEF Control, OpenSteps
  <2>4. ProcessesOK'
    BY <2>1, <2>2, <2>3, MovesOK DEF Steps, OpenSteps
  <2> QED
    BY <1>1, <2>1, <2>4 DEF Measure, t
<1> QED
  BY <1>3, <1>4

\* A figure is numbered with the next version.
LEMMA NumberMoves ==
    ASSUME ProcessesOK, VersionsGapless, NEW i \in Engines, NumberFigure(i)
    PROVE  /\ pc[i] = "number"
           /\ Newest(Versions(task[i].dep, Claims[task[i].pos])) \in Nat
           /\ Moves(i, "insert", [task[i] EXCEPT !.version = Newest(Versions(task[i].dep, Claims[task[i].pos])) + 1])
           /\ ProcessesOK'
           /\ UNCHANGED <<inputs, outputs, notices>>
<1>t. task[i] \in Tasks /\ Control(pc[i], task[i])
  BY TaskFacts
<1> DEFINE v == Newest(Versions(task[i].dep, Claims[task[i].pos])) + 1
           t == [task[i] EXCEPT !.version = v]
<1>1. pc[i] = "number" /\ task[i].pos \in 1..4 /\ task[i].dep \in Deployments
  BY <1>t DEF NumberFigure, Control
<1>2. Newest(Versions(task[i].dep, Claims[task[i].pos])) \in Nat
  BY <1>1, ClaimFacts DEF VersionsGapless
<1>3. v \in Nat \ {0}
  BY <1>2
<1>4. Moves(i, "insert", t)
  BY DEF NumberFigure, Moves, Goto
<1> HIDE DEF v
<1>5. /\ t \in Tasks /\ t.dep = task[i].dep /\ t.rows = task[i].rows /\ t.pos = task[i].pos
      /\ t.version = v
  BY <1>t, <1>3 DEF Tasks
<1> HIDE DEF t
<1>6. Control("insert", t)
  BY <1>t, <1>1, <1>3, <1>5 DEF Control, OpenSteps
<1>7. ProcessesOK'
  BY <1>4, <1>5, <1>6, MovesOK DEF Steps, OpenSteps
<1> QED
  BY <1>1, <1>2, <1>4, <1>7 DEF NumberFigure, t, v

\* The row that a process inserts is a row of a claim that it has not inserted.
LEMMA DraftFacts ==
    ASSUME ProcessesOK, NEW i \in Engines, pc[i] = "insert"
    PROVE  /\ Draft(i) \in FigureRows
           /\ Draft(i).dep = task[i].dep /\ Draft(i).claim = Claims[task[i].pos]
           /\ Draft(i).version = task[i].version /\ Draft(i).fig = task[i].fig
           /\ task[i].pos \in 1..4 /\ task[i].dep \in Deployments
           /\ \A n \in DOMAIN task[i].rows : task[i].rows[n].claim # Claims[task[i].pos]
<1>t. task[i] \in Tasks /\ Control(pc[i], task[i])
  BY TaskFacts
<1>1. task[i].pos \in 1..4 /\ task[i].dep \in Deployments /\ task[i].version \in Nat \ {0}
  BY <1>t DEF Control, Tasks
<1>2. Draft(i) \in FigureRows
  BY <1>t, <1>1, ClaimFacts DEF Draft, FigureRows, Tasks
<1>3. \A n \in DOMAIN task[i].rows : task[i].rows[n].claim # Claims[task[i].pos]
  <2> SUFFICES ASSUME NEW n \in DOMAIN task[i].rows
               PROVE  task[i].rows[n].claim # Claims[task[i].pos]
    OBVIOUS
  <2>1. PICK c \in 1..4 : c < task[i].pos /\ task[i].rows[n].claim = Claims[c]
    BY <1>t DEF Control, OpenSteps
  <2> QED
    BY <1>1, <2>1, ClaimFacts
<1> QED
  BY <1>1, <1>2, <1>3 DEF Draft

\* One more row.
LEMMA AppendFacts ==
    ASSUME NEW S, NEW s \in Seq(S), NEW x \in S
    PROVE  /\ Append(s, x) \in Seq(S) /\ Append(s, x) # <<>>
           /\ DOMAIN Append(s, x) = DOMAIN s \cup {Len(s) + 1}
           /\ Append(s, x)[Len(s) + 1] = x /\ Len(s) + 1 \notin DOMAIN s
           /\ \A n \in DOMAIN s : Append(s, x)[n] = s[n]
  OBVIOUS

\* A row is written at the next version that nobody has, or the run fails.
LEMMA InsertMoves ==
    ASSUME ProcessesOK, NEW i \in Engines, InsertFigure(i)
    PROVE  /\ pc[i] = "insert"
           /\ \/ Leave(i)
              \/ /\ ~Waits(i) /\ \A f \in figures : ~SameVersion(f, Draft(i))
                 /\ Moves(i, NextClaim(i), [task[i] EXCEPT !.rows = Append(task[i].rows, Draft(i)),
                                                           !.pos = task[i].pos + 1])
           /\ ProcessesOK'
           /\ UNCHANGED <<inputs, outputs, notices>>
<1>t. task[i] \in Tasks /\ Control(pc[i], task[i])
  BY TaskFacts
<1>1. pc[i] = "insert" /\ UNCHANGED <<inputs, outputs, notices>>
  BY DEF InsertFigure, Inserted
<1>2. CASE Leave(i)
  BY <1>1, <1>2, LeaveMoves
<1>3. CASE ~Waits(i) /\ (\A f \in figures : ~SameVersion(f, Draft(i))) /\ Inserted(i)
  <2> DEFINE r == Append(task[i].rows, Draft(i))
             t == [task[i] EXCEPT !.rows = r, !.pos = task[i].pos + 1]
  <2>1. Moves(i, NextClaim(i), t)
    BY <1>3 DEF Inserted, Moves, Goto
  <2>2. /\ task[i].pos \in 1..4 /\ task[i].dep \in Deployments
        /\ Draft(i) \in FigureRows /\ Draft(i).dep = task[i].dep /\ Draft(i).claim = Claims[task[i].pos]
        /\ \A n \in DOMAIN task[i].rows : task[i].rows[n].claim # Claims[task[i].pos]
    BY <1>1, DraftFacts
  <2>3. task[i].rows \in Seq(FigureRows)
    BY <1>t DEF Tasks
  <2>4. /\ r \in Seq(FigureRows) /\ r # <<>>
        /\ DOMAIN r = DOMAIN task[i].rows \cup {Len(task[i].rows) + 1}
        /\ r[Len(task[i].rows) + 1] = Draft(i) /\ Len(task[i].rows) + 1 \notin DOMAIN task[i].rows
        /\ \A n \in DOMAIN task[i].rows : r[n] = task[i].rows[n]
    BY <2>2, <2>3, AppendFacts
  <2> HIDE DEF r
  <2>5. t \in Tasks /\ t.dep = task[i].dep /\ t.rows = r /\ t.pos = task[i].pos + 1
    <3>1. task[i].pos + 1 \in 1..5
      BY <2>2
    <3>2. r \in Seq(FigureRows) /\ task[i] \in Tasks
      BY <1>t, <2>4
    <3> QED
      BY <3>1, <3>2 DEF Tasks
  <2>6. NextClaim(i) \in {"measure", "commit"} /\ (NextClaim(i) = "measure" => t.pos \in 1..4) /\ (NextClaim(i) = "commit" => t.pos = 5)
    BY <2>2, <2>5, ClaimFacts DEF NextClaim
  <2> HIDE DEF t
  <2>7. \A n \in DOMAIN r : r[n].dep = t.dep
    BY <1>t, <2>2, <2>4, <2>5 DEF Control
  <2>8. \A n, m \in DOMAIN r : n # m => r[n].claim # r[m].claim
    BY <1>t, <2>2, <2>4 DEF Control
  <2>9. \A n \in DOMAIN r : \E c \in 1..4 : c < t.pos /\ r[n].claim = Claims[c]
    <3>1. \A n \in DOMAIN task[i].rows : \E c \in 1..4 : c < task[i].pos /\ task[i].rows[n].claim = Claims[c]
      BY <1>t, <1>1 DEF Control, OpenSteps
    <3> QED
      BY <3>1, <2>2, <2>4, <2>5
  <2>10. Control(NextClaim(i), t)
    BY <2>2, <2>4, <2>5, <2>6, <2>7, <2>8, <2>9 DEF Control, OpenSteps
  <2>11. NextClaim(i) \in Steps
    BY <2>6 DEF Steps, OpenSteps
  <2>12. ProcessesOK'
    BY <2>1, <2>5, <2>10, <2>11, MovesOK
  <2> QED
    BY <1>1, <1>3, <2>1, <2>12 DEF t, r
<1> QED
  BY <1>2, <1>3 DEF InsertFigure

\* A commit keeps the rows, which are announced next.
LEMMA CommitMoves ==
    ASSUME ProcessesOK, NEW i \in Engines, CommitFigures(i)
    PROVE  /\ pc[i] = "commit" /\ Moves(i, "announce", task[i]) /\ ProcessesOK'
           /\ UNCHANGED <<inputs, reports, artifacts, notices>>
<1>t. task[i] \in Tasks /\ Control(pc[i], task[i]) /\ task = [task EXCEPT ![i] = task[i]]
  BY TaskFacts
<1>1. pc[i] = "commit" /\ Moves(i, "announce", task[i])
  BY <1>t DEF CommitFigures, Moves, Goto
<1>2. Control("announce", task[i])
  BY <1>t, <1>1 DEF Control, OpenSteps
<1>3. ProcessesOK'
  BY <1>t, <1>1, <1>2, MovesOK DEF Steps
<1> QED
  BY <1>1, <1>3 DEF CommitFigures

\* An announcement keeps the rows, until the check that follows it.
LEMMA AnnounceMoves ==
    ASSUME ProcessesOK, NEW i \in Engines, Announce(i)
    PROVE  /\ pc[i] = "announce" /\ Moves(i, "lift", task[i]) /\ ProcessesOK'
           /\ Key(i) \in Kept
           /\ UNCHANGED <<inputs, outputs, lifted, issued, unannounced>>
<1>t. task[i] \in Tasks /\ Control(pc[i], task[i]) /\ task = [task EXCEPT ![i] = task[i]]
  BY TaskFacts
<1>1. pc[i] = "announce" /\ Moves(i, "lift", task[i])
  BY <1>t DEF Announce, Moves, Goto
<1>2. Control("lift", task[i])
  BY <1>t, <1>1 DEF Control, OpenSteps
<1>3. ProcessesOK'
  BY <1>t, <1>1, <1>2, MovesOK DEF Steps
<1>4. Key(i) \in Kept
  <2>1. task[i].rows \in Seq(FigureRows) /\ task[i].rows # <<>> /\ task[i].dep \in Deployments
    BY <1>t, <1>1 DEF Control, Tasks
  <2>2. Head(task[i].rows) \in FigureRows
    BY <2>1
  <2> QED
    BY <2>1, <2>2, ClaimFacts DEF Key, FigureRows
<1> QED
  BY <1>1, <1>3, <1>4 DEF Announce

\* All rows but the first.
LEMMA TailFacts ==
    ASSUME NEW S, NEW s \in Seq(S), Len(s) > 1
    PROVE  /\ Tail(s) \in Seq(S) /\ Tail(s) # <<>>
           /\ \A n \in DOMAIN Tail(s) : n + 1 \in DOMAIN s /\ Tail(s)[n] = s[n + 1]
<1>1. s # <<>>
  BY EmptySeq
<1>2. /\ Tail(s) \in Seq(S) /\ Len(Tail(s)) = Len(s) - 1
      /\ \A n \in 1..Len(Tail(s)) : Tail(s)[n] = s[n + 1]
  BY <1>1, HeadTailProperties
<1>3. Tail(s) # <<>>
  <2>1. PICK r \in Seq(S) : r = Tail(s) /\ Len(r) = Len(s) - 1
    BY <1>2
  <2>2. r # <<>>
    <3>1. Len(r) \in Nat \ {0} /\ Len(<<>>) = 0
      BY <2>1, EmptySeq
    <3> QED
      BY <3>1
  <2> QED
    BY <2>1, <2>2
<1>4. DOMAIN Tail(s) = 1..(Len(s) - 1) /\ DOMAIN s = 1..Len(s)
  BY <1>2
<1> QED
  BY <1>2, <1>3, <1>4

\* A check leaves the other rows to announce, or the process ends.
LEMMA LiftMoves ==
    ASSUME ProcessesOK, NEW i \in Engines, CheckLifted(i)
    PROVE  /\ pc[i] = "lift"
           /\ \/ Len(task[i].rows) <= 1 /\ Leave(i)
              \/ /\ Len(task[i].rows) > 1
                 /\ Moves(i, "announce", [task[i] EXCEPT !.rows = Tail(task[i].rows)])
           /\ ProcessesOK'
           /\ Key(i) \in Kept
           /\ UNCHANGED <<inputs, outputs, updated, issued, unannounced>>
<1>t. task[i] \in Tasks /\ Control(pc[i], task[i])
  BY TaskFacts
<1>1. pc[i] = "lift" /\ UNCHANGED <<inputs, outputs, updated, issued, unannounced>>
  BY DEF CheckLifted
<1>2. task[i].rows \in Seq(FigureRows) /\ task[i].rows # <<>> /\ task[i].dep \in Deployments
  BY <1>t, <1>1 DEF Control, Tasks
<1>3. Key(i) \in Kept
  <2>1. Head(task[i].rows) \in FigureRows
    BY <1>2
  <2> QED
    BY <1>2, <2>1, ClaimFacts DEF Key, FigureRows
<1>4. CASE Len(task[i].rows) > 1
  <2> DEFINE r == Tail(task[i].rows)
             t == [task[i] EXCEPT !.rows = r]
  <2>1. Moves(i, "announce", t)
    BY <1>4 DEF CheckLifted, Moves, Goto
  <2>2. /\ r \in Seq(FigureRows) /\ r # <<>>
        /\ \A n \in DOMAIN r : n + 1 \in DOMAIN task[i].rows /\ r[n] = task[i].rows[n + 1]
    BY <1>2, <1>4, TailFacts
  <2> HIDE DEF r
  <2>3. t \in Tasks /\ t.dep = task[i].dep /\ t.rows = r /\ t.pos = task[i].pos
    BY <1>t, <2>2 DEF Tasks
  <2> HIDE DEF t
  <2>4. \A n, m \in DOMAIN r : n # m => r[n].claim # r[m].claim
    <3>1. \A n, m \in DOMAIN r : n # m => n + 1 # m + 1
      BY <2>2
    <3> QED
      BY <1>t, <2>2, <3>1 DEF Control
  <2>5. Control("announce", t)
    BY <1>t, <1>1, <1>2, <2>2, <2>3, <2>4 DEF Control, OpenSteps
  <2>6. ProcessesOK'
    BY <2>1, <2>3, <2>5, MovesOK DEF Steps
  <2> QED
    BY <1>1, <1>3, <1>4, <2>1, <2>6 DEF t, r
<1>5. CASE ~(Len(task[i].rows) > 1)
  <2>1. Leave(i) /\ Len(task[i].rows) <= 1
    BY <1>2, <1>5 DEF CheckLifted
  <2> QED
    BY <1>1, <1>3, <2>1, LeaveMoves
<1> QED
  BY <1>4, <1>5

\* A report takes what is the latest now.
LEMMA SelectMoves ==
    ASSUME DataOK, ProcessesOK, NEW i \in Engines, SelectFigures(i)
    PROVE  /\ pc[i] = "select" /\ task[i].dep \in Deployments
           /\ Moves(i, "renumber", [task[i] EXCEPT !.figs = Latest(task[i].dep, figures)])
           /\ ProcessesOK'
           /\ UNCHANGED <<inputs, outputs, notices>>
<1>t. task[i] \in Tasks /\ Control(pc[i], task[i])
  BY TaskFacts
<1> DEFINE g == Latest(task[i].dep, figures)
           t == [task[i] EXCEPT !.figs = g]
<1>1. pc[i] = "select" /\ task[i].dep \in Deployments
  BY <1>t DEF SelectFigures, Control
<1>2. g \in SUBSET FigureRows
  BY DEF Latest, DataOK
<1>3. Moves(i, "renumber", t)
  BY DEF SelectFigures, Moves, Goto
<1> HIDE DEF g
<1>4. t \in Tasks /\ t.dep = task[i].dep /\ t.rows = task[i].rows
  BY <1>t, <1>2 DEF Tasks
<1> HIDE DEF t
<1>5. Control("renumber", t)
  BY <1>t, <1>1, <1>4 DEF Control, OpenSteps
<1>6. ProcessesOK'
  BY <1>3, <1>4, <1>5, MovesOK DEF Steps
<1> QED
  BY <1>1, <1>3, <1>6 DEF SelectFigures, t, g

\* A report is numbered with the next version.
LEMMA RenumberMoves ==
    ASSUME ProcessesOK, ReportsGapless, NEW i \in Engines, NumberReport(i)
    PROVE  /\ pc[i] = "renumber" /\ task[i].dep \in Deployments
           /\ Newest(ReportVersions(task[i].dep)) \in Nat
           /\ Moves(i, "issue", [task[i] EXCEPT !.version = Newest(ReportVersions(task[i].dep)) + 1])
           /\ ProcessesOK'
           /\ UNCHANGED <<inputs, outputs, notices>>
<1>t. task[i] \in Tasks /\ Control(pc[i], task[i])
  BY TaskFacts
<1> DEFINE v == Newest(ReportVersions(task[i].dep)) + 1
           t == [task[i] EXCEPT !.version = v]
<1>1. pc[i] = "renumber" /\ task[i].dep \in Deployments
  BY <1>t DEF NumberReport, Control
<1>2. Newest(ReportVersions(task[i].dep)) \in Nat
  BY <1>1 DEF ReportsGapless
<1>3. v \in Nat \ {0}
  BY <1>2
<1>4. Moves(i, "issue", t)
  BY DEF NumberReport, Moves, Goto
<1> HIDE DEF v
<1>5. t \in Tasks /\ t.dep = task[i].dep /\ t.rows = task[i].rows /\ t.version = v
  BY <1>t, <1>3 DEF Tasks
<1> HIDE DEF t
<1>6. Control("issue", t)
  BY <1>t, <1>1, <1>3, <1>5 DEF Control, OpenSteps
<1>7. ProcessesOK'
  BY <1>4, <1>5, <1>6, MovesOK DEF Steps
<1> QED
  BY <1>1, <1>2, <1>4, <1>7 DEF NumberReport, t, v

\* The row of the report that a process inserts.
NewReport(i) == [dep |-> task[i].dep, version |-> task[i].version, figs |-> task[i].figs]

\* A report is inserted at a version that nobody has, or the run fails.
LEMMA IssueMoves ==
    ASSUME ProcessesOK, NEW i \in Engines, IssueReport(i)
    PROVE  /\ pc[i] = "issue" /\ task[i].dep \in Deployments /\ NewReport(i) \in Reports
           /\ \/ Leave(i) /\ reports' = reports
              \/ /\ task[i].version \notin ReportVersions(task[i].dep)
                 /\ reports' = reports \cup {NewReport(i)}
                 /\ Moves(i, "put", task[i])
           /\ ProcessesOK'
           /\ UNCHANGED <<inputs, figures, artifacts, commits, notices>>
<1>t. task[i] \in Tasks /\ Control(pc[i], task[i]) /\ task = [task EXCEPT ![i] = task[i]]
  BY TaskFacts
<1>1. /\ pc[i] = "issue" /\ task[i].dep \in Deployments /\ NewReport(i) \in Reports
      /\ UNCHANGED <<inputs, figures, artifacts, commits, notices>>
  BY <1>t DEF IssueReport, Control, NewReport, Reports, Tasks
<1>2. CASE Leave(i) /\ UNCHANGED reports
  BY <1>1, <1>2, LeaveMoves
<1>3. CASE /\ task[i].version \notin ReportVersions(task[i].dep)
           /\ reports' = reports \cup {NewReport(i)}
           /\ Goto(i, "put")
           /\ UNCHANGED task
  <2>1. Moves(i, "put", task[i])
    BY <1>t, <1>3 DEF Moves, Goto
  <2>2. Control("put", task[i])
    BY <1>t, <1>1 DEF Control, OpenSteps
  <2>3. ProcessesOK'
    BY <1>t, <2>1, <2>2, MovesOK DEF Steps
  <2> QED
    BY <1>1, <1>3, <2>1, <2>3
<1> QED
  BY <1>2, <1>3 DEF IssueReport, NewReport

\* The artifact of a version is stored.
LEMMA PutMoves ==
    ASSUME ProcessesOK, NEW i \in Engines, PutArtifact(i)
    PROVE  /\ pc[i] = "put" /\ Moves(i, "notify", task[i]) /\ ProcessesOK'
           /\ DOMAIN artifacts' = DOMAIN artifacts \cup {task[i].version}
           /\ UNCHANGED <<inputs, figures, reports, commits, notices>>
<1>t. task[i] \in Tasks /\ Control(pc[i], task[i]) /\ task = [task EXCEPT ![i] = task[i]]
  BY TaskFacts
<1>1. pc[i] = "put" /\ Moves(i, "notify", task[i])
  BY <1>t DEF PutArtifact, Moves, Goto
<1>2. Control("notify", task[i])
  BY <1>t, <1>1 DEF Control, OpenSteps
<1>3. ProcessesOK'
  BY <1>t, <1>1, <1>2, MovesOK DEF Steps
<1> QED
  BY <1>1, <1>3 DEF PutArtifact

\* What a move changes of the processes and of their open rows.
LEMMA MovedRows ==
    ASSUME ProcessesOK, NEW i \in Engines, NEW s, NEW t, Moves(i, s, t)
    PROVE  /\ pc'[i] = s /\ task'[i] = t
           /\ \A j \in Engines \ {i} : pc'[j] = pc[j] /\ task'[j] = task[j]
           /\ OpenRows(i)' = IF s \in OpenSteps THEN {t.rows[n] : n \in DOMAIN t.rows} ELSE {}
           /\ \A j \in Engines \ {i} : OpenRows(j)' = OpenRows(j)
<1>1. /\ pc'[i] = s /\ task'[i] = t
      /\ \A j \in Engines \ {i} : pc'[j] = pc[j] /\ task'[j] = task[j]
  BY DEF ProcessesOK, Moves
<1> QED
  BY <1>1 DEF OpenRows

\* The rows that a computation commits.
Committed(i) == {[task[i].rows[n] EXCEPT !.by = commits + 1] : n \in DOMAIN task[i].rows}

\* They are the open rows, stamped with the commit: one of each claim.
LEMMA CommittedFacts ==
    ASSUME TypeOK, NEW i \in Engines, pc[i] = "commit"
    PROVE  /\ Committed(i) \in SUBSET FigureRows /\ IsFiniteSet(Committed(i))
           /\ \A g \in Committed(i) : /\ g.dep = task[i].dep /\ g.by = commits + 1
                                      /\ \E r \in OpenRows(i) : SameVersion(g, r) /\ g.fig = r.fig
           /\ \A r \in OpenRows(i) : \E g \in Committed(i) : SameVersion(g, r) /\ g.fig = r.fig
           /\ \A g, h \in Committed(i) : g.claim = h.claim => g = h
           /\ OpenRows(i) = {task[i].rows[n] : n \in DOMAIN task[i].rows}
<1> DEFINE R == task[i].rows
           N(n) == [R[n] EXCEPT !.by = commits + 1]
<1>t. task[i] \in Tasks /\ Control(pc[i], task[i]) /\ commits \in Nat
  BY TaskFacts DEF TypeOK, DataOK
<1>1. R \in Seq(FigureRows) /\ DOMAIN R = 1..Len(R) /\ Len(R) \in Nat
  BY <1>t DEF Tasks
<1>2. ASSUME NEW n \in DOMAIN R
      PROVE  /\ R[n] \in FigureRows /\ N(n) \in FigureRows /\ SameVersion(N(n), R[n])
             /\ N(n).fig = R[n].fig /\ N(n).by = commits + 1
             /\ N(n).dep = R[n].dep /\ N(n).claim = R[n].claim /\ R[n].dep = task[i].dep
  <2>1. R[n] \in FigureRows /\ commits + 1 \in Nat
    BY <1>t, <1>1
  <2>2. R[n].dep = task[i].dep
    BY <1>t DEF Control
  <2> QED
    BY <2>1, <2>2 DEF FigureRows, SameVersion
<1>3. Committed(i) = {N(n) : n \in DOMAIN R}
  BY DEF Committed
<1>4. OpenRows(i) = {R[n] : n \in DOMAIN R}
  BY DEF OpenRows, OpenSteps
<1>5. \A n, m \in DOMAIN R : n # m => R[n].claim # R[m].claim
  BY <1>t DEF Control
<1> HIDE DEF N, R
<1>6. IsFiniteSet(Committed(i))
  <2> DEFINE F == [n \in DOMAIN R |-> N(n)]
  <2>1. F \in Surjection(DOMAIN R, Committed(i))
    BY <1>3 DEF Surjection
  <2>2. IsFiniteSet(DOMAIN R)
    BY <1>1, FS_Interval
  <2> HIDE DEF F
  <2> QED
    BY <2>1, <2>2, FS_Surjection
<1>7. \A g \in Committed(i) : /\ g.dep = task[i].dep /\ g.by = commits + 1
                              /\ \E r \in OpenRows(i) : SameVersion(g, r) /\ g.fig = r.fig
  BY <1>2, <1>3, <1>4
<1>8. \A r \in OpenRows(i) : \E g \in Committed(i) : SameVersion(g, r) /\ g.fig = r.fig
  BY <1>2, <1>3, <1>4
<1>9. \A g, h \in Committed(i) : g.claim = h.claim => g = h
  BY <1>2, <1>3, <1>5
<1>10. Committed(i) \in SUBSET FigureRows
  BY <1>2, <1>3
<1> QED
  BY <1>4, <1>6, <1>7, <1>8, <1>9, <1>10 DEF R

-------------------------------------------------------------------------------
(* The tables keep their types *)

\* A commit adds finitely many rows.
LEMMA CommitData ==
    ASSUME TypeOK, NEW i \in Engines, CommitFigures(i)
    PROVE  DataOK'
<1>1. pc[i] = "commit" /\ UNCHANGED <<inputs, reports, artifacts, notices>>
  BY CommitMoves DEF TypeOK
<1>2. figures' = figures \cup Committed(i) /\ commits' = commits + 1
  BY DEF CommitFigures, Committed
<1>3. Committed(i) \in SUBSET FigureRows /\ IsFiniteSet(Committed(i))
  BY <1>1, CommittedFacts
<1>4. figures \in SUBSET FigureRows /\ IsFiniteSet(figures) /\ commits \in Nat
  BY DEF TypeOK, DataOK
<1>5. IsFiniteSet(figures') /\ figures' \in SUBSET FigureRows
  BY <1>2, <1>3, <1>4, FS_Union
<1>6. commits' \in Nat
  BY <1>2, <1>4
<1> QED
  BY <1>1, <1>5, <1>6 DEF TypeOK, DataOK, inputs, notices

\* What a crash loses is counted.
LEMMA CrashData ==
    ASSUME TypeOK, NEW i \in Engines, Crash(i)
    PROVE  DataOK'
<1>1. IsFiniteSet(Pending(i))
  <2> DEFINE R == task[i].rows
  <2>1. DOMAIN R = 1..Len(R) /\ Len(R) \in Nat
    BY TaskFacts DEF TypeOK, Tasks
  <2>2. PICK D \in SUBSET (1..Len(R)) : Pending(i) = {R[n] : n \in D}
    <3>1. CASE pc[i] = "announce"
      BY <2>1, <3>1 DEF Pending
    <3>2. CASE pc[i] = "lift"
      <4>1. 2..Len(R) \in SUBSET (1..Len(R))
        BY <2>1
      <4> QED
        BY <3>2, <4>1 DEF Pending
    <3>3. CASE pc[i] \notin {"announce", "lift"}
      BY <3>3 DEF Pending
    <3> QED
      BY <3>1, <3>2, <3>3
  <2>3. IsFiniteSet(D)
    <3>1. IsFiniteSet(1..Len(R))
      BY <2>1, FS_Interval
    <3> QED
      BY <3>1, FS_Subset
  <2> DEFINE F == [n \in D |-> R[n]]
  <2>4. F \in Surjection(D, Pending(i))
    BY <2>2 DEF Surjection
  <2> HIDE DEF F
  <2> QED
    BY <2>3, <2>4, FS_Surjection
<1>2. ASSUME NEW k \in Kept
      PROVE  unannounced[k] + Cardinality({f \in Pending(i) : <<f.dep, f.claim>> = k}) \in Nat
  <2>1. Cardinality({f \in Pending(i) : <<f.dep, f.claim>> = k}) \in Nat
    BY <1>1, FS_Subset, FS_CardinalityType
  <2> QED
    BY <2>1 DEF TypeOK, DataOK
<1>3. unannounced' \in [Kept -> Nat]
  BY <1>2 DEF Crash
<1> QED
  BY <1>3 DEF TypeOK, DataOK, Crash, inputs, outputs

\* The rows of the change log have their types.
LEMMA LogFacts ==
    ASSUME DataOK
    PROVE  /\ log \in Seq(Changes) /\ Len(log) \in Nat /\ DOMAIN log = 1..Len(log)
           /\ \A n \in DOMAIN log :
                /\ log[n] \in Changes
                /\ log[n].event \in ChangeEvents /\ log[n].event.at \in Nat
                /\ log[n].by \in Nat /\ log[n].by <= Len(log)
<1>1. log \in Seq(Changes) /\ \A n \in DOMAIN log : log[n].by <= Len(log)
  BY DEF DataOK
<1>2. \A n \in DOMAIN log : log[n] \in Changes
  BY <1>1
<1>3. \A x \in Changes : x.event \in ChangeEvents /\ x.by \in Nat
  BY DEF Changes
<1>4. \A c \in ChangeEvents : c.at \in Nat
  BY EngineAssumption
<1>5. Len(log) \in Nat /\ DOMAIN log = 1..Len(log)
  BY <1>1
<1> QED
  BY <1>1, <1>2, <1>3, <1>4, <1>5

\* A change is declared at the end of the log; it marks at most one of the others,
\* which nothing superseded before.
LEMMA Declared ==
    ASSUME DataOK, NEW c \in ChangeEvents, declare_change_event(c)
    PROVE  /\ log' \in Seq(Changes)
           /\ Len(log') = Len(log) + 1
           /\ DOMAIN log \subseteq DOMAIN log'
           /\ \A n \in DOMAIN log :
                /\ log'[n].event = log[n].event
                /\ log'[n].by = log[n].by \/ (log[n].by = 0 /\ log'[n].by = Len(log) + 1)
           /\ log'[Len(log) + 1].by = 0
<1>1. PICK old \in 0..Len(log) :
        log' = Append([n \in DOMAIN log |->
                            IF n = old /\ log[n].by = 0 THEN [log[n] EXCEPT !.by = Len(log) + 1]
                            ELSE log[n]],
                      [event |-> c, by |-> 0])
  BY DEF declare_change_event
<1> DEFINE marked == [n \in DOMAIN log |->
                            IF n = old /\ log[n].by = 0 THEN [log[n] EXCEPT !.by = Len(log) + 1]
                            ELSE log[n]]
           new == [event |-> c, by |-> 0]
<1>2. log \in Seq(Changes) /\ Len(log) \in Nat /\ DOMAIN log = 1..Len(log)
  BY LogFacts
<1>3. \A n \in DOMAIN log :
        /\ marked[n] \in Changes
        /\ marked[n].event = log[n].event
        /\ marked[n].by = log[n].by \/ (log[n].by = 0 /\ marked[n].by = Len(log) + 1)
  <2> SUFFICES ASSUME NEW n \in DOMAIN log
               PROVE  /\ marked[n] \in Changes
                      /\ marked[n].event = log[n].event
                      /\ marked[n].by = log[n].by \/ (log[n].by = 0 /\ marked[n].by = Len(log) + 1)
    OBVIOUS
  <2>1. log[n] \in [event : ChangeEvents, by : Nat]
    BY LogFacts DEF Changes
  <2>2. /\ [log[n] EXCEPT !.by = Len(log) + 1] \in [event : ChangeEvents, by : Nat]
        /\ [log[n] EXCEPT !.by = Len(log) + 1].event = log[n].event
        /\ [log[n] EXCEPT !.by = Len(log) + 1].by = Len(log) + 1
    BY <1>2, <2>1
  <2> QED
    BY <2>1, <2>2 DEF Changes
<1>4. DOMAIN marked = 1..Len(log)
  BY <1>2
<1>5. new \in Changes /\ new.by = 0
  BY DEF Changes
<1>6. log' = Append(marked, new)
  BY <1>1
<1> HIDE DEF marked, new
<1>7. marked \in [1..Len(log) -> Changes]
  <2>1. \A n \in 1..Len(log) : marked[n] \in Changes
    BY <1>2, <1>3
  <2>2. marked = [n \in DOMAIN marked |-> marked[n]]
    BY DEF marked
  <2> QED
    BY <1>4, <2>1, <2>2
<1>8. marked \in Seq(Changes) /\ Len(marked) = Len(log)
  BY <1>2, <1>7
<1>9. /\ Append(marked, new) \in Seq(Changes)
      /\ DOMAIN Append(marked, new) = DOMAIN marked \cup {Len(marked) + 1}
      /\ Append(marked, new)[Len(marked) + 1] = new
      /\ \A n \in DOMAIN marked : Append(marked, new)[n] = marked[n]
  BY <1>5, <1>8, AppendFacts
<1>10. Len(log') = Len(log) + 1
  BY <1>5, <1>6, <1>8
<1> QED
  BY <1>2, <1>3, <1>4, <1>5, <1>6, <1>8, <1>9, <1>10

\* Edits keep the parameters and the change log in their types.
LEMMA ConfigureData ==
    ASSUME TypeOK, Configure
    PROVE  DataOK'
<1>1. UNCHANGED <<figures, commits, reports, updated, lifted, unannounced>>
  BY DEF Configure, Witness, declare_license, create_parameter_version, declare_change_event, Edit, outputs, notices
<1>2. params' \in Seq(ParameterSets)
  <2>1. CASE \E p \in ParameterSets : create_parameter_version(p)
    BY <2>1 DEF create_parameter_version, TypeOK, DataOK
  <2>2. CASE params' = params
    BY <2>2 DEF TypeOK, DataOK
  <2> QED
    BY <2>1, <2>2 DEF Configure, Witness, declare_license, declare_change_event
<1>3. log' \in Seq(Changes) /\ \A n \in DOMAIN log' : log'[n].by <= Len(log')
  <2>t. DataOK
    BY DEF TypeOK
  <2>1. ASSUME NEW c \in ChangeEvents, declare_change_event(c)
        PROVE  log' \in Seq(Changes) /\ \A n \in DOMAIN log' : log'[n].by <= Len(log')
    <3>1. /\ log' \in Seq(Changes) /\ Len(log') = Len(log) + 1
          /\ \A n \in DOMAIN log :
                log'[n].by = log[n].by \/ (log[n].by = 0 /\ log'[n].by = Len(log) + 1)
          /\ log'[Len(log) + 1].by = 0
      BY <2>t, <2>1, Declared
    <3>2. /\ log \in Seq(Changes) /\ \A n \in DOMAIN log : log[n].by <= Len(log) /\ log[n].by \in Nat
      BY <2>t, LogFacts
    <3>3. \A n \in DOMAIN log' : n \in DOMAIN log \/ n = Len(log) + 1
      BY <3>1, <3>2
    <3> QED
      BY <3>1, <3>2, <3>3
  <2>2. CASE log' = log
    BY <2>t, <2>2 DEF DataOK
  <2> QED
    BY <2>1, <2>2 DEF Configure, Witness, declare_license, create_parameter_version
<1> QED
  BY <1>1, <1>2, <1>3 DEF TypeOK, DataOK

-------------------------------------------------------------------------------
(* The steps, by what they do to the figures *)

\* A step that writes no figure: a figure is measured or numbered, or nothing of
\* the computation but its open rows is lost.
Quiet(i) ==
    \E s, t :
        /\ Moves(i, s, t)
        /\ UNCHANGED <<params, log, figures, commits>>
        /\ OpenRows(i)' \subseteq OpenRows(i)
        /\ s = "number" => t.fig = Measured(t.dep, Claims[t.pos])
        /\ s = "insert" => /\ pc[i] = "number"
                           /\ t.dep = task[i].dep /\ t.pos = task[i].pos /\ t.fig = task[i].fig
                           /\ t.version = Newest(Versions(t.dep, Claims[t.pos])) + 1

\* A step that writes a row within its transaction.
Inserts(i) ==
    /\ pc[i] = "insert"
    /\ ~Waits(i) /\ \A f \in figures : ~SameVersion(f, Draft(i))
    /\ Moves(i, NextClaim(i), [task[i] EXCEPT !.rows = Append(task[i].rows, Draft(i)),
                                              !.pos = task[i].pos + 1])
    /\ UNCHANGED <<params, log, figures, commits>>

\* A move that takes no row along and measures and numbers nothing.
LEMMA QuietBy ==
    ASSUME ProcessesOK, NEW i \in Engines, NEW s, NEW t, Moves(i, s, t),
           UNCHANGED <<params, log, figures, commits>>, s \notin {"number", "insert"},
           \/ s \notin OpenSteps
           \/ pc[i] \in OpenSteps /\ t.rows = task[i].rows
           \/ t.rows = <<>>
    PROVE  Quiet(i)
<1>1. OpenRows(i)' = IF s \in OpenSteps THEN {t.rows[n] : n \in DOMAIN t.rows} ELSE {}
  BY MovedRows
<1>2. OpenRows(i)' \subseteq OpenRows(i)
  <2>1. CASE s \notin OpenSteps
    BY <1>1, <2>1
  <2>2. CASE pc[i] \in OpenSteps /\ t.rows = task[i].rows
    BY <1>1, <2>2 DEF OpenRows
  <2>3. CASE t.rows = <<>>
    BY <1>1, <2>3
  <2> QED
    BY <2>1, <2>2, <2>3
<1> QED
  BY <1>2 DEF Quiet

\* Outside its transaction a process has no open rows.
LEMMA OutsideQuiet ==
    ASSUME ProcessesOK, NEW i \in Engines, NEW s \in Steps \ OpenSteps, \E t : Moves(i, s, t),
           UNCHANGED <<params, log, figures, commits>>
    PROVE  Quiet(i)
<1>1. PICK t : Moves(i, s, t)
  OBVIOUS
<1>2. s \notin OpenSteps /\ s \notin {"number", "insert"}
  BY DEF OpenSteps
<1> QED
  BY <1>1, <1>2, QuietBy

\* A process that ends or dies loses its open rows.
LEMMA LeaveQuiet ==
    ASSUME ProcessesOK, NEW i \in Engines, Leave(i), UNCHANGED <<params, log, figures, commits>>
    PROVE  Quiet(i)
<1>1. Moves(i, "idle", NoTask)
  BY LeaveMoves
<1> QED
  BY <1>1, QuietBy DEF OpenSteps

\* A process starts with no rows.
LEMMA StartQuiet ==
    ASSUME ProcessesOK, NEW i \in Engines, NEW d \in Deployments, StartCompute(i, d) \/ StartReport(i, d)
    PROVE  Quiet(i)
<1> DEFINE t == [NoTask EXCEPT !.dep = d]
<1>1. PICK s \in {"measure", "select"} : Moves(i, s, t)
  BY StartMoves
<1>2. UNCHANGED <<params, log, figures, commits>>
  BY StartMoves DEF inputs, outputs
<1>3. t.rows = <<>>
  BY StartTask
<1> HIDE DEF t
<1> QED
  BY <1>1, <1>2, <1>3, QuietBy

\* Measuring writes no row.
LEMMA MeasureQuiet ==
    ASSUME TypeOK, NEW i \in Engines, Measure(i)
    PROVE  Quiet(i)
<1>1. pc[i] = "measure" /\ UNCHANGED <<params, log, figures, commits>>
  BY MeasureMoves DEF TypeOK, inputs, outputs
<1>t. task[i] \in Tasks /\ Control(pc[i], task[i]) /\ ProcessesOK
  BY TaskFacts DEF TypeOK
<1> DEFINE p == task[i].pos + 1
           fig == Measured(task[i].dep, Claims[task[i].pos])
<1>2. CASE Moves(i, NextClaim(i), [task[i] EXCEPT !.pos = p])
  <2> DEFINE t == [task[i] EXCEPT !.pos = p]
  <2>1. t.rows = task[i].rows
    BY <1>t DEF Tasks
  <2>2. NextClaim(i) \notin {"number", "insert"} /\ pc[i] \in OpenSteps
    BY <1>1 DEF NextClaim, OpenSteps
  <2>3. Moves(i, NextClaim(i), t)
    BY <1>2
  <2> HIDE DEF t, p
  <2> QED
    BY <1>t, <1>1, <2>1, <2>2, <2>3, QuietBy
<1>3. CASE Moves(i, "number", [task[i] EXCEPT !.fig = fig])
  <2> DEFINE t == [task[i] EXCEPT !.fig = fig]
  <2>1. t.rows = task[i].rows /\ t.dep = task[i].dep /\ t.pos = task[i].pos /\ t.fig = fig
    <3> HIDE DEF fig
    <3> QED
      BY <1>t DEF Tasks
  <2>2. Moves(i, "number", t)
    BY <1>3
  <2>3. t.fig = Measured(t.dep, Claims[t.pos])
    BY <2>1
  <2> HIDE DEF t, fig
  <2>4. OpenRows(i)' = {t.rows[n] : n \in DOMAIN t.rows}
    BY <1>t, <2>2, MovedRows DEF OpenSteps
  <2>5. OpenRows(i)' \subseteq OpenRows(i)
    BY <1>1, <2>1, <2>4 DEF OpenRows, OpenSteps
  <2> QED
    BY <1>1, <2>2, <2>3, <2>5 DEF Quiet
<1> QED
  BY <1>2, <1>3, MeasureMoves DEF TypeOK

\* Numbering writes no row.
LEMMA NumberQuiet ==
    ASSUME TypeOK, VersionsGapless, NEW i \in Engines, NumberFigure(i)
    PROVE  Quiet(i)
<1> DEFINE v == Newest(Versions(task[i].dep, Claims[task[i].pos])) + 1
           t == [task[i] EXCEPT !.version = v]
<1>1. pc[i] = "number" /\ UNCHANGED <<params, log, figures, commits>>
  BY NumberMoves DEF TypeOK, inputs, outputs
<1>t. task[i] \in Tasks /\ ProcessesOK
  BY TaskFacts DEF TypeOK
<1>2. Moves(i, "insert", t)
  BY NumberMoves DEF TypeOK
<1>3. /\ t.rows = task[i].rows /\ t.dep = task[i].dep /\ t.pos = task[i].pos /\ t.fig = task[i].fig
      /\ t.version = v
  <2> HIDE DEF v
  <2> QED
    BY <1>t DEF Tasks
<1>4. t.version = Newest(Versions(t.dep, Claims[t.pos])) + 1
  BY <1>3
<1> HIDE DEF t, v
<1>5. OpenRows(i)' = {t.rows[n] : n \in DOMAIN t.rows}
  BY <1>t, <1>2, MovedRows DEF OpenSteps
<1>6. OpenRows(i)' \subseteq OpenRows(i)
  BY <1>1, <1>3, <1>5 DEF OpenRows, OpenSteps
<1> QED
  BY <1>1, <1>2, <1>3, <1>4, <1>6 DEF Quiet

\* Every step writes no figure, writes one row, commits, or edits the inputs.
LEMMA Kinds ==
    ASSUME TypeOK, VersionsGapless, ReportsGapless, Next
    PROVE  \/ \E i \in Engines : Quiet(i) \/ Inserts(i) \/ CommitFigures(i)
           \/ Configure
<1> USE DEF TypeOK
<1>1. ASSUME NEW i \in Engines, Start(i)
      PROVE  Quiet(i)
  BY <1>1, StartQuiet DEF Start
<1>2. ASSUME NEW i \in Engines, InsertFigure(i)
      PROVE  Quiet(i) \/ Inserts(i)
  <2>1. pc[i] = "insert" /\ UNCHANGED <<params, log, figures, commits>>
    BY <1>2, InsertMoves DEF inputs, outputs
  <2> QED
    BY <1>2, <2>1, InsertMoves, LeaveQuiet DEF Inserts
<1>s. {"announce", "lift", "renumber", "issue", "put", "notify"} \subseteq Steps \ OpenSteps
  BY DEF Steps, OpenSteps
<1>3. ASSUME NEW i \in Engines, Announce(i)
      PROVE  Quiet(i)
  <2>1. Moves(i, "lift", task[i]) /\ UNCHANGED <<params, log, figures, commits>>
    BY <1>3, AnnounceMoves DEF inputs, outputs
  <2> QED
    BY <1>s, <2>1, OutsideQuiet
<1>4. ASSUME NEW i \in Engines, CheckLifted(i)
      PROVE  Quiet(i)
  <2>1. UNCHANGED <<params, log, figures, commits>> /\ (Leave(i) \/ \E t : Moves(i, "announce", t))
    BY <1>4, LiftMoves DEF inputs, outputs
  <2> QED
    BY <1>s, <2>1, LeaveQuiet, OutsideQuiet
<1>5. ASSUME NEW i \in Engines, SelectFigures(i)
      PROVE  Quiet(i)
  <2>1. UNCHANGED <<params, log, figures, commits>> /\ \E t : Moves(i, "renumber", t)
    BY <1>5, SelectMoves DEF inputs, outputs
  <2> QED
    BY <1>s, <2>1, OutsideQuiet
<1>6. ASSUME NEW i \in Engines, NumberReport(i)
      PROVE  Quiet(i)
  <2>1. UNCHANGED <<params, log, figures, commits>> /\ \E t : Moves(i, "issue", t)
    BY <1>6, RenumberMoves DEF inputs, outputs
  <2> QED
    BY <1>s, <2>1, OutsideQuiet
<1>7. ASSUME NEW i \in Engines, IssueReport(i)
      PROVE  Quiet(i)
  <2>1. UNCHANGED <<params, log, figures, commits>> /\ (Leave(i) \/ \E t : Moves(i, "put", t))
    BY <1>7, IssueMoves DEF inputs
  <2> QED
    BY <1>s, <2>1, LeaveQuiet, OutsideQuiet
<1>8. ASSUME NEW i \in Engines, PutArtifact(i)
      PROVE  Quiet(i)
  <2>1. UNCHANGED <<params, log, figures, commits>> /\ \E t : Moves(i, "notify", t)
    BY <1>8, PutMoves DEF inputs
  <2> QED
    BY <1>s, <2>1, OutsideQuiet
<1>9. ASSUME NEW i \in Engines, NotifyIssued(i) \/ Crash(i)
      PROVE  Quiet(i)
  BY <1>9, LeaveQuiet DEF NotifyIssued, Crash, inputs, outputs
<1> QED
  BY <1>1, <1>2, <1>3, <1>4, <1>5, <1>6, <1>7, <1>8, <1>9, MeasureQuiet, NumberQuiet DEF Next, Step

\* Every step keeps the types, given that versions are numbers.
LEMMA TypeNext ==
    ASSUME TypeOK, VersionsGapless, ReportsGapless, Next
    PROVE  TypeOK'
<1> USE DEF TypeOK
<1>1. ASSUME NEW i \in Engines, UNCHANGED <<inputs, outputs, notices>>
      PROVE  DataOK'
  BY <1>1 DEF DataOK, inputs, outputs, notices
<1>2. ASSUME NEW i \in Engines, Start(i)
      PROVE  TypeOK'
  BY <1>1, <1>2, StartMoves DEF Start
<1>3. ASSUME NEW i \in Engines, Announce(i)
      PROVE  TypeOK'
  <2>1. updated' \in [Kept -> Nat]
    <3>1. updated \in [Kept -> Nat] /\ Key(i) \in Kept /\ updated' = [updated EXCEPT ![Key(i)] = @ + 1]
      BY <1>3, AnnounceMoves DEF Announce, DataOK
    <3> QED
      BY <3>1
  <2>2. DataOK'
    BY <1>3, <2>1 DEF Announce, DataOK, inputs, outputs
  <2> QED
    BY <1>3, <2>2, AnnounceMoves
<1>4. ASSUME NEW i \in Engines, CheckLifted(i)
      PROVE  TypeOK'
  <2>1. lifted' \in [Kept -> Nat]
    <3>1. lifted \in [Kept -> Nat] /\ Key(i) \in Kept
      BY <1>4, LiftMoves DEF DataOK
    <3>2. lifted' = lifted \/ lifted' = [lifted EXCEPT ![Key(i)] = @ + 1]
      BY <1>4 DEF CheckLifted
    <3> QED
      BY <3>1, <3>2
  <2>2. DataOK'
    BY <1>4, <2>1 DEF CheckLifted, DataOK, inputs, outputs
  <2> QED
    BY <1>4, <2>2, LiftMoves
<1>5. ASSUME NEW i \in Engines, IssueReport(i)
      PROVE  TypeOK'
  <2>1. /\ ProcessesOK' /\ UNCHANGED <<inputs, figures, commits, notices>>
        /\ reports' = reports \/ reports' = reports \cup {NewReport(i)}
        /\ NewReport(i) \in Reports
    BY <1>5, IssueMoves
  <2>2. reports' \in SUBSET Reports
    BY <2>1 DEF DataOK
  <2> QED
    BY <2>1, <2>2 DEF DataOK, inputs, notices
<1>6. ASSUME NEW i \in Engines, PutArtifact(i)
      PROVE  TypeOK'
  BY <1>6, PutMoves DEF DataOK, inputs, notices
<1>7. ASSUME NEW i \in Engines, NotifyIssued(i)
      PROVE  TypeOK'
  <2>1. ProcessesOK'
    BY <1>7, LeaveMoves DEF NotifyIssued
  <2> QED
    BY <1>7, <2>1 DEF NotifyIssued, DataOK, inputs, outputs
<1>8. ASSUME NEW i \in Engines, Crash(i)
      PROVE  TypeOK'
  BY <1>8, CrashData, LeaveMoves DEF Crash
<1>9. ASSUME Configure
      PROVE  TypeOK'
  <2>1. UNCHANGED <<pc, task>>
    BY <1>9 DEF Configure, Witness, declare_license, create_parameter_version, declare_change_event, Edit
  <2>2. ProcessesOK'
    BY <2>1 DEF ProcessesOK, Control
  <2> QED
    BY <1>9, <2>2, ConfigureData
<1>10. ASSUME NEW i \in Engines, CommitFigures(i)
       PROVE  TypeOK'
  BY <1>10, CommitData, CommitMoves
<1>11. ASSUME NEW i \in Engines, Measure(i)
       PROVE  TypeOK'
  BY <1>1, <1>11, MeasureMoves
<1>12. ASSUME NEW i \in Engines, NumberFigure(i)
       PROVE  TypeOK'
  BY <1>1, <1>12, NumberMoves
<1>13. ASSUME NEW i \in Engines, InsertFigure(i)
       PROVE  TypeOK'
  BY <1>1, <1>13, InsertMoves
<1>14. ASSUME NEW i \in Engines, SelectFigures(i)
       PROVE  TypeOK'
  BY <1>1, <1>14, SelectMoves
<1>15. ASSUME NEW i \in Engines, NumberReport(i)
       PROVE  TypeOK'
  BY <1>1, <1>15, RenumberMoves
<1> HIDE DEF TypeOK
<1> QED
  BY <1>2, <1>3, <1>4, <1>5, <1>6, <1>7, <1>8, <1>9, <1>10, <1>11, <1>12, <1>13, <1>14, <1>15 DEF Next, Step

-------------------------------------------------------------------------------
(* Versions *)

\* A step that writes no figure: what is numbered gets the next version.
LEMMA QuietVersions ==
    ASSUME TypeOK, VersionInv, NEW i \in Engines, Quiet(i)
    PROVE  VersionInv'
<1>1. PICK s, t :
        /\ Moves(i, s, t) /\ figures' = figures
        /\ OpenRows(i)' \subseteq OpenRows(i)
        /\ s = "insert" => t.version = Newest(Versions(t.dep, Claims[t.pos])) + 1
        /\ s = "insert" => pc[i] = "number" /\ t.dep = task[i].dep /\ t.pos = task[i].pos
  BY DEF Quiet
<1>2. /\ pc'[i] = s /\ task'[i] = t
      /\ \A j \in Engines \ {i} : pc'[j] = pc[j] /\ task'[j] = task[j]
      /\ \A j \in Engines \ {i} : OpenRows(j)' = OpenRows(j)
  BY <1>1, MovedRows DEF TypeOK
<1>3. \A j \in Engines : OpenRows(j)' \subseteq OpenRows(j)
  BY <1>1, <1>2
<1>4. \A d, c : Versions(d, c)' = Versions(d, c)
  BY <1>1 DEF Versions
<1>5. VersionsUnique' /\ VersionsGapless'
  BY <1>1, <1>4 DEF VersionInv, VersionsUnique, VersionsGapless, SameVersion
<1>6. OpenIsNext'
  <2>1. ASSUME NEW j \in Engines, NEW f \in OpenRows(j)'
        PROVE  f.version = Newest(Versions(f.dep, f.claim)') + 1
    BY <1>3, <1>4 DEF VersionInv, OpenIsNext
  <2>2. ASSUME NEW j \in Engines, NEW k \in Engines, j # k, NEW f \in OpenRows(j)', NEW g \in OpenRows(k)'
        PROVE  ~SameVersion(f, g)
    BY <1>3, <2>2 DEF VersionInv, OpenIsNext
  <2> QED
    BY <2>1, <2>2 DEF OpenIsNext, Newest, SameVersion
<1>7. NumberedNext'
  <2>1. ASSUME NEW j \in Engines, NEW d \in Deployments, NEW c \in 1..4,
               pc'[j] = "insert", task'[j].dep = d, task'[j].pos = c
        PROVE  task'[j].version <= Newest(Versions(d, Claims[c])) + 1
    <3>1. CASE j = i
      <4>1. t.version = Newest(Versions(d, Claims[c])) + 1
        BY <1>1, <1>2, <2>1, <3>1
      <4>2. Newest(Versions(d, Claims[c])) \in Nat
        BY ClaimFacts DEF VersionInv, VersionsGapless
      <4> QED
        BY <1>2, <3>1, <4>1, <4>2
    <3>2. CASE j # i
      <4>1. pc[j] = "insert" /\ task'[j] = task[j]
        BY <1>2, <2>1, <3>2
      <4> QED
        BY <2>1, <4>1 DEF VersionInv, NumberedNext
    <3> QED
      BY <3>1, <3>2
  <2> QED
    BY <1>4, <2>1 DEF NumberedNext
<1> QED
  BY <1>5, <1>6, <1>7 DEF VersionInv

\* What an insert adds to the open rows.
LEMMA InsertsRows ==
    ASSUME ProcessesOK, NEW i \in Engines, Inserts(i)
    PROVE  /\ OpenRows(i)' \subseteq OpenRows(i) \cup {Draft(i)}
           /\ \A j \in Engines \ {i} : pc'[j] = pc[j] /\ task'[j] = task[j]
           /\ \A j \in Engines \ {i} : OpenRows(j)' = OpenRows(j)
           /\ pc'[i] \in {"measure", "commit"}
<1> DEFINE r == Append(task[i].rows, Draft(i))
           t == [task[i] EXCEPT !.rows = r, !.pos = task[i].pos + 1]
<1>1. pc[i] = "insert" /\ Moves(i, NextClaim(i), t)
  BY DEF Inserts
<1>2. task[i] \in Tasks /\ Draft(i) \in FigureRows /\ task[i].rows \in Seq(FigureRows)
  BY <1>1, TaskFacts, DraftFacts DEF Tasks
<1>3. t.rows = r
  <2> HIDE DEF r
  <2> QED
    BY <1>2 DEF Tasks
<1>4. {r[n] : n \in DOMAIN r} \subseteq {task[i].rows[n] : n \in DOMAIN task[i].rows} \cup {Draft(i)}
  <2>1. /\ DOMAIN r = DOMAIN task[i].rows \cup {Len(task[i].rows) + 1}
        /\ r[Len(task[i].rows) + 1] = Draft(i)
        /\ \A n \in DOMAIN task[i].rows : r[n] = task[i].rows[n]
    BY <1>2, AppendFacts
  <2> HIDE DEF r
  <2> QED
    BY <2>1
<1> HIDE DEF t, r
<1>5. /\ pc'[i] = NextClaim(i)
      /\ \A j \in Engines \ {i} : pc'[j] = pc[j] /\ task'[j] = task[j]
      /\ OpenRows(i)' \subseteq {t.rows[n] : n \in DOMAIN t.rows}
      /\ \A j \in Engines \ {i} : OpenRows(j)' = OpenRows(j)
  BY <1>1, MovedRows
<1>6. OpenRows(i) = {task[i].rows[n] : n \in DOMAIN task[i].rows}
  BY <1>1 DEF OpenRows, OpenSteps
<1> QED
  BY <1>3, <1>4, <1>5, <1>6 DEF NextClaim

\* An insert: the row has the next version, and no other transaction has it.
LEMMA InsertVersions ==
    ASSUME TypeOK, VersionInv, NEW i \in Engines, Inserts(i)
    PROVE  VersionInv'
<1>1. /\ pc[i] = "insert" /\ figures' = figures
      /\ ~Waits(i) /\ \A f \in figures : ~SameVersion(f, Draft(i))
  BY DEF Inserts
<1>2. /\ OpenRows(i)' \subseteq OpenRows(i) \cup {Draft(i)}
      /\ \A j \in Engines \ {i} : pc'[j] = pc[j] /\ task'[j] = task[j]
      /\ \A j \in Engines \ {i} : OpenRows(j)' = OpenRows(j)
      /\ pc'[i] \in {"measure", "commit"}
  BY InsertsRows DEF TypeOK
<1>3. /\ Draft(i) \in FigureRows
      /\ Draft(i).dep = task[i].dep /\ Draft(i).claim = Claims[task[i].pos]
      /\ Draft(i).version = task[i].version
      /\ task[i].pos \in 1..4 /\ task[i].dep \in Deployments
  BY <1>1, DraftFacts DEF TypeOK
<1>4. \A d, c : Versions(d, c)' = Versions(d, c)
  BY <1>1 DEF Versions
<1>5. VersionsUnique' /\ VersionsGapless'
  BY <1>1, <1>4 DEF VersionInv, VersionsUnique, VersionsGapless, SameVersion
<1>6. Draft(i).version = Newest(Versions(Draft(i).dep, Draft(i).claim)) + 1
  <2> DEFINE V == Versions(Draft(i).dep, Draft(i).claim)
             v == Draft(i).version
  <2>1. Newest(V) \in Nat /\ V = 1..Newest(V)
    BY <1>3, ClaimFacts DEF VersionInv, VersionsGapless
  <2>2. v <= Newest(V) + 1
    BY <1>1, <1>3 DEF VersionInv, NumberedNext
  <2>3. v \notin V
    BY <1>1 DEF Versions, SameVersion
  <2>4. v \in Nat \ {0}
    BY <1>3 DEF FigureRows
  <2> HIDE DEF V, v
  <2>5. v = Newest(V) + 1
    BY <2>1, <2>2, <2>3, <2>4
  <2> QED
    BY <2>5 DEF V, v
<1>7. \A j \in Engines \ {i} : \A g \in OpenRows(j) : ~SameVersion(g, Draft(i))
  BY <1>1 DEF Waits, OpenRows, OpenSteps
<1>8. OpenIsNext'
  <2>1. ASSUME NEW j \in Engines, NEW f \in OpenRows(j)'
        PROVE  f.version = Newest(Versions(f.dep, f.claim)) + 1
    <3>1. CASE f \in OpenRows(j)
      BY <3>1 DEF VersionInv, OpenIsNext
    <3>2. CASE f = Draft(i)
      BY <1>6, <3>2
    <3> QED
      BY <1>2, <3>1, <3>2
  <2>2. ASSUME NEW j \in Engines, NEW k \in Engines, j # k, NEW f \in OpenRows(j)', NEW g \in OpenRows(k)'
        PROVE  ~SameVersion(f, g)
    <3>1. CASE f \in OpenRows(j) /\ g \in OpenRows(k)
      BY <2>2, <3>1 DEF VersionInv, OpenIsNext
    <3>2. CASE j = i /\ f = Draft(i)
      BY <1>2, <1>7, <2>2, <3>2 DEF SameVersion
    <3>3. CASE k = i /\ g = Draft(i)
      BY <1>2, <1>7, <2>2, <3>3
    <3> QED
      BY <1>2, <2>2, <3>1, <3>2, <3>3
  <2> QED
    BY <1>4, <2>1, <2>2 DEF OpenIsNext, SameVersion
<1>9. NumberedNext'
  <2>1. \A j \in Engines : pc'[j] = "insert" => pc[j] = "insert" /\ task'[j] = task[j]
    BY <1>2
  <2> QED
    BY <1>4, <2>1 DEF VersionInv, NumberedNext
<1> QED
  BY <1>5, <1>8, <1>9 DEF VersionInv

\* A commit adds the next version of every figure that it has a row of.
LEMMA CommitNumbers ==
    ASSUME TypeOK, VersionInv, NEW i \in Engines, CommitFigures(i),
           NEW d \in Deployments, NEW c \in ClaimNames
    PROVE  LET n == Newest(Versions(d, c)) IN
           \/ /\ Versions(d, c)' = 1..(n + 1) /\ Newest(Versions(d, c))' = n + 1
              /\ \E g \in Committed(i) : g.dep = d /\ g.claim = c
           \/ /\ Versions(d, c)' = Versions(d, c)
              /\ ~\E g \in Committed(i) : g.dep = d /\ g.claim = c
<1> DEFINE N == Committed(i)
<1>1. pc[i] = "commit"
  BY DEF CommitFigures
<1>2. figures' = figures \cup N
  BY DEF CommitFigures, Committed
<1>3. /\ \A g \in N : g.dep = task[i].dep /\ \E r \in OpenRows(i) : SameVersion(g, r)
      /\ \A g, h \in N : g.claim = h.claim => g = h
  BY <1>1, CommittedFacts
<1> HIDE DEF N
<1>5. \A g \in N : g.version = Newest(Versions(g.dep, g.claim)) + 1
  BY <1>3 DEF VersionInv, OpenIsNext, SameVersion
<1> DEFINE n == Newest(Versions(d, c))
<1>6. n \in Nat /\ Versions(d, c) = 1..n
  BY DEF VersionInv, VersionsGapless
<1>7. CASE \E g \in N : g.dep = d /\ g.claim = c
  <2>1. PICK g \in N : g.dep = d /\ g.claim = c
    BY <1>7
  <2>2. g.version = n + 1
    BY <1>5, <2>1
  <2>3. \A h \in N : h.dep = d /\ h.claim = c => h = g
    BY <1>3, <2>1
  <2>4. Versions(d, c)' = Versions(d, c) \cup {n + 1}
    <3> HIDE DEF n
    <3> QED
      BY <1>2, <2>1, <2>2, <2>3 DEF Versions
  <2> HIDE DEF n
  <2>5. Versions(d, c)' = 1..(n + 1)
    BY <1>6, <2>4
  <2>6. Newest(1..(n + 1)) = n + 1
    BY <1>6, NewestOfInterval
  <2>7. Newest(Versions(d, c))' = n + 1
    BY <2>5, <2>6 DEF Newest, Max
  <2> QED
    BY <2>1, <2>5, <2>7 DEF n, N
<1>8. CASE ~\E g \in N : g.dep = d /\ g.claim = c
  <2>1. Versions(d, c)' = Versions(d, c)
    BY <1>2, <1>8 DEF Versions
  <2> QED
    BY <1>8, <2>1 DEF N
<1> QED
  BY <1>7, <1>8

\* A commit keeps the versions unique and without gaps.
LEMMA CommitVersions ==
    ASSUME TypeOK, VersionInv, NEW i \in Engines, CommitFigures(i)
    PROVE  VersionInv'
<1> DEFINE N == Committed(i)
<1>1. pc[i] = "commit" /\ Moves(i, "announce", task[i])
  BY CommitMoves DEF TypeOK
<1>2. figures' = figures \cup N
  BY DEF CommitFigures, Committed
<1>3. /\ N \in SUBSET FigureRows
      /\ \A g \in N : g.dep = task[i].dep /\ \E r \in OpenRows(i) : SameVersion(g, r)
      /\ \A r \in OpenRows(i) : \E g \in N : SameVersion(g, r)
      /\ \A g, h \in N : g.claim = h.claim => g = h
  BY <1>1, CommittedFacts
<1> HIDE DEF N
<1>4. /\ pc'[i] = "announce" /\ OpenRows(i)' = {}
      /\ \A j \in Engines \ {i} : pc'[j] = pc[j] /\ task'[j] = task[j]
      /\ \A j \in Engines \ {i} : OpenRows(j)' = OpenRows(j)
  BY <1>1, MovedRows DEF TypeOK, OpenSteps
<1>5. \A g \in N : g.version = Newest(Versions(g.dep, g.claim)) + 1
  BY <1>3 DEF VersionInv, OpenIsNext, SameVersion
<1>6. ASSUME NEW d \in Deployments, NEW c \in ClaimNames
      PROVE  LET n == Newest(Versions(d, c)) IN
             \/ /\ Versions(d, c)' = 1..(n + 1) /\ Newest(Versions(d, c))' = n + 1
                /\ \E g \in N : g.dep = d /\ g.claim = c
             \/ /\ Versions(d, c)' = Versions(d, c)
                /\ ~\E g \in N : g.dep = d /\ g.claim = c
  BY CommitNumbers DEF N
<1>7. VersionsGapless'
  <2>1. ASSUME NEW d \in Deployments, NEW c \in ClaimNames
        PROVE  Newest(Versions(d, c))' \in Nat /\ Versions(d, c)' = 1..Newest(Versions(d, c))'
    <3>1. Newest(Versions(d, c)) \in Nat /\ Versions(d, c) = 1..Newest(Versions(d, c))
      BY DEF VersionInv, VersionsGapless
    <3>2. Versions(d, c)' = Versions(d, c) => Newest(Versions(d, c))' = Newest(Versions(d, c))
      BY DEF Newest, Max
    <3> QED
      BY <1>6, <3>1, <3>2
  <2> QED
    BY <2>1 DEF VersionsGapless
<1>8. VersionsUnique'
  <2>1. ASSUME NEW f \in figures, NEW g \in N
        PROVE  ~SameVersion(f, g)
    <3> SUFFICES ASSUME SameVersion(f, g)
                 PROVE  FALSE
      OBVIOUS
    <3>1. f.version \in Versions(g.dep, g.claim) /\ f.version = g.version
      BY DEF Versions, SameVersion
    <3>2. g.dep \in Deployments /\ g.claim \in ClaimNames
      BY <1>3 DEF FigureRows
    <3>3. /\ Newest(Versions(g.dep, g.claim)) \in Nat
          /\ Versions(g.dep, g.claim) = 1..Newest(Versions(g.dep, g.claim))
      BY <3>2 DEF VersionInv, VersionsGapless
    <3> QED
      BY <1>5, <3>1, <3>3
  <2>2. \A f, g \in figures : SameVersion(f, g) => f = g
    BY DEF VersionInv, VersionsUnique
  <2>3. \A f, g \in N : SameVersion(f, g) => f = g
    BY <1>3 DEF SameVersion
  <2>4. \A f, g \in figures \cup N : SameVersion(f, g) => f = g
    BY <2>1, <2>2, <2>3 DEF SameVersion
  <2> QED
    BY <1>2, <2>4 DEF VersionsUnique, SameVersion
<1>9. OpenIsNext'
  <2>1. ASSUME NEW j \in Engines \ {i}, NEW f \in OpenRows(j)
        PROVE  Versions(f.dep, f.claim)' = Versions(f.dep, f.claim)
    <3>1. f.dep \in Deployments /\ f.claim \in ClaimNames
      <4>1. task[j].rows \in Seq(FigureRows) /\ \E n \in DOMAIN task[j].rows : f = task[j].rows[n]
        BY TaskFacts DEF TypeOK, Tasks, OpenRows
      <4>2. f \in FigureRows
        BY <4>1
      <4> QED
        BY <4>2 DEF FigureRows
    <3>2. f.version = Newest(Versions(f.dep, f.claim)) + 1
      BY DEF VersionInv, OpenIsNext
    <3>3. ~\E g \in N : g.dep = f.dep /\ g.claim = f.claim
      <4> SUFFICES ASSUME NEW g \in N, g.dep = f.dep, g.claim = f.claim
                   PROVE  FALSE
        OBVIOUS
      <4>1. SameVersion(g, f)
        BY <1>5, <3>2 DEF SameVersion
      <4>2. PICK r \in OpenRows(i) : SameVersion(g, r)
        BY <1>3
      <4>3. SameVersion(r, f)
        BY <4>1, <4>2 DEF SameVersion
      <4> QED
        BY <4>3 DEF VersionInv, OpenIsNext
    <3> QED
      BY <1>6, <3>1, <3>3
  <2>2. \A j \in Engines : \A f \in OpenRows(j)' : j # i /\ f \in OpenRows(j)
    BY <1>4
  <2>3. ASSUME NEW j \in Engines, NEW f \in OpenRows(j)'
        PROVE  f.version = Newest(Versions(f.dep, f.claim))' + 1
    <3>0. Versions(f.dep, f.claim)' = Versions(f.dep, f.claim)
      BY <2>1, <2>2
    <3>1. Newest(Versions(f.dep, f.claim))' = Newest(Versions(f.dep, f.claim))
      BY <3>0 DEF Newest, Max
    <3> QED
      BY <2>2, <3>1 DEF VersionInv, OpenIsNext
  <2>4. ASSUME NEW j \in Engines, NEW k \in Engines, j # k, NEW f \in OpenRows(j)', NEW g \in OpenRows(k)'
        PROVE  ~SameVersion(f, g)
    BY <2>2, <2>4 DEF VersionInv, OpenIsNext
  <2> QED
    BY <2>3, <2>4 DEF OpenIsNext, SameVersion
<1>10. NumberedNext'
  <2>1. ASSUME NEW j \in Engines, NEW d \in Deployments, NEW c \in 1..4,
               pc'[j] = "insert", task'[j].dep = d, task'[j].pos = c
        PROVE  task'[j].version <= Newest(Versions(d, Claims[c]))' + 1
    <3>1. pc[j] = "insert" /\ task'[j] = task[j]
      BY <1>4, <2>1
    <3>2. task[j].version <= Newest(Versions(d, Claims[c])) + 1 /\ task[j].version \in Nat
      BY <2>1, <3>1, TaskFacts DEF VersionInv, NumberedNext, TypeOK, Tasks
    <3>3. Claims[c] \in ClaimNames
      BY ClaimFacts
    <3>4. Newest(Versions(d, Claims[c])) \in Nat
      BY <3>3 DEF VersionInv, VersionsGapless
    <3>5. Versions(d, Claims[c])' = Versions(d, Claims[c]) =>
             Newest(Versions(d, Claims[c]))' = Newest(Versions(d, Claims[c]))
      BY DEF Newest, Max
    <3>6. \/ Newest(Versions(d, Claims[c]))' = Newest(Versions(d, Claims[c])) + 1
          \/ Newest(Versions(d, Claims[c]))' = Newest(Versions(d, Claims[c]))
      BY <1>6, <3>3, <3>5
    <3> HIDE DEF Claims
    <3> QED
      BY <3>1, <3>2, <3>4, <3>6
  <2> QED
    BY <2>1 DEF NumberedNext
<1> QED
  BY <1>7, <1>8, <1>9, <1>10 DEF VersionInv

\* Edits of the inputs touch no figure, no report and no process.
LEMMA ConfigureFrame ==
    ASSUME Configure
    PROVE  UNCHANGED <<figures, reports, artifacts, commits, updated, lifted, issued, unannounced, pc, task>>
  BY DEF Configure, Witness, declare_license, create_parameter_version, declare_change_event, Edit, outputs, notices

\* The versions depend on nothing but the figures and the processes.
LEMMA VersionsSame ==
    ASSUME VersionInv, UNCHANGED <<figures, pc, task>>
    PROVE  VersionInv'
<1>1. \A d, c : Versions(d, c)' = Versions(d, c)
  BY DEF Versions
<1>2. \A j : OpenRows(j)' = OpenRows(j)
  BY DEF OpenRows
<1>3. VersionsUnique' /\ VersionsGapless'
  BY <1>1 DEF VersionInv, VersionsUnique, VersionsGapless, SameVersion
<1>4. OpenIsNext' /\ NumberedNext'
  BY <1>1, <1>2 DEF VersionInv, OpenIsNext, NumberedNext, SameVersion
<1> QED
  BY <1>3, <1>4 DEF VersionInv

\* Every step keeps the versions unique, without gaps, and the open ones next.
LEMMA VersionsNext ==
    ASSUME TypeOK, VersionInv, ReportsGapless, Next
    PROVE  VersionInv'
<1>1. CASE Configure
  BY <1>1, ConfigureFrame, VersionsSame
<1>2. CASE \E i \in Engines : Quiet(i) \/ Inserts(i) \/ CommitFigures(i)
  BY <1>2, QuietVersions, InsertVersions, CommitVersions
<1> QED
  BY <1>1, <1>2, Kinds DEF VersionInv

-------------------------------------------------------------------------------
(* Reports *)

ReportSteps == {"renumber", "issue", "put", "notify"}

\* A step that does nothing to reports: at most a process leaves one.
Aside ==
    /\ UNCHANGED <<reports, artifacts, issued>>
    /\ \A j \in Engines : pc'[j] \in ReportSteps => pc'[j] = pc[j] /\ task'[j] = task[j]

\* A move to a step that is not one of a report.
LEMMA AsideBy ==
    ASSUME ProcessesOK, NEW i \in Engines, NEW s, \E t : Moves(i, s, t), s \notin ReportSteps,
           UNCHANGED <<reports, artifacts, issued>>
    PROVE  Aside
<1>1. PICK t : Moves(i, s, t)
  OBVIOUS
<1>2. pc'[i] = s /\ \A j \in Engines \ {i} : pc'[j] = pc[j] /\ task'[j] = task[j]
  BY <1>1, MovedRows
<1> QED
  BY <1>2 DEF Aside

\* A process that ends or dies leaves reports as they are.
LEMMA LeaveAside ==
    ASSUME ProcessesOK, NEW i \in Engines, Leave(i), UNCHANGED <<reports, artifacts, issued>>
    PROVE  Aside
<1>1. Moves(i, "idle", NoTask)
  BY LeaveMoves
<1> QED
  BY <1>1, AsideBy DEF ReportSteps

\* Every step is one of a report, or does nothing to reports.
LEMMA ReportKinds ==
    ASSUME TypeOK, VersionsGapless, Next
    PROVE  \/ \E i \in Engines : \/ SelectFigures(i) \/ NumberReport(i) \/ IssueReport(i)
                                 \/ PutArtifact(i) \/ NotifyIssued(i)
           \/ Aside
<1> USE DEF TypeOK
<1>s. {"measure", "number", "insert", "commit", "announce", "lift", "select"} \cap ReportSteps = {}
  BY DEF ReportSteps
<1>1. ASSUME NEW i \in Engines, Start(i)
      PROVE  Aside
  <2>1. PICK d \in Deployments : StartCompute(i, d) \/ StartReport(i, d)
    BY <1>1 DEF Start
  <2>2. \E s \in {"measure", "select"} : \E t : Moves(i, s, t)
    BY <2>1, StartMoves
  <2>3. UNCHANGED <<reports, artifacts, issued>>
    BY <2>1, StartMoves DEF outputs, notices
  <2> QED
    BY <1>s, <2>2, <2>3, AsideBy
<1>2. ASSUME NEW i \in Engines, Measure(i)
      PROVE  Aside
  <2>1. UNCHANGED <<reports, artifacts, issued>>
    BY <1>2, MeasureMoves DEF outputs, notices
  <2>2. NextClaim(i) \in {"measure", "commit"}
    BY DEF NextClaim
  <2>3. \E s \in {"measure", "number", "commit"} : \E t : Moves(i, s, t)
    BY <1>2, <2>2, MeasureMoves
  <2> QED
    BY <1>s, <2>1, <2>3, AsideBy
<1>3. ASSUME NEW i \in Engines, NumberFigure(i)
      PROVE  Aside
  <2>1. UNCHANGED <<reports, artifacts, issued>> /\ \E t : Moves(i, "insert", t)
    BY <1>3, NumberMoves DEF outputs, notices
  <2> QED
    BY <1>s, <2>1, AsideBy
<1>4. ASSUME NEW i \in Engines, InsertFigure(i)
      PROVE  Aside
  <2>1. UNCHANGED <<reports, artifacts, issued>>
    BY <1>4, InsertMoves DEF outputs, notices
  <2>2. NextClaim(i) \in {"measure", "commit"}
    BY DEF NextClaim
  <2>3. Leave(i) \/ \E s \in {"measure", "commit"} : \E t : Moves(i, s, t)
    BY <1>4, <2>2, InsertMoves
  <2> QED
    BY <1>s, <2>1, <2>3, AsideBy, LeaveAside
<1>5. ASSUME NEW i \in Engines, CommitFigures(i)
      PROVE  Aside
  <2>1. UNCHANGED <<reports, artifacts, issued>> /\ \E t : Moves(i, "announce", t)
    BY <1>5, CommitMoves DEF notices
  <2> QED
    BY <1>s, <2>1, AsideBy
<1>6. ASSUME NEW i \in Engines, Announce(i)
      PROVE  Aside
  <2>1. UNCHANGED <<reports, artifacts, issued>> /\ \E t : Moves(i, "lift", t)
    BY <1>6, AnnounceMoves DEF outputs
  <2> QED
    BY <1>s, <2>1, AsideBy
<1>7. ASSUME NEW i \in Engines, CheckLifted(i)
      PROVE  Aside
  <2>1. UNCHANGED <<reports, artifacts, issued>> /\ (Leave(i) \/ \E t : Moves(i, "announce", t))
    BY <1>7, LiftMoves DEF outputs
  <2> QED
    BY <1>s, <2>1, AsideBy, LeaveAside
<1>8. ASSUME NEW i \in Engines, Crash(i)
      PROVE  Aside
  BY <1>8, LeaveAside DEF Crash, outputs
<1>9. ASSUME Configure
      PROVE  Aside
  BY <1>9, ConfigureFrame DEF Aside
<1> QED
  BY <1>1, <1>2, <1>3, <1>4, <1>5, <1>6, <1>7, <1>8, <1>9 DEF Next, Step

\* Every step keeps the versions of reports without gaps.
LEMMA ReportsGaplessNext ==
    ASSUME TypeOK, VersionsGapless, ReportsGapless, Next
    PROVE  ReportsGapless'
<1> USE DEF TypeOK
<1>1. ASSUME reports' = reports,
             \A j \in Engines, d \in Deployments : pc'[j] = "issue" /\ task'[j].dep = d =>
                task'[j].version <= Newest(ReportVersions(d)) + 1
      PROVE  ReportsGapless'
  <2>1. \A d : ReportVersions(d)' = ReportVersions(d)
    BY <1>1 DEF ReportVersions
  <2> QED
    BY <1>1, <2>1 DEF ReportsGapless
<1>2. ASSUME NEW i \in Engines, NEW s, NEW t, Moves(i, s, t), reports' = reports,
             \A d \in Deployments : s = "issue" /\ t.dep = d =>
                 t.version <= Newest(ReportVersions(d)) + 1
      PROVE  ReportsGapless'
  <2>1. /\ pc'[i] = s /\ task'[i] = t
        /\ \A j \in Engines \ {i} : pc'[j] = pc[j] /\ task'[j] = task[j]
    BY <1>2, MovedRows
  <2>2. ASSUME NEW j \in Engines, NEW d \in Deployments, pc'[j] = "issue", task'[j].dep = d
        PROVE  task'[j].version <= Newest(ReportVersions(d)) + 1
    BY <1>2, <2>1, <2>2 DEF ReportsGapless
  <2> QED
    BY <1>1, <1>2, <2>2
<1>3. ASSUME Aside
      PROVE  ReportsGapless'
  BY <1>1, <1>3 DEF Aside, ReportSteps, ReportsGapless
<1>4. ASSUME NEW i \in Engines, SelectFigures(i)
      PROVE  ReportsGapless'
  <2>1. PICK t : Moves(i, "renumber", t)
    BY <1>4, SelectMoves
  <2>2. reports' = reports
    BY <1>4, SelectMoves DEF outputs
  <2> QED
    BY <1>2, <2>1, <2>2
<1>5. ASSUME NEW i \in Engines, NumberReport(i)
      PROVE  ReportsGapless'
  <2> DEFINE v == Newest(ReportVersions(task[i].dep)) + 1
             t == [task[i] EXCEPT !.version = v]
  <2>1. Moves(i, "issue", t) /\ Newest(ReportVersions(task[i].dep)) \in Nat
    BY <1>5, RenumberMoves
  <2>2. reports' = reports
    BY <1>5, RenumberMoves DEF outputs
  <2>3. t.dep = task[i].dep /\ t.version = v
    <3> HIDE DEF v
    <3> QED
      BY TaskFacts DEF Tasks
  <2>4. \A d \in Deployments : t.dep = d => t.version <= Newest(ReportVersions(d)) + 1
    BY <2>1, <2>3
  <2> HIDE DEF t, v
  <2> QED
    BY <1>2, <2>1, <2>2, <2>4
<1>6. ASSUME NEW i \in Engines, IssueReport(i)
      PROVE  ReportsGapless'
  <2> DEFINE D == task[i].dep
             n == Newest(ReportVersions(D))
  <2>1. CASE Leave(i) /\ reports' = reports
    <3>1. Moves(i, "idle", NoTask)
      BY <2>1, LeaveMoves
    <3> QED
      BY <1>2, <2>1, <3>1
  <2>2. CASE /\ task[i].version \notin ReportVersions(task[i].dep)
             /\ reports' = reports \cup {NewReport(i)}
             /\ Moves(i, "put", task[i])
    <3>1. pc[i] = "issue" /\ D \in Deployments /\ NewReport(i) \in Reports
      BY <1>6, IssueMoves
    <3>2. NewReport(i).dep = D /\ NewReport(i).version = task[i].version
      BY DEF NewReport
    <3>3. task[i].version = n + 1 /\ n \in Nat /\ ReportVersions(D) = 1..n
      <4>1. n \in Nat /\ ReportVersions(D) = 1..n /\ task[i].version <= n + 1
        BY <3>1 DEF ReportsGapless
      <4>2. task[i].version \in Nat \ {0}
        BY <3>1, <3>2 DEF Reports
      <4> QED
        BY <2>2, <4>1, <4>2
    <3>4. PICK e \in Deployments, m \in Nat : e = D /\ m = n
      BY <3>1, <3>3
    <3>5. ASSUME NEW d \in Deployments
          PROVE  ReportVersions(d)' = IF d = e THEN 1..(m + 1) ELSE ReportVersions(d)
      <4>1. d = e => ReportVersions(d)' = ReportVersions(d) \cup {m + 1}
        <5> HIDE DEF D, n
        <5> QED
          BY <2>2, <3>2, <3>3, <3>4 DEF ReportVersions
      <4>2. d # e => ReportVersions(d)' = ReportVersions(d)
        <5> HIDE DEF D, n
        <5> QED
          BY <2>2, <3>2, <3>3, <3>4 DEF ReportVersions
      <4>3. d = e => ReportVersions(d) = 1..m
        BY <3>3, <3>4
      <4>4. (1..m) \cup {m + 1} = 1..(m + 1)
        OBVIOUS
      <4> QED
        BY <4>1, <4>2, <4>3, <4>4
    <3>6. ASSUME NEW d \in Deployments
          PROVE  Newest(ReportVersions(d))' = IF d = e THEN m + 1 ELSE Newest(ReportVersions(d))
      <4>1. Newest(1..(m + 1)) = m + 1
        BY NewestOfInterval
      <4>2. \A V : ReportVersions(d)' = V => Newest(ReportVersions(d))' = Newest(V)
        BY DEF Newest, Max
      <4> QED
        BY <3>5, <4>1, <4>2
    <3>7. /\ pc'[i] = "put" /\ \A j \in Engines \ {i} : pc'[j] = pc[j] /\ task'[j] = task[j]
      BY <2>2, MovedRows
    <3>8. \A d \in Deployments : /\ Newest(ReportVersions(d)) \in Nat
                                 /\ ReportVersions(d) = 1..Newest(ReportVersions(d))
      BY DEF ReportsGapless
    <3>9. Newest(ReportVersions(e)) = m
      BY <3>4
    <3>10. ASSUME NEW j \in Engines, NEW d \in Deployments, pc'[j] = "issue", task'[j].dep = d
           PROVE  task'[j].version <= Newest(ReportVersions(d))' + 1
      <4>1. pc[j] = "issue" /\ task'[j] = task[j] /\ task[j].version \in Nat
        <5>1. pc[j] = "issue" /\ task'[j] = task[j]
          BY <3>7, <3>10
        <5>2. task[j] \in Tasks
          BY TaskFacts
        <5> QED
          BY <5>1, <5>2 DEF Tasks
      <4>2. task[j].version <= Newest(ReportVersions(d)) + 1
        BY <3>10, <4>1 DEF ReportsGapless
      <4> QED
        BY <3>6, <3>8, <3>9, <4>1, <4>2
    <3>11. ASSUME NEW d \in Deployments
           PROVE  /\ Newest(ReportVersions(d))' \in Nat
                  /\ ReportVersions(d)' = 1..Newest(ReportVersions(d))'
      <4>1. CASE d = e
        <5>1. Newest(ReportVersions(d))' = m + 1 /\ ReportVersions(d)' = 1..(m + 1)
          BY <3>5, <3>6, <4>1
        <5> QED
          BY <5>1
      <4>2. CASE d # e
        <5>1. /\ Newest(ReportVersions(d))' = Newest(ReportVersions(d))
              /\ ReportVersions(d)' = ReportVersions(d)
          BY <3>5, <3>6, <4>2
        <5> QED
          BY <3>8, <5>1
      <4> QED
        BY <4>1, <4>2
    <3> QED
      BY <3>10, <3>11 DEF ReportsGapless
  <2> QED
    BY <1>6, <2>1, <2>2, IssueMoves
<1>7. ASSUME NEW i \in Engines, PutArtifact(i)
      PROVE  ReportsGapless'
  <2>1. PICK t : Moves(i, "notify", t) /\ reports' = reports
    BY <1>7, PutMoves
  <2> QED
    BY <1>2, <2>1
<1>8. ASSUME NEW i \in Engines, NotifyIssued(i)
      PROVE  ReportsGapless'
  <2>1. Moves(i, "idle", NoTask) /\ reports' = reports
    BY <1>8, LeaveMoves DEF NotifyIssued, outputs
  <2> QED
    BY <1>2, <2>1
<1> QED
  BY <1>3, <1>4, <1>5, <1>6, <1>7, <1>8, ReportKinds

-------------------------------------------------------------------------------
(* The core of the invariant *)

Core == TypeOK /\ VersionInv /\ ReportsGapless

\* Nothing is stored and nothing runs at the start.
LEMMA CoreInit ==
    ASSUME Init
    PROVE  Core
<1>1. DataOK
  BY FS_EmptySet DEF Init, DataOK
<1>2. ProcessesOK
  <2>1. NoTask \in Tasks /\ Control("idle", NoTask)
    <3>1. NoFigure \in Figures
      BY DEF NoFigure, Figures
    <3> QED
      BY <3>1 DEF NoTask, Tasks, Control, OpenSteps
  <2> QED
    BY <2>1 DEF Init, ProcessesOK, Steps
<1>3. \A d, c : Versions(d, c) = {}
  BY DEF Init, Versions
<1>4. \A d : ReportVersions(d) = {}
  BY DEF Init, ReportVersions
<1>5. Newest({}) = 0 /\ 1..0 = {}
  BY DEF Newest
<1>6. \A i \in Engines : OpenRows(i) = {} /\ pc[i] = "idle"
  BY DEF Init, OpenRows, OpenSteps
<1>7. VersionInv
  <2>1. VersionsUnique
    BY DEF VersionsUnique, Init
  <2>2. VersionsGapless
    BY <1>3, <1>5 DEF VersionsGapless
  <2>3. OpenIsNext /\ NumberedNext
    BY <1>6 DEF OpenIsNext, NumberedNext
  <2> QED
    BY <2>1, <2>2, <2>3 DEF VersionInv
<1>8. ReportsGapless
  BY <1>4, <1>5, <1>6 DEF ReportsGapless
<1> QED
  BY <1>1, <1>2, <1>7, <1>8 DEF Core, TypeOK

\* Every step keeps the core of the invariant.
LEMMA CoreNext ==
    ASSUME Core, [Next]_vars
    PROVE  Core'
<1>1. CASE Next
  BY <1>1, TypeNext, VersionsNext, ReportsGaplessNext DEF Core, VersionInv
<1>2. CASE UNCHANGED vars
  <2>1. UNCHANGED <<inputs, outputs, notices, pc, task>>
    BY <1>2 DEF vars
  <2>2. UNCHANGED <<figures, pc, task, reports>>
    BY <2>1 DEF outputs
  <2>3. TypeOK'
    BY <2>1 DEF Core, TypeOK, DataOK, ProcessesOK, Control, inputs, outputs, notices
  <2>4. VersionInv'
    BY <2>2, VersionsSame DEF Core
  <2>5. \A d : ReportVersions(d)' = ReportVersions(d)
    BY <2>2 DEF ReportVersions
  <2>6. ReportsGapless'
    BY <2>2, <2>5 DEF Core, ReportsGapless
  <2> QED
    BY <2>3, <2>4, <2>6 DEF Core
<1> QED
  BY <1>1, <1>2

\* The tables and the processes keep their types: a process has what the step it
\* is at needs, one row for each claim that it has passed and stated, and a report
\* or a figure has a version number.
THEOREM Typed == Spec => []Core
<1>1. Init => Core
  BY CoreInit
<1>2. Core /\ [Next]_vars => Core'
  BY CoreNext
<1> QED
  BY <1>1, <1>2, PTL DEF Spec

\* The rows of a figure are as many as its versions, since a version names one row.
LEMMA RowsCounted ==
    ASSUME TypeOK, VersionsUnique, VersionsGapless, NEW d \in Deployments, NEW c \in ClaimNames
    PROVE  LET rows == {f \in figures : f.dep = d /\ f.claim = c} IN
           /\ IsFiniteSet(rows)
           /\ Cardinality(rows) = Newest(Versions(d, c))
           /\ Cardinality(Versions(d, c)) = Newest(Versions(d, c))
<1> DEFINE rows == {f \in figures : f.dep = d /\ f.claim = c}
           F == [f \in rows |-> f.version]
<1>1. IsFiniteSet(rows)
  BY FS_Subset DEF TypeOK, DataOK
<1>2. Versions(d, c) = {f.version : f \in rows}
  BY DEF Versions
<1>3. F \in Bijection(rows, Versions(d, c))
  <2>1. \A f, g \in rows : f.version = g.version => f = g
    BY DEF VersionsUnique, SameVersion
  <2>2. F \in [rows -> Versions(d, c)]
    BY <1>2
  <2>3. \A f, g \in rows : F[f] = F[g] => f = g
    BY <2>1
  <2>4. \A v \in Versions(d, c) : \E f \in rows : F[f] = v
    BY <1>2
  <2> HIDE DEF F, rows
  <2> QED
    BY <2>2, <2>3, <2>4 DEF Bijection, Injection, IsInjective, Surjection
<1>4. ExistsBijection(rows, Versions(d, c))
  BY <1>3 DEF ExistsBijection
<1>5. Cardinality(Versions(d, c)) = Cardinality(rows)
  <2> HIDE DEF rows
  <2> QED
    BY <1>1, <1>4, FS_Bijection
<1>6. Newest(Versions(d, c)) \in Nat /\ Versions(d, c) = 1..Newest(Versions(d, c))
  BY DEF VersionsGapless
<1>7. Cardinality(1..Newest(Versions(d, c))) = Newest(Versions(d, c))
  <2>1. PICK n \in Nat : n = Newest(Versions(d, c))
    BY <1>6
  <2>2. Cardinality(1..n) = n
    BY FS_Interval
  <2> QED
    BY <2>1, <2>2
<1> QED
  BY <1>1, <1>5, <1>6, <1>7

\* The versions of a figure are 1 to n, each written once, whatever number of
\* computations number and insert at the same time, fail and die: uq_figures and
\* MAX(version) + 1 make a history without gaps.
THEOREM Contiguous == Spec => []VersionsContiguous
<1>1. Core => VersionsContiguous
  <2> SUFFICES ASSUME Core, NEW k \in Kept
               PROVE  /\ Versions(k[1], k[2]) = 1..Newest(Versions(k[1], k[2]))
                      /\ Cardinality({f \in figures : <<f.dep, f.claim>> = k})
                            = Newest(Versions(k[1], k[2]))
    BY DEF VersionsContiguous
  <2>1. PICK d \in Deployments, c \in ClaimNames : k = <<d, c>>
    BY ClaimFacts
  <2>2. k[1] = d /\ k[2] = c /\ {f \in figures : <<f.dep, f.claim>> = k} = {f \in figures : f.dep = d /\ f.claim = c}
    BY <2>1
  <2>3. Cardinality({f \in figures : f.dep = d /\ f.claim = c}) = Newest(Versions(d, c))
    BY RowsCounted DEF Core, VersionInv
  <2>4. Versions(d, c) = 1..Newest(Versions(d, c))
    BY DEF Core, VersionInv, VersionsGapless
  <2> QED
    BY <2>2, <2>3, <2>4
<1> QED
  BY <1>1, Typed, PTL

-------------------------------------------------------------------------------
(* Stamps *)

\* The whole log is what is known now.
LEMMA KnownNow ==
    ASSUME DataOK, NEW d
    PROVE  KnownAt(d, Len(log)) = InWindow(d)
<1>1. /\ log \in Seq(Changes) /\ DOMAIN log = 1..Len(log) /\ Len(log) \in Nat
      /\ \A n \in DOMAIN log : log[n].by <= Len(log) /\ log[n].by \in Nat
  BY LogFacts
<1>2. \A n \in DOMAIN log : ~(log[n].by > Len(log))
  BY <1>1
<1>3. \A n \in DOMAIN log :
        log[n].event.at \in PeriodStart..PeriodEnd
            <=> log[n].event.at \in Int /\ PeriodStart <= log[n].event.at /\ log[n].event.at <= PeriodEnd
  BY EngineAssumption
<1>4. \A n \in DOMAIN log : log[n].event.at \in Nat
  BY LogFacts
<1> QED
  BY <1>1, <1>2, <1>3, <1>4 DEF KnownAt, InWindow

\* The treatment that is stamped now is decided by the earliest change known now.
LEMMA TreatmentExplained ==
    ASSUME DataOK, NEW d, change_treatment(d) # None
    PROVE  \E n \in DOMAIN log : Decided(d, change_treatment(d), n)
<1> DEFINE W == InWindow(d)
           T == {x.at : x \in W}
           c == CHOOSE x \in W : \A y \in W : x.at <= y.at
           t == change_treatment(d)
<1>1. W # {}
  BY DEF change_treatment
<1>2. \A y \in W : y.at \in Nat
  BY EngineAssumption DEF InWindow
<1>3. PICK m \in T : \A y \in T : m <= y
  <2>1. T \in SUBSET Nat /\ T # {}
    <3> HIDE DEF W
    <3> QED
      BY <1>1, <1>2
  <2> HIDE DEF T
  <2> QED
    BY <2>1, Smallest
<1>4. \E x \in W : \A y \in W : x.at <= y.at
  BY <1>3
<1>5. c \in W /\ \A y \in W : c.at <= y.at
  <2> HIDE DEF W
  <2> QED
    BY <1>4
<1>6. t = Treatment(c)
  BY <1>1 DEF change_treatment
<1>7. Len(log) \in DOMAIN log
  <2>1. log \in Seq(Changes) /\ DOMAIN log # {}
    BY <1>1 DEF InWindow, DataOK
  <2> QED
    BY <2>1
<1> HIDE DEF c, W, t
<1>8. /\ (t = "symmetric_cancel") = (c.sided = "symmetric")
      /\ (t = "incumbent_tool_change_excluded") = (c.sided # "symmetric" /\ c.type = "tool_change")
  BY <1>6 DEF Treatment
<1>9. KnownAt(d, Len(log)) = W
  BY KnownNow DEF W
<1>10. Decided(d, t, Len(log))
  BY <1>5, <1>8, <1>9 DEF Decided
<1> QED
  BY <1>7, <1>10 DEF t

\* What is measured is explained by the parameters and the change log of now.
LEMMA MeasuredExplained ==
    ASSUME DataOK, NEW d, NEW claim \in ClaimNames
    PROVE  Explained(d, claim, Measured(d, claim))
<1> DEFINE fig == Measured(d, claim)
           pv == resolve_parameter_version
<1>1. pv = 0 \/ (pv \in DOMAIN params /\ pv \in Nat \ {0} /\ params[pv].from <= PeriodStart)
  BY InForce DEF DataOK
<1>2. pv # 0 => Priced = params[pv].prices
  BY DEF Priced
<1>a. /\ NoFigure.pv = 0 /\ NoFigure.treatment = None /\ NoFigure.status = "none"
      /\ \A p : /\ Awaiting(p).pv = p /\ Awaiting(p).treatment = None
                /\ Awaiting(p).status = "awaiting_parameters"
  BY DEF Awaiting, NoFigure
<1>4. fig.pv \in {0, pv} /\ fig.treatment \in {None, change_treatment(d)}
  <2>1. compute_cost(d).pv \in {0, pv} /\ compute_cost(d).treatment \in {None, change_treatment(d)}
    BY <1>a DEF compute_cost, Computed
  <2>2. compute_seats(d).pv \in {0, pv} /\ compute_seats(d).treatment = None
    BY <1>a DEF compute_seats, Computed
  <2>3. compute_containment(d).pv \in {0, pv} /\ compute_containment(d).treatment = None
    BY <1>a DEF compute_containment, Computed
  <2>4. compute_time_savings(d).pv \in {0, pv} /\ compute_time_savings(d).treatment \in {None, change_treatment(d)}
    <3>1. /\ [NoFigure EXCEPT !.status = "refused", !.pv = pv].pv = pv
          /\ [NoFigure EXCEPT !.status = "refused", !.pv = pv].treatment = None
      BY DEF NoFigure
    <3> HIDE DEF pv
    <3> QED
      BY <1>a, <3>1 DEF compute_time_savings, Computed, pv
  <2> QED
    BY <2>1, <2>2, <2>3, <2>4 DEF Measured
<1>5. claim = "time" /\ fig.status = "computed" => pv # 0 /\ fig.pv = pv /\ "labor" \in Priced
  <2>1. ASSUME claim = "time", fig.status = "computed"
        PROVE  pv # 0 /\ fig.pv = pv /\ "labor" \in Priced
    <3>1. fig = compute_time_savings(d)
      BY <2>1 DEF Measured
    <3>2. [NoFigure EXCEPT !.status = "refused", !.pv = pv].status = "refused"
      BY DEF NoFigure
    <3>3. fig = Awaiting(pv) => fig.status = "awaiting_parameters"
      BY <1>a
    <3>4. facts[d].effect \notin {"none", "weak"} /\ ~(pv = 0 \/ "labor" \notin Priced)
      BY <1>a, <2>1, <3>1, <3>2, <3>3 DEF compute_time_savings
    <3>5. fig = Computed(IF facts[d].effect = "thin" THEN "estimate" ELSE "measured",
                         TRUE, pv, change_treatment(d))
      BY <3>1, <3>4 DEF compute_time_savings
    <3> QED
      BY <3>4, <3>5 DEF Computed
  <2> QED
    BY <2>1
<1> HIDE DEF fig, pv
<1>6. fig.pv > 0 => fig.pv \in DOMAIN params /\ params[fig.pv].from <= PeriodStart
  BY <1>1, <1>4
<1>7. claim = "time" /\ fig.status = "computed" => fig.pv > 0 /\ "labor" \in params[fig.pv].prices
  BY <1>1, <1>2, <1>5
<1> QED
  BY <1>4, <1>6, <1>7, TreatmentExplained DEF Explained, fig

\* Parameter versions are never changed, and what was known stays what was known.
LEMMA InputsGrow ==
    ASSUME Core, Next
    PROVE  /\ \A v \in DOMAIN params : v \in DOMAIN params' /\ params'[v] = params[v]
           /\ \A n \in DOMAIN log : n \in DOMAIN log' /\ \A d : KnownAt(d, n)' = KnownAt(d, n)
<1>1. CASE UNCHANGED <<params, log>>
  BY <1>1 DEF KnownAt
<1>2. CASE Configure
  <2>1. params \in Seq(ParameterSets) /\ log \in Seq(Changes) /\ DataOK
    BY DEF Core, TypeOK, DataOK
  <2>2. \A v \in DOMAIN params : v \in DOMAIN params' /\ params'[v] = params[v]
    <3>1. CASE \E p \in ParameterSets : create_parameter_version(p)
      <4>1. PICK p \in ParameterSets : params' = Append(params, p)
        BY <3>1 DEF create_parameter_version
      <4> QED
        BY <2>1, <4>1, AppendFacts
    <3>2. CASE params' = params
      BY <3>2
    <3> QED
      BY <1>2, <3>1, <3>2 DEF Configure, Witness, declare_license, declare_change_event
  <2>3. \A n \in DOMAIN log : n \in DOMAIN log' /\ \A d : KnownAt(d, n)' = KnownAt(d, n)
    <3>1. ASSUME NEW c \in ChangeEvents, declare_change_event(c), NEW n \in DOMAIN log, NEW d
          PROVE  n \in DOMAIN log' /\ KnownAt(d, n)' = KnownAt(d, n)
      <4>1. /\ DOMAIN log \subseteq DOMAIN log'
            /\ \A k \in DOMAIN log :
                /\ log'[k].event = log[k].event
                /\ log'[k].by = log[k].by \/ (log[k].by = 0 /\ log'[k].by = Len(log) + 1)
        BY <2>1, <3>1, Declared
      <4>2. n \in Nat /\ n <= Len(log) /\ Len(log) \in Nat /\ 1..n \subseteq DOMAIN log
        BY <2>1
      <4>3. \A k \in 1..n : (log'[k].by = 0 \/ log'[k].by > n) <=> (log[k].by = 0 \/ log[k].by > n)
        <5> SUFFICES ASSUME NEW k \in 1..n
                     PROVE  (log'[k].by = 0 \/ log'[k].by > n) <=> (log[k].by = 0 \/ log[k].by > n)
          OBVIOUS
        <5> QED
          BY <4>1, <4>2
      <4>4. \A k \in 1..n : log'[k].event = log[k].event
        BY <4>1, <4>2
      <4> DEFINE Of(l) == {k \in 1..n :
                    /\ l[k].by = 0 \/ l[k].by > n
                    /\ PeriodStart <= l[k].event.at /\ l[k].event.at <= PeriodEnd
                    /\ l[k].event.deps # {} => d \in l[k].event.deps}
      <4>5. Of(log') = Of(log)
        BY <4>3, <4>4
      <4>6. Of(log) \subseteq 1..n
        OBVIOUS
      <4>7. KnownAt(d, n) = {log[m].event : m \in Of(log)} /\ KnownAt(d, n)' = {log'[m].event : m \in Of(log')}
        BY DEF KnownAt
      <4> HIDE DEF Of
      <4> QED
        BY <4>1, <4>4, <4>5, <4>6, <4>7
    <3>2. CASE log' = log
      BY <3>2 DEF KnownAt
    <3> QED
      BY <1>2, <3>1, <3>2 DEF Configure, Witness, declare_license, create_parameter_version
  <2> QED
    BY <2>2, <2>3
<1> QED
  BY <1>1, <1>2, Kinds DEF Core, VersionInv, Quiet, Inserts, CommitFigures, inputs

\* What was explained once stays explained.
LEMMA ExplainedKept ==
    ASSUME Core, Next, NEW d, NEW claim, NEW fig \in Figures, Explained(d, claim, fig)
    PROVE  Explained(d, claim, fig)'
<1>1. /\ \A v \in DOMAIN params : v \in DOMAIN params' /\ params'[v] = params[v]
      /\ \A n \in DOMAIN log : n \in DOMAIN log' /\ \A e : KnownAt(e, n)' = KnownAt(e, n)
  BY InputsGrow
<1>2. \A n \in DOMAIN log : n \in DOMAIN log' /\ \A t : Decided(d, t, n) => Decided(d, t, n)'
  BY <1>1 DEF Decided
<1> QED
  BY <1>1, <1>2 DEF Explained

\* Open rows are rows of figures.
LEMMA OpenTyped ==
    ASSUME ProcessesOK, NEW i \in Engines
    PROVE  OpenRows(i) \subseteq FigureRows
<1>1. task[i].rows \in Seq(FigureRows)
  BY TaskFacts DEF Tasks
<1> QED
  BY <1>1 DEF OpenRows

\* Every step keeps figures, open rows and what is about to be a row explained.
LEMMA StampNext ==
    ASSUME Core, StampInv, Next
    PROVE  StampInv'
<1>t. DataOK /\ ProcessesOK /\ TypeOK
  BY DEF Core, TypeOK
<1>f. \A g \in FigureRows : g.fig \in Figures /\ g.claim \in ClaimNames
  BY DEF FigureRows
<1>1. \A g \in figures : Explained(g.dep, g.claim, g.fig)'
  BY <1>t, <1>f, ExplainedKept DEF StampInv, DataOK
<1>2. \A j \in Engines : \A g \in OpenRows(j) : Explained(g.dep, g.claim, g.fig)'
  BY <1>t, <1>f, OpenTyped, ExplainedKept DEF StampInv
<1>3. \A j \in Engines, d \in Deployments, c \in 1..4, fig \in Figures :
        pc[j] \in {"number", "insert"} /\ task[j].dep = d /\ task[j].pos = c /\ task[j].fig = fig =>
            Explained(d, Claims[c], fig)'
  BY ExplainedKept DEF StampInv
<1>4. ASSUME NEW i \in Engines, Quiet(i)
      PROVE  StampInv'
  <2>1. PICK s, t :
          /\ Moves(i, s, t) /\ UNCHANGED <<params, log, figures, commits>>
          /\ OpenRows(i)' \subseteq OpenRows(i)
          /\ s = "number" => t.fig = Measured(t.dep, Claims[t.pos])
          /\ s = "insert" => /\ pc[i] = "number"
                             /\ t.dep = task[i].dep /\ t.pos = task[i].pos /\ t.fig = task[i].fig
    BY <1>4 DEF Quiet
  <2>2. /\ pc'[i] = s /\ task'[i] = t
        /\ \A j \in Engines \ {i} : pc'[j] = pc[j] /\ task'[j] = task[j]
        /\ \A j \in Engines \ {i} : OpenRows(j)' = OpenRows(j)
    BY <1>t, <2>1, MovedRows
  <2>3. \A j \in Engines : \A g \in OpenRows(j)' : Explained(g.dep, g.claim, g.fig)'
    BY <1>2, <2>1, <2>2
  <2>4. ASSUME NEW j \in Engines, NEW d \in Deployments, NEW c \in 1..4, NEW fig \in Figures,
               pc'[j] \in {"number", "insert"}, task'[j].dep = d, task'[j].pos = c, task'[j].fig = fig
        PROVE  Explained(d, Claims[c], fig)'
    <3>1. CASE j # i
      BY <1>3, <2>2, <2>4, <3>1
    <3>2. CASE j = i /\ s = "insert"
      BY <1>3, <2>1, <2>2, <2>4, <3>2
    <3>3. CASE j = i /\ s = "number"
      <4>1. fig = Measured(d, Claims[c])
        BY <2>1, <2>2, <2>4, <3>3
      <4>2. Explained(d, Claims[c], fig)
        BY <1>t, <4>1, MeasuredExplained, ClaimFacts
      <4> QED
        BY <4>2, ExplainedKept
    <3> QED
      BY <2>2, <2>4, <3>1, <3>2, <3>3
  <2>5. \A g \in figures' : Explained(g.dep, g.claim, g.fig)'
    BY <1>1, <2>1
  <2> QED
    BY <2>3, <2>4, <2>5 DEF StampInv
<1>5. ASSUME NEW i \in Engines, Inserts(i)
      PROVE  StampInv'
  <2>1. /\ OpenRows(i)' \subseteq OpenRows(i) \cup {Draft(i)}
        /\ \A j \in Engines \ {i} : pc'[j] = pc[j] /\ task'[j] = task[j]
        /\ \A j \in Engines \ {i} : OpenRows(j)' = OpenRows(j)
        /\ pc'[i] \in {"measure", "commit"}
    BY <1>t, <1>5, InsertsRows
  <2>2. pc[i] = "insert" /\ figures' = figures
    BY <1>5 DEF Inserts
  <2>3. /\ Draft(i).dep = task[i].dep /\ Draft(i).claim = Claims[task[i].pos] /\ Draft(i).fig = task[i].fig
        /\ task[i].pos \in 1..4 /\ task[i].dep \in Deployments /\ task[i].fig \in Figures
    BY <1>t, <2>2, DraftFacts, TaskFacts DEF Tasks
  <2>4. PICK d \in Deployments, c \in 1..4, fig \in Figures :
            d = task[i].dep /\ c = task[i].pos /\ fig = task[i].fig
    BY <2>3
  <2>5. Explained(d, Claims[c], fig)'
    BY <1>3, <2>2, <2>4
  <2>6. \A g \in {Draft(i)} : Explained(g.dep, g.claim, g.fig)'
    <3> SUFFICES ASSUME NEW g, g = Draft(i)
                 PROVE  Explained(g.dep, g.claim, g.fig)'
      OBVIOUS
    <3>1. g.dep = d /\ g.claim = Claims[c] /\ g.fig = fig
      BY <2>3, <2>4
    <3> QED
      BY <2>5, <3>1
  <2>7. \A j \in Engines : \A g \in OpenRows(j)' : Explained(g.dep, g.claim, g.fig)'
    BY <1>2, <2>1, <2>6
  <2>8. \A g \in figures' : Explained(g.dep, g.claim, g.fig)'
    BY <1>1, <2>2
  <2>9. \A j \in Engines : pc'[j] \in {"number", "insert"} => pc[j] = pc'[j] /\ task[j] = task'[j]
    BY <2>1
  <2> QED
    BY <1>3, <2>7, <2>8, <2>9 DEF StampInv
<1>6. ASSUME NEW i \in Engines, CommitFigures(i)
      PROVE  StampInv'
  <2>1. pc[i] = "commit" /\ Moves(i, "announce", task[i]) /\ figures' = figures \cup Committed(i)
    BY <1>t, <1>6, CommitMoves DEF CommitFigures, Committed
  <2>2. \A g \in Committed(i) : \E r \in OpenRows(i) : SameVersion(g, r) /\ g.fig = r.fig
    BY <1>t, <2>1, CommittedFacts
  <2>3. \A g \in Committed(i) : Explained(g.dep, g.claim, g.fig)'
    BY <1>2, <2>2 DEF SameVersion
  <2>4. /\ pc'[i] = "announce" /\ OpenRows(i)' = {}
        /\ \A j \in Engines \ {i} : pc'[j] = pc[j] /\ task'[j] = task[j]
        /\ \A j \in Engines \ {i} : OpenRows(j)' = OpenRows(j)
    BY <1>t, <2>1, MovedRows DEF OpenSteps
  <2>5. \A j \in Engines : \A g \in OpenRows(j)' : Explained(g.dep, g.claim, g.fig)'
    BY <1>2, <2>4
  <2>6. \A g \in figures' : Explained(g.dep, g.claim, g.fig)'
    BY <1>1, <2>1, <2>3
  <2>7. \A j \in Engines : pc'[j] \in {"number", "insert"} => pc[j] = pc'[j] /\ task[j] = task'[j]
    BY <2>4
  <2> QED
    BY <1>3, <2>5, <2>6, <2>7 DEF StampInv
<1>7. ASSUME Configure
      PROVE  StampInv'
  <2>1. UNCHANGED <<figures, pc, task>>
    BY <1>7, ConfigureFrame
  <2>2. \A j : OpenRows(j)' = OpenRows(j)
    BY <2>1 DEF OpenRows
  <2> QED
    BY <1>1, <1>2, <1>3, <2>1, <2>2 DEF StampInv
<1> QED
  BY <1>4, <1>5, <1>6, <1>7, Kinds DEF Core, VersionInv

\* Every figure is explained by the parameters and the change log.
LEMMA StampInvariant == Spec => []StampInv
<1>1. Init => StampInv
  BY DEF Init, StampInv, OpenRows, OpenSteps
<1>2. Core /\ StampInv /\ [Next]_vars => StampInv'
  <2>1. Core /\ StampInv /\ Next => StampInv'
    BY StampNext
  <2>2. StampInv /\ UNCHANGED vars => StampInv'
    <3> SUFFICES ASSUME StampInv, UNCHANGED vars
                 PROVE  StampInv'
      OBVIOUS
    <3>1. UNCHANGED <<params, log, figures, pc, task>>
      BY DEF vars, inputs, outputs
    <3>2. \A j : OpenRows(j)' = OpenRows(j)
      BY <3>1 DEF OpenRows
    <3>3. \A d, c, fig : Explained(d, c, fig)' = Explained(d, c, fig)
      BY <3>1 DEF Explained, Decided, KnownAt
    <3> QED
      BY <3>1, <3>2, <3>3 DEF StampInv
  <2> QED
    BY <2>1, <2>2
<1> QED
  BY <1>1, <1>2, Typed, PTL DEF Spec

\* The parameter version stamped on a figure was in force at the start of the
\* period and has the rate that the hours saved were multiplied with, whatever
\* versions are created while computations run.
THEOREM StampedPrice == Spec => []PricedFromStamp
<1>1. Core /\ StampInv => PricedFromStamp
  BY DEF StampInv, Explained, PricedFromStamp
<1> QED
  BY <1>1, StampInvariant, Typed, PTL

\* A change treatment stamped on a figure is that of the earliest change that
\* concerned the deployment when the log held its first n changes, for some n,
\* although changes are declared and superseded meanwhile.
THEOREM StampedTreatment == Spec => []TreatmentFromLog
<1>1. StampInv => TreatmentFromLog
  BY DEF StampInv, Explained, Decided, TreatmentFromLog
<1> QED
  BY <1>1, StampInvariant, PTL

-------------------------------------------------------------------------------
(* Snapshots *)

\* Figures are only added, by a commit that is later than all before it.
LEMMA FigureHistory ==
    ASSUME Core, Next
    PROVE  \/ UNCHANGED <<figures, commits>>
           \/ /\ commits' = commits + 1
              /\ \E N : figures' = figures \cup N /\ \A g \in N : g.by = commits + 1
<1>1. ASSUME NEW i \in Engines, CommitFigures(i)
      PROVE  /\ commits' = commits + 1 /\ figures' = figures \cup Committed(i)
             /\ \A g \in Committed(i) : g.by = commits + 1
  <2>1. pc[i] = "commit" /\ commits' = commits + 1 /\ figures' = figures \cup Committed(i)
    BY <1>1 DEF CommitFigures, Committed
  <2> QED
    BY <2>1, CommittedFacts DEF Core
<1>2. CASE Configure
  BY <1>2, ConfigureFrame
<1>3. CASE \E i \in Engines : Quiet(i) \/ Inserts(i)
  BY <1>3 DEF Quiet, Inserts
<1> QED
  BY <1>1, <1>2, <1>3, Kinds DEF Core, VersionInv

\* What was the latest at some moment, was the latest at that moment forever.
LEMMA SnapshotKept ==
    ASSUME Core, Next, \A f \in figures : f.by <= commits
    PROVE  /\ \A f \in figures' : f.by <= commits'
           /\ \A d, F : Snapshot(d, F) => Snapshot(d, F)'
<1>t. commits \in Nat /\ \A f \in figures : f.by \in Nat
  BY DEF Core, TypeOK, DataOK, FigureRows
<1>1. CASE UNCHANGED <<figures, commits>>
  BY <1>1 DEF Snapshot
<1>2. ASSUME commits' = commits + 1,
             NEW N, figures' = figures \cup N, \A g \in N : g.by = commits + 1
      PROVE  /\ \A f \in figures' : f.by <= commits'
             /\ \A d, F : Snapshot(d, F) => Snapshot(d, F)'
  <2>1. \A f \in figures' : f.by <= commits'
    BY <1>t, <1>2
  <2>2. ASSUME NEW d, NEW F, Snapshot(d, F)
        PROVE  Snapshot(d, F)'
    <3>1. PICK n \in 0..commits : F = Latest(d, {f \in figures : f.by <= n})
      BY <2>2 DEF Snapshot
    <3>2. {f \in figures' : f.by <= n} = {f \in figures : f.by <= n}
      BY <1>t, <1>2, <3>1
    <3>3. n \in 0..commits'
      BY <1>t, <1>2, <3>1
    <3>4. F = Latest(d, {f \in figures' : f.by <= n})
      BY <3>1, <3>2
    <3> QED
      BY <3>3, <3>4 DEF Snapshot, Latest
  <2> QED
    BY <2>1, <2>2
<1> QED
  BY <1>1, <1>2, FigureHistory

\* Every step keeps reports, and what was selected for one, snapshots.
LEMMA SnapshotNext ==
    ASSUME Core, SnapshotInv, Next
    PROVE  SnapshotInv'
<1>t. TypeOK /\ DataOK /\ ProcessesOK /\ ReportsGapless
  BY DEF Core, TypeOK
<1>1. \A f \in figures' : f.by <= commits'
  BY SnapshotKept DEF SnapshotInv
<1>2. \A d, F : Snapshot(d, F) => Snapshot(d, F)'
  BY SnapshotKept DEF SnapshotInv
<1>3. \A r \in reports : Snapshot(r.dep, r.figs)'
  BY <1>2 DEF SnapshotInv
<1>4. \A j \in Engines, d \in Deployments : pc[j] \in {"renumber", "issue"} /\ task[j].dep = d =>
            \E figs \in SUBSET FigureRows : figs = task[j].figs /\ Snapshot(d, figs)'
  BY <1>2 DEF SnapshotInv
<1>5. ASSUME NEW i \in Engines, NEW s, NEW t, Moves(i, s, t), reports' = reports,
             \A d \in Deployments : s \in {"renumber", "issue"} /\ t.dep = d =>
                \E figs \in SUBSET FigureRows : figs = t.figs /\ Snapshot(d, figs)'
      PROVE  SnapshotInv'
  <2>1. /\ pc'[i] = s /\ task'[i] = t
        /\ \A j \in Engines \ {i} : pc'[j] = pc[j] /\ task'[j] = task[j]
    BY <1>t, <1>5, MovedRows
  <2>2. ASSUME NEW j \in Engines, NEW d \in Deployments, pc'[j] \in {"renumber", "issue"}, task'[j].dep = d
        PROVE  \E figs \in SUBSET FigureRows : figs = task'[j].figs /\ Snapshot(d, figs)'
    BY <1>4, <1>5, <2>1, <2>2
  <2> QED
    BY <1>1, <1>3, <1>5, <2>2 DEF SnapshotInv
<1>6. ASSUME Aside
      PROVE  SnapshotInv'
  <2>1. reports' = reports
    BY <1>6 DEF Aside
  <2>2. \A j \in Engines : pc'[j] \in {"renumber", "issue"} => pc[j] = pc'[j] /\ task[j] = task'[j]
    BY <1>6 DEF Aside, ReportSteps
  <2> QED
    BY <1>1, <1>3, <1>4, <2>1, <2>2 DEF SnapshotInv
<1>7. ASSUME NEW i \in Engines, SelectFigures(i)
      PROVE  SnapshotInv'
  <2> DEFINE g == Latest(task[i].dep, figures)
             t == [task[i] EXCEPT !.figs = g]
  <2>1. Moves(i, "renumber", t) /\ task[i].dep \in Deployments
    BY <1>t, <1>7, SelectMoves
  <2>2. reports' = reports
    BY <1>t, <1>7, SelectMoves DEF outputs
  <2>3. t.dep = task[i].dep /\ t.figs = g
    <3> HIDE DEF g
    <3> QED
      BY <1>t, TaskFacts DEF Tasks
  <2>4. ASSUME NEW d \in Deployments, d = task[i].dep
        PROVE  \E figs \in SUBSET FigureRows : figs = g /\ Snapshot(d, figs)
    <3>1. commits \in 0..commits /\ {f \in figures : f.by <= commits} = figures
      BY <1>t DEF DataOK, SnapshotInv
    <3>2. g \in SUBSET FigureRows
      BY <1>t DEF Latest, DataOK
    <3>3. Snapshot(d, g)
      BY <2>4, <3>1 DEF Snapshot
    <3> QED
      BY <3>2, <3>3
  <2> HIDE DEF t, g
  <2>5. \A d \in Deployments : t.dep = d => \E figs \in SUBSET FigureRows : figs = t.figs /\ Snapshot(d, figs)'
    BY <1>2, <2>3, <2>4
  <2> QED
    BY <1>5, <2>1, <2>2, <2>5
<1>8. ASSUME NEW i \in Engines, NumberReport(i)
      PROVE  SnapshotInv'
  <2> DEFINE v == Newest(ReportVersions(task[i].dep)) + 1
             t == [task[i] EXCEPT !.version = v]
  <2>1. Moves(i, "issue", t) /\ pc[i] = "renumber"
    BY <1>t, <1>8, RenumberMoves
  <2>2. reports' = reports
    BY <1>t, <1>8, RenumberMoves DEF outputs
  <2>3. t.dep = task[i].dep /\ t.figs = task[i].figs
    <3> HIDE DEF v
    <3> QED
      BY <1>t, TaskFacts DEF Tasks
  <2> HIDE DEF t, v
  <2>4. \A d \in Deployments : t.dep = d => \E figs \in SUBSET FigureRows : figs = t.figs /\ Snapshot(d, figs)'
    BY <1>4, <2>1, <2>3
  <2> QED
    BY <1>5, <2>1, <2>2, <2>4
<1>9. ASSUME NEW i \in Engines, IssueReport(i)
      PROVE  SnapshotInv'
  <2>1. CASE Leave(i) /\ reports' = reports
    <3>1. Moves(i, "idle", NoTask)
      BY <1>t, <2>1, LeaveMoves
    <3> QED
      BY <1>5, <2>1, <3>1
  <2>2. CASE reports' = reports \cup {NewReport(i)} /\ Moves(i, "put", task[i])
    <3>1. pc[i] = "issue" /\ task[i].dep \in Deployments
      BY <1>t, <1>9, IssueMoves
    <3>2. PICK d \in Deployments, figs \in SUBSET FigureRows :
            d = task[i].dep /\ figs = task[i].figs /\ Snapshot(d, figs)'
      BY <1>4, <3>1
    <3>3. NewReport(i).dep = d /\ NewReport(i).figs = figs
      BY <3>2 DEF NewReport
    <3>4. \A r \in reports' : Snapshot(r.dep, r.figs)'
      <4> SUFFICES ASSUME NEW r \in reports'
                   PROVE  Snapshot(r.dep, r.figs)'
        OBVIOUS
      <4>1. CASE r \in reports
        BY <1>3, <4>1
      <4>2. CASE r = NewReport(i)
        <5>1. r.dep = d /\ r.figs = figs
          BY <3>3, <4>2
        <5> QED
          BY <3>2, <5>1
      <4> QED
        BY <2>2, <4>1, <4>2
    <3>5. /\ pc'[i] = "put" /\ \A j \in Engines \ {i} : pc'[j] = pc[j] /\ task'[j] = task[j]
      BY <1>t, <2>2, MovedRows
    <3>6. \A j \in Engines : pc'[j] \in {"renumber", "issue"} => pc[j] = pc'[j] /\ task[j] = task'[j]
      BY <3>5
    <3> QED
      BY <1>1, <1>4, <3>4, <3>6 DEF SnapshotInv
  <2> QED
    BY <1>t, <1>9, <2>1, <2>2, IssueMoves
<1>10. ASSUME NEW i \in Engines, PutArtifact(i)
       PROVE  SnapshotInv'
  <2>1. Moves(i, "notify", task[i]) /\ reports' = reports
    BY <1>t, <1>10, PutMoves
  <2> QED
    BY <1>5, <2>1
<1>11. ASSUME NEW i \in Engines, NotifyIssued(i)
       PROVE  SnapshotInv'
  <2>1. Moves(i, "idle", NoTask) /\ reports' = reports
    BY <1>t, <1>11, LeaveMoves DEF NotifyIssued, outputs
  <2> QED
    BY <1>5, <2>1
<1> QED
  BY <1>t, <1>6, <1>7, <1>8, <1>9, <1>10, <1>11, ReportKinds DEF Core, VersionInv

\* A report binds the figures that were the latest ones after one commit, whatever
\* is committed between its SELECT and its INSERT: it never mixes a computation
\* with what that replaced.
THEOREM Snapshots == Spec => []ReportsAreSnapshots
<1>1. Init => SnapshotInv
  BY DEF Init, SnapshotInv
<1>2. Core /\ SnapshotInv /\ [Next]_vars => SnapshotInv'
  <2>1. Core /\ SnapshotInv /\ Next => SnapshotInv'
    BY SnapshotNext
  <2>2. ASSUME SnapshotInv, UNCHANGED vars
        PROVE  SnapshotInv'
    <3>1. UNCHANGED <<figures, commits, reports, pc, task>>
      BY <2>2 DEF vars, outputs
    <3>2. \A d, F : Snapshot(d, F)' = Snapshot(d, F)
      BY <3>1 DEF Snapshot
    <3> QED
      BY <2>2, <3>1, <3>2 DEF SnapshotInv
  <2> QED
    BY <2>1, <2>2
<1>3. SnapshotInv => ReportsAreSnapshots
  BY DEF SnapshotInv, Snapshot, ReportsAreSnapshots
<1> QED
  BY <1>1, <1>2, <1>3, Typed, PTL DEF Spec

-------------------------------------------------------------------------------
(* Announced reports *)

\* Every step keeps announced reports readable: rows and artifacts are never removed.
LEMMA ReadableNext ==
    ASSUME Core, ReadableInv, Next
    PROVE  ReadableInv'
<1>t. TypeOK /\ DataOK /\ ProcessesOK /\ ReportsGapless
  BY DEF Core, TypeOK
<1>1. ASSUME reports \subseteq reports', DOMAIN artifacts \subseteq DOMAIN artifacts',
             \A x \in issued' : x \in issued \/ \E j \in Engines : /\ pc[j] = "notify"
                                                                    /\ x = <<task[j].dep, task[j].version>>
      PROVE  IssuedIsReadable'
  <2>1. \A d : ReportVersions(d) \subseteq ReportVersions(d)'
    BY <1>1 DEF ReportVersions
  <2>2. ASSUME NEW x \in issued'
        PROVE  x[2] \in ReportVersions(x[1]) /\ x[2] \in DOMAIN artifacts
    <3>1. CASE x \in issued
      BY <3>1 DEF ReadableInv, IssuedIsReadable
    <3>2. ASSUME NEW j \in Engines, pc[j] = "notify", x = <<task[j].dep, task[j].version>>
          PROVE  x[2] \in ReportVersions(x[1]) /\ x[2] \in DOMAIN artifacts
      <4>1. task[j].dep \in Deployments
        BY <1>t, <3>2, TaskFacts DEF Control
      <4>2. task[j].version \in ReportVersions(task[j].dep) /\ task[j].version \in DOMAIN artifacts
        BY <3>2, <4>1 DEF ReadableInv
      <4> QED
        BY <3>2, <4>2
    <3> QED
      BY <1>1, <3>1, <3>2
  <2> QED
    BY <1>1, <2>1, <2>2 DEF IssuedIsReadable
<1>2. ASSUME NEW i \in Engines, NEW s, NEW t, Moves(i, s, t),
             reports \subseteq reports', DOMAIN artifacts \subseteq DOMAIN artifacts',
             IssuedIsReadable',
             \A d \in Deployments : s \in {"put", "notify"} /\ t.dep = d => t.version \in ReportVersions(d)',
             s = "notify" => t.version \in DOMAIN artifacts'
      PROVE  ReadableInv'
  <2>1. /\ pc'[i] = s /\ task'[i] = t
        /\ \A j \in Engines \ {i} : pc'[j] = pc[j] /\ task'[j] = task[j]
    BY <1>t, <1>2, MovedRows
  <2>2. \A d : ReportVersions(d) \subseteq ReportVersions(d)'
    BY <1>2 DEF ReportVersions
  <2>3. ASSUME NEW j \in Engines, NEW d \in Deployments, pc'[j] \in {"put", "notify"}, task'[j].dep = d
        PROVE  task'[j].version \in ReportVersions(d)'
    BY <1>2, <2>1, <2>2, <2>3 DEF ReadableInv
  <2>4. ASSUME NEW j \in Engines, pc'[j] = "notify"
        PROVE  task'[j].version \in DOMAIN artifacts'
    BY <1>2, <2>1, <2>4 DEF ReadableInv
  <2> QED
    BY <1>2, <2>3, <2>4 DEF ReadableInv
<1>3. ASSUME Aside
      PROVE  ReadableInv'
  <2>1. IssuedIsReadable'
    BY <1>1, <1>3 DEF Aside
  <2>2. \A d : ReportVersions(d)' = ReportVersions(d)
    BY <1>3 DEF Aside, ReportVersions
  <2>3. \A j \in Engines : pc'[j] \in {"put", "notify"} => pc[j] = pc'[j] /\ task[j] = task'[j]
    BY <1>3 DEF Aside, ReportSteps
  <2>4. artifacts' = artifacts
    BY <1>3 DEF Aside
  <2> QED
    BY <2>1, <2>2, <2>3, <2>4 DEF ReadableInv
<1>4. ASSUME NEW i \in Engines, NEW s, \E t : Moves(i, s, t), s \notin {"put", "notify"},
             UNCHANGED <<reports, artifacts>>,
             \A x \in issued' : x \in issued \/ \E j \in Engines : /\ pc[j] = "notify"
                                                                    /\ x = <<task[j].dep, task[j].version>>
      PROVE  ReadableInv'
  <2>1. PICK t : Moves(i, s, t)
    BY <1>4
  <2>2. IssuedIsReadable'
    BY <1>1, <1>4
  <2> QED
    BY <1>2, <1>4, <2>1, <2>2
<1>5. ASSUME NEW i \in Engines, SelectFigures(i)
      PROVE  ReadableInv'
  <2>1. UNCHANGED <<reports, artifacts, issued>> /\ \E t : Moves(i, "renumber", t)
    BY <1>t, <1>5, SelectMoves DEF outputs, notices
  <2> QED
    BY <1>4, <2>1
<1>6. ASSUME NEW i \in Engines, NumberReport(i)
      PROVE  ReadableInv'
  <2>1. UNCHANGED <<reports, artifacts, issued>> /\ \E t : Moves(i, "issue", t)
    BY <1>t, <1>6, RenumberMoves DEF outputs, notices
  <2> QED
    BY <1>4, <2>1
<1>7. ASSUME NEW i \in Engines, IssueReport(i)
      PROVE  ReadableInv'
  <2>0. UNCHANGED <<artifacts, issued>>
    BY <1>t, <1>7, IssueMoves DEF notices
  <2>1. CASE Leave(i) /\ reports' = reports
    <3>1. Moves(i, "idle", NoTask)
      BY <1>t, <2>1, LeaveMoves
    <3> QED
      BY <1>4, <2>0, <2>1, <3>1
  <2>2. CASE reports' = reports \cup {NewReport(i)} /\ Moves(i, "put", task[i])
    <3>1. IssuedIsReadable'
      BY <1>1, <2>0, <2>2
    <3>2. NewReport(i).dep = task[i].dep /\ NewReport(i).version = task[i].version
      BY DEF NewReport
    <3>3. \A d \in Deployments : task[i].dep = d => task[i].version \in ReportVersions(d)'
      BY <2>2, <3>2 DEF ReportVersions
    <3> QED
      BY <1>2, <2>0, <2>2, <3>1, <3>3
  <2> QED
    BY <1>t, <1>7, <2>1, <2>2, IssueMoves
<1>8. ASSUME NEW i \in Engines, PutArtifact(i)
      PROVE  ReadableInv'
  <2>1. /\ pc[i] = "put" /\ Moves(i, "notify", task[i]) /\ reports' = reports /\ issued' = issued
        /\ DOMAIN artifacts' = DOMAIN artifacts \cup {task[i].version}
    BY <1>t, <1>8, PutMoves DEF notices
  <2>2. IssuedIsReadable'
    BY <1>1, <2>1
  <2>3. \A d : ReportVersions(d)' = ReportVersions(d)
    BY <2>1 DEF ReportVersions
  <2>4. \A d \in Deployments : task[i].dep = d => task[i].version \in ReportVersions(d)'
    BY <2>1, <2>3 DEF ReadableInv
  <2> QED
    BY <1>2, <2>1, <2>2, <2>4
<1>9. ASSUME NEW i \in Engines, NotifyIssued(i)
      PROVE  ReadableInv'
  <2>1. Moves(i, "idle", NoTask)
    BY <1>t, <1>9, LeaveMoves DEF NotifyIssued
  <2>2. UNCHANGED <<reports, artifacts>> /\ pc[i] = "notify" /\ issued' = issued \cup {<<task[i].dep, task[i].version>>}
    BY <1>9 DEF NotifyIssued, outputs
  <2> QED
    BY <1>4, <2>1, <2>2
<1> QED
  BY <1>t, <1>3, <1>5, <1>6, <1>7, <1>8, <1>9, ReportKinds DEF Core, VersionInv

\* A report that was announced with report.issued can be read, whoever dies in
\* between: its row was committed and its artifact stored before.
THEOREM Readable == Spec => []IssuedIsReadable
<1>1. Init => ReadableInv
  BY DEF Init, ReadableInv, IssuedIsReadable
<1>2. Core /\ ReadableInv /\ [Next]_vars => ReadableInv'
  <2>1. Core /\ ReadableInv /\ Next => ReadableInv'
    BY ReadableNext
  <2>2. ASSUME ReadableInv, UNCHANGED vars
        PROVE  ReadableInv'
    <3>1. UNCHANGED <<artifacts, issued, reports, pc, task>>
      BY <2>2 DEF vars, outputs, notices
    <3>2. \A d : ReportVersions(d)' = ReportVersions(d)
      BY <3>1 DEF ReportVersions
    <3> QED
      BY <2>2, <3>1, <3>2 DEF ReadableInv, IssuedIsReadable
  <2> QED
    BY <2>1, <2>2
<1>3. ReadableInv => IssuedIsReadable
  BY DEF ReadableInv
<1> QED
  BY <1>1, <1>2, <1>3, Typed, PTL DEF Spec

-------------------------------------------------------------------------------
(* Announcements *)

\* The rows of figure k that process i still has to announce.
Due(i, k) == {f \in Pending(i) : <<f.dep, f.claim>> = k}

\* The processes that still have to announce a version of figure k, with that version.
Owed(k) ==
    {x \in Engines \X figures :
        \E f \in Pending(x[1]) : SameVersion(x[2], f) /\ <<f.dep, f.claim>> = k}

\* A step that says nothing and owes nothing more.
Silent ==
    /\ UNCHANGED <<figures, updated, unannounced, lifted>>
    /\ \A j \in Engines : Pending(j)' = Pending(j)

\* What a move changes of the announcements that processes have to make.
LEMMA MovedPending ==
    ASSUME ProcessesOK, NEW i \in Engines, NEW s, NEW t, Moves(i, s, t)
    PROVE  /\ s = "announce" => Pending(i)' = {t.rows[n] : n \in DOMAIN t.rows}
           /\ s = "lift" => Pending(i)' = {t.rows[n] : n \in 2..Len(t.rows)}
           /\ s \notin {"announce", "lift"} => Pending(i)' = {}
           /\ \A j \in Engines \ {i} : Pending(j)' = Pending(j)
<1>1. /\ pc'[i] = s /\ task'[i] = t
      /\ \A j \in Engines \ {i} : pc'[j] = pc[j] /\ task'[j] = task[j]
  BY MovedRows
<1> QED
  BY <1>1 DEF Pending

\* A move between steps that have nothing to announce.
LEMMA SilentBy ==
    ASSUME ProcessesOK, NEW i \in Engines, NEW s, \E t : Moves(i, s, t), s \notin {"announce", "lift"},
           pc[i] \notin {"announce", "lift"}, UNCHANGED <<figures, updated, unannounced, lifted>>
    PROVE  Silent
<1>1. PICK t : Moves(i, s, t)
  OBVIOUS
<1>2. Pending(i)' = {} /\ \A j \in Engines \ {i} : Pending(j)' = Pending(j)
  BY <1>1, MovedPending
<1>3. Pending(i) = {}
  BY DEF Pending
<1> QED
  BY <1>2, <1>3 DEF Silent

\* A process that ends before its commit has nothing to announce.
LEMMA LeaveSilent ==
    ASSUME ProcessesOK, NEW i \in Engines, Leave(i), pc[i] \notin {"announce", "lift"},
           UNCHANGED <<figures, updated, unannounced, lifted>>
    PROVE  Silent
<1>1. Moves(i, "idle", NoTask)
  BY LeaveMoves
<1> QED
  BY <1>1, SilentBy

\* Every step commits, announces, loses announcements, or is silent.
LEMMA NoticeKinds ==
    ASSUME Core, Next
    PROVE  \/ \E i \in Engines : CommitFigures(i) \/ Announce(i) \/ CheckLifted(i) \/ Crash(i)
           \/ Silent
<1>t. DataOK /\ ProcessesOK /\ VersionsGapless /\ ReportsGapless
  BY DEF Core, TypeOK, VersionInv
<1>1. ASSUME NEW i \in Engines, Start(i)
      PROVE  Silent
  <2>1. PICK d \in Deployments : StartCompute(i, d) \/ StartReport(i, d)
    BY <1>1 DEF Start
  <2>2. \E s \in {"measure", "select"} : \E t : Moves(i, s, t)
    BY <1>t, <2>1, StartMoves
  <2>3. UNCHANGED <<figures, updated, unannounced, lifted>> /\ pc[i] = "idle"
    BY <1>t, <2>1, StartMoves DEF outputs, notices
  <2> QED
    BY <1>t, <2>2, <2>3, SilentBy
<1>2. ASSUME NEW i \in Engines, Measure(i)
      PROVE  Silent
  <2>1. UNCHANGED <<figures, updated, unannounced, lifted>> /\ pc[i] = "measure"
    BY <1>t, <1>2, MeasureMoves DEF outputs, notices
  <2>2. NextClaim(i) \in {"measure", "commit"}
    BY DEF NextClaim
  <2>3. \E s \in {"measure", "number", "commit"} : \E t : Moves(i, s, t)
    BY <1>t, <1>2, <2>2, MeasureMoves
  <2> QED
    BY <1>t, <2>1, <2>3, SilentBy
<1>3. ASSUME NEW i \in Engines, NumberFigure(i)
      PROVE  Silent
  <2>1. /\ UNCHANGED <<figures, updated, unannounced, lifted>> /\ pc[i] = "number"
        /\ \E t : Moves(i, "insert", t)
    BY <1>t, <1>3, NumberMoves DEF outputs, notices
  <2> QED
    BY <1>t, <2>1, SilentBy
<1>4. ASSUME NEW i \in Engines, InsertFigure(i)
      PROVE  Silent
  <2>1. UNCHANGED <<figures, updated, unannounced, lifted>> /\ pc[i] = "insert"
    BY <1>t, <1>4, InsertMoves DEF outputs, notices
  <2>2. NextClaim(i) \in {"measure", "commit"}
    BY DEF NextClaim
  <2>3. Leave(i) \/ \E s \in {"measure", "commit"} : \E t : Moves(i, s, t)
    BY <1>t, <1>4, <2>2, InsertMoves
  <2> QED
    BY <1>t, <2>1, <2>3, SilentBy, LeaveSilent
<1>5. ASSUME NEW i \in Engines, SelectFigures(i)
      PROVE  Silent
  <2>1. /\ UNCHANGED <<figures, updated, unannounced, lifted>> /\ pc[i] = "select"
        /\ \E t : Moves(i, "renumber", t)
    BY <1>t, <1>5, SelectMoves DEF outputs, notices
  <2> QED
    BY <1>t, <2>1, SilentBy
<1>6. ASSUME NEW i \in Engines, NumberReport(i)
      PROVE  Silent
  <2>1. /\ UNCHANGED <<figures, updated, unannounced, lifted>> /\ pc[i] = "renumber"
        /\ \E t : Moves(i, "issue", t)
    BY <1>t, <1>6, RenumberMoves DEF outputs, notices
  <2> QED
    BY <1>t, <2>1, SilentBy
<1>7. ASSUME NEW i \in Engines, IssueReport(i)
      PROVE  Silent
  <2>1. /\ UNCHANGED <<figures, updated, unannounced, lifted>> /\ pc[i] = "issue"
        /\ Leave(i) \/ \E t : Moves(i, "put", t)
    BY <1>t, <1>7, IssueMoves DEF notices
  <2> QED
    BY <1>t, <2>1, SilentBy, LeaveSilent
<1>8. ASSUME NEW i \in Engines, PutArtifact(i)
      PROVE  Silent
  <2>1. /\ UNCHANGED <<figures, updated, unannounced, lifted>> /\ pc[i] = "put"
        /\ \E t : Moves(i, "notify", t)
    BY <1>t, <1>8, PutMoves DEF notices
  <2> QED
    BY <1>t, <2>1, SilentBy
<1>9. ASSUME NEW i \in Engines, NotifyIssued(i)
      PROVE  Silent
  <2>1. UNCHANGED <<figures, updated, unannounced, lifted>> /\ pc[i] = "notify" /\ Leave(i)
    BY <1>9 DEF NotifyIssued, outputs
  <2> QED
    BY <1>t, <2>1, LeaveSilent
<1>10. ASSUME Configure
       PROVE  Silent
  BY <1>10, ConfigureFrame DEF Silent, Pending
<1> QED
  BY <1>1, <1>2, <1>3, <1>4, <1>5, <1>6, <1>7, <1>8, <1>9, <1>10 DEF Next, Step

\* What a process has to announce: rows of its deployment, one of each claim.
LEMMA PendingFacts ==
    ASSUME ProcessesOK, NEW i \in Engines
    PROVE  /\ Pending(i) \subseteq FigureRows
           /\ \A f, g \in Pending(i) : f.claim = g.claim => f = g
<1>t. task[i] \in Tasks /\ Control(pc[i], task[i])
  BY TaskFacts
<1>1. task[i].rows \in Seq(FigureRows) /\ DOMAIN task[i].rows = 1..Len(task[i].rows) /\ Len(task[i].rows) \in Nat
  BY <1>t DEF Tasks
<1>2. Pending(i) \subseteq {task[i].rows[n] : n \in DOMAIN task[i].rows}
  <2>1. 2..Len(task[i].rows) \subseteq DOMAIN task[i].rows
    BY <1>1
  <2> QED
    BY <2>1 DEF Pending
<1>3. \A n, m \in DOMAIN task[i].rows : n # m => task[i].rows[n].claim # task[i].rows[m].claim
  BY <1>t DEF Control
<1>4. \A n \in DOMAIN task[i].rows : task[i].rows[n] \in FigureRows
  BY <1>1
<1> QED
  BY <1>2, <1>3, <1>4

\* A process owes the version that it has a row due of.
LEMMA OwedMembers ==
    ASSUME NEW k
    PROVE  /\ \A x \in Owed(k) : x[1] \in Engines /\ x[2] \in figures /\ x = <<x[1], x[2]>>
           /\ \A j \in Engines, g \in figures :
                <<j, g>> \in Owed(k) <=> \E f \in Due(j, k) : SameVersion(g, f)
  BY DEF Owed, Due

\* Finitely many announcements are owed.
LEMMA OwedFinite ==
    ASSUME DataOK, NEW k
    PROVE  IsFiniteSet(Owed(k)) /\ Cardinality(Owed(k)) \in Nat
<1>1. IsFiniteSet(Engines \X figures)
  BY EngineAssumption, FS_Product DEF DataOK
<1>2. Owed(k) \in SUBSET (Engines \X figures)
  BY DEF Owed
<1>3. IsFiniteSet(Owed(k))
  BY <1>1, <1>2, FS_Subset
<1> QED
  BY <1>3, FS_CardinalityType

\* The same after a step.
LEMMA OwedMembersNext ==
    ASSUME NEW k
    PROVE  /\ \A x \in Owed(k)' : x[1] \in Engines /\ x[2] \in figures' /\ x = <<x[1], x[2]>>
           /\ \A j \in Engines, g \in figures' :
                <<j, g>> \in Owed(k)' <=> \E f \in Due(j, k)' : SameVersion(g, f)
<1>1. Owed(k)' = {x \in Engines \X figures' : \E f \in Pending(x[1])' : SameVersion(x[2], f) /\ <<f.dep, f.claim>> = k}
  BY DEF Owed, SameVersion
<1>2. \A j : Due(j, k)' = {f \in Pending(j)' : <<f.dep, f.claim>> = k}
  BY DEF Due
<1> QED
  BY <1>1, <1>2

\* Rows that are due and versions that are committed name each other: what is owed
\* changes only with what is due.
LEMMA OwedSame ==
    ASSUME NEW k, PendingInv, VersionsUnique', figures \subseteq figures',
           \A j \in Engines : Due(j, k)' = Due(j, k)
    PROVE  Owed(k)' = Owed(k)
<1>1. \A j \in Engines : \A f \in Due(j, k) : \E h \in figures : SameVersion(f, h)
  BY DEF PendingInv, Due
<1>2. \A g, h \in figures' : SameVersion(g, h) => g = h
  BY DEF VersionsUnique, SameVersion
<1>3. ASSUME NEW j \in Engines, NEW g
      PROVE  <<j, g>> \in Owed(k)' <=> <<j, g>> \in Owed(k)
  <2>1. ASSUME <<j, g>> \in Owed(k)
        PROVE  <<j, g>> \in Owed(k)'
    <3>1. g \in figures
      BY <2>1, OwedMembers
    <3>2. \E f \in Due(j, k) : SameVersion(g, f)
      BY <2>1, <3>1, OwedMembers
    <3> QED
      BY <3>1, <3>2, OwedMembersNext
  <2>2. ASSUME <<j, g>> \in Owed(k)'
        PROVE  <<j, g>> \in Owed(k)
    <3>1. g \in figures'
      BY <2>2, OwedMembersNext
    <3>2. PICK f \in Due(j, k) : SameVersion(g, f)
      BY <2>2, <3>1, OwedMembersNext
    <3>3. PICK h \in figures : SameVersion(f, h)
      BY <1>1
    <3>4. SameVersion(g, h)
      BY <3>2, <3>3 DEF SameVersion
    <3>5. g = h
      BY <1>2, <3>1, <3>4
    <3> QED
      BY <3>2, <3>5, OwedMembers
  <2> QED
    BY <2>1, <2>2
<1>4. \A x \in Owed(k) : x[1] \in Engines /\ x = <<x[1], x[2]>>
  BY OwedMembers
<1>5. \A x \in Owed(k)' : x[1] \in Engines /\ x = <<x[1], x[2]>>
  BY OwedMembersNext
<1>6. \A x \in Owed(k) : x \in Owed(k)'
  BY <1>3, <1>4
<1>7. \A x \in Owed(k)' : x \in Owed(k)
  BY <1>3, <1>5
<1> QED
  BY <1>6, <1>7

\* A row that is no longer due is one pair less.
LEMMA OwedPaid ==
    ASSUME DataOK, PendingInv, VersionsUnique, NEW k, NEW i \in Engines, figures' = figures,
           \A j \in Engines \ {i} : Due(j, k)' = Due(j, k),
           NEW r, Due(i, k) = {r}, Due(i, k)' = {}
    PROVE  Cardinality(Owed(k)') = Cardinality(Owed(k)) - 1
<1>1. PICK h \in figures : SameVersion(r, h)
  BY DEF PendingInv, Due
<1>2. <<i, h>> \in Owed(k)
  <2>1. SameVersion(h, r)
    BY <1>1 DEF SameVersion
  <2> QED
    BY <2>1, OwedMembers
<1>3. ASSUME NEW j \in Engines, NEW g \in figures
      PROVE  <<j, g>> \in Owed(k)' <=> <<j, g>> \in Owed(k) /\ <<j, g>> # <<i, h>>
  <2>1. CASE j # i
    BY <2>1, OwedMembers, OwedMembersNext
  <2>2. CASE j = i
    <3>1. <<j, g>> \notin Owed(k)'
      BY <2>2, OwedMembersNext
    <3>2. <<j, g>> \in Owed(k) => g = h
      <4>1. SameVersion(g, r) => SameVersion(g, h)
        BY <1>1 DEF SameVersion
      <4>2. SameVersion(g, h) => g = h
        BY DEF VersionsUnique
      <4> QED
        BY <2>2, <4>1, <4>2, OwedMembers
    <3> QED
      BY <2>2, <3>1, <3>2
  <2> QED
    BY <2>1, <2>2
<1>4. Owed(k)' = Owed(k) \ {<<i, h>>}
  <2>1. \A x \in Owed(k) : x[1] \in Engines /\ x[2] \in figures /\ x = <<x[1], x[2]>>
    BY OwedMembers
  <2>2. \A x \in Owed(k)' : x[1] \in Engines /\ x[2] \in figures /\ x = <<x[1], x[2]>>
    BY OwedMembersNext
  <2>3. \A x \in Owed(k) : x # <<i, h>> => x \in Owed(k)'
    BY <1>3, <2>1
  <2>4. \A x \in Owed(k)' : x \in Owed(k) /\ x # <<i, h>>
    BY <1>3, <2>2
  <2> QED
    BY <2>3, <2>4
<1> QED
  BY <1>2, <1>4, OwedFinite, FS_RemoveElement

\* A row that becomes due, with the version that is committed, is one pair more.
LEMMA OwedMore ==
    ASSUME DataOK, PendingInv, VersionsUnique', NEW k, NEW i \in Engines, figures \subseteq figures',
           \A j \in Engines \ {i} : Due(j, k)' = Due(j, k),
           NEW r, Due(i, k) = {}, Due(i, k)' = {r}, NEW h \in figures', SameVersion(h, r)
    PROVE  Cardinality(Owed(k)') = Cardinality(Owed(k)) + 1
<1>1. \A j \in Engines : \A f \in Due(j, k) : \E g \in figures : SameVersion(f, g)
  BY DEF PendingInv, Due
<1>2. \A g, e \in figures' : SameVersion(g, e) => g = e
  BY DEF VersionsUnique, SameVersion
<1>3. <<i, h>> \in Owed(k)' /\ <<i, h>> \notin Owed(k)
  <2>1. <<i, h>> \in Owed(k)'
    BY OwedMembersNext
  <2>2. <<i, h>> \notin Owed(k)
    <3>1. \A x \in Owed(k) : x[1] # i
      <4> SUFFICES ASSUME NEW x \in Owed(k), x[1] = i
                   PROVE  FALSE
        OBVIOUS
      <4>1. x[2] \in figures /\ x = <<i, x[2]>>
        BY OwedMembers
      <4>2. \E f \in Due(i, k) : SameVersion(x[2], f)
        BY <4>1, OwedMembers
      <4> QED
        BY <4>2
    <3> QED
      BY <3>1
  <2> QED
    BY <2>1, <2>2
<1>4. ASSUME NEW j \in Engines, NEW g
      PROVE  <<j, g>> \in Owed(k)' <=> <<j, g>> \in Owed(k) \/ <<j, g>> = <<i, h>>
  <2>1. ASSUME <<j, g>> \in Owed(k)
        PROVE  <<j, g>> \in Owed(k)'
    <3>1. g \in figures
      BY <2>1, OwedMembers
    <3>2. \E f \in Due(j, k) : SameVersion(g, f)
      BY <2>1, <3>1, OwedMembers
    <3>3. j # i
      BY <3>2
    <3> QED
      BY <3>1, <3>2, <3>3, OwedMembersNext
  <2>2. ASSUME <<j, g>> \in Owed(k)', j # i
        PROVE  <<j, g>> \in Owed(k)
    <3>1. g \in figures'
      BY <2>2, OwedMembersNext
    <3>2. PICK f \in Due(j, k) : SameVersion(g, f)
      BY <2>2, <3>1, OwedMembersNext
    <3>3. PICK e \in figures : SameVersion(f, e)
      BY <1>1
    <3>4. SameVersion(g, e)
      BY <3>2, <3>3 DEF SameVersion
    <3>5. g = e
      BY <1>2, <3>1, <3>4
    <3> QED
      BY <3>2, <3>5, OwedMembers
  <2>3. ASSUME <<j, g>> \in Owed(k)', j = i
        PROVE  g = h
    <3>1. g \in figures' /\ SameVersion(g, r)
      BY <2>3, OwedMembersNext
    <3>2. SameVersion(g, h)
      BY <3>1 DEF SameVersion
    <3> QED
      BY <1>2, <3>1, <3>2
  <2> QED
    BY <1>3, <2>1, <2>2, <2>3
<1>5. Owed(k)' = Owed(k) \cup {<<i, h>>}
  <2>1. \A x \in Owed(k) : x[1] \in Engines /\ x = <<x[1], x[2]>>
    BY OwedMembers
  <2>2. \A x \in Owed(k)' : x[1] \in Engines /\ x = <<x[1], x[2]>>
    BY OwedMembersNext
  <2>3. \A x \in Owed(k) : x \in Owed(k)'
    BY <1>4, <2>1
  <2>4. \A x \in Owed(k)' : x \in Owed(k) \/ x = <<i, h>>
    BY <1>4, <2>2
  <2> QED
    BY <1>3, <2>3, <2>4
<1> QED
  BY <1>3, <1>5, OwedFinite, FS_AddElement

\* Every version is announced, lost, or owed by exactly one process; and what is
\* said to be lifted was refused and then computed.
AccountInv ==
    \A d \in Deployments, c \in ClaimNames :
        Newest(Versions(d, c))
            = updated[<<d, c>>] + unannounced[<<d, c>>] + Cardinality(Owed(<<d, c>>))

LiftedInv ==
    \A d \in Deployments, c \in ClaimNames : lifted[<<d, c>>] > 0 =>
        \E f, g \in figures :
            /\ f.dep = d /\ f.claim = c /\ g.dep = d /\ g.claim = c
            /\ g.version = f.version + 1
            /\ f.fig.status = "refused" /\ g.fig.status = "computed"

\* A figure is one of those that announcements are counted for.
LEMMA KeptFacts ==
    ASSUME DataOK, NEW d \in Deployments, NEW c \in ClaimNames
    PROVE  /\ <<d, c>> \in Kept
           /\ updated[<<d, c>>] \in Nat /\ unannounced[<<d, c>>] \in Nat
           /\ Cardinality(Owed(<<d, c>>)) \in Nat
<1>1. <<d, c>> \in Kept
  BY ClaimFacts
<1> QED
  BY <1>1, OwedFinite DEF DataOK

\* What is due after a step that changes only what process i has to announce.
LEMMA DueOthers ==
    ASSUME ProcessesOK, NEW i \in Engines, NEW s, NEW t, Moves(i, s, t)
    PROVE  \A k : \A j \in Engines \ {i} : Due(j, k)' = Due(j, k)
<1>1. \A j \in Engines \ {i} : Pending(j)' = Pending(j)
  BY MovedPending
<1> QED
  BY <1>1 DEF Due

\* At the announcement the head of the rows stops being due.
LEMMA AnnounceDue ==
    ASSUME ProcessesOK, NEW i \in Engines, Announce(i)
    PROVE  /\ \A k : k # Key(i) => Due(i, k)' = Due(i, k)
           /\ \A k : k = Key(i) => \E r : Due(i, k) = {r} /\ Due(i, k)' = {}
           /\ Pending(i)' \subseteq Pending(i)
<1> DEFINE R == task[i].rows
           r == Head(R)
<1>t. task[i] \in Tasks /\ Control(pc[i], task[i])
  BY TaskFacts
<1>1. pc[i] = "announce" /\ Moves(i, "lift", task[i])
  BY AnnounceMoves
<1>2. R \in Seq(FigureRows) /\ R # <<>>
  BY <1>t, <1>1 DEF Tasks, Control
<1>3. Len(R) \in Nat \ {0} /\ DOMAIN R = 1..Len(R) /\ r = R[1]
  BY <1>2, EmptySeq
<1>4. /\ \A n \in DOMAIN R : R[n].dep = task[i].dep
      /\ \A n, m \in DOMAIN R : n # m => R[n].claim # R[m].claim
  BY <1>t DEF Control
<1>5. Pending(i) = {R[n] : n \in DOMAIN R}
  BY <1>1 DEF Pending
<1>6. Pending(i)' = {R[n] : n \in 2..Len(R)}
  BY <1>1, MovedPending
<1>7. Key(i) = <<task[i].dep, r.claim>>
  BY DEF Key
<1> HIDE DEF R, r
<1>8. Pending(i) = Pending(i)' \cup {r}
  <2>1. DOMAIN R = (2..Len(R)) \cup {1}
    BY <1>3
  <2> QED
    BY <1>3, <1>5, <1>6, <2>1
<1>9. \A f \in Pending(i)' : f.claim # r.claim
  <2>1. \A n \in 2..Len(R) : n \in DOMAIN R /\ 1 \in DOMAIN R /\ n # 1
    BY <1>3
  <2> QED
    BY <1>3, <1>4, <1>6, <2>1
<1>10. r.dep = task[i].dep
  BY <1>3, <1>4
<1>11. ASSUME NEW k, k # Key(i)
       PROVE  Due(i, k)' = Due(i, k)
  BY <1>7, <1>8, <1>10, <1>11 DEF Due
<1>12. ASSUME NEW k, k = Key(i)
       PROVE  Due(i, k) = {r} /\ Due(i, k)' = {}
  <2>1. \A f \in Pending(i)' : <<f.dep, f.claim>> # k
    BY <1>7, <1>9, <1>12
  <2>2. <<r.dep, r.claim>> = k
    BY <1>7, <1>10, <1>12
  <2> QED
    BY <1>8, <2>1, <2>2 DEF Due
<1> QED
  BY <1>8, <1>11, <1>12

\* The announcement that follows the check of the next figure was due before.
LEMMA LiftDue ==
    ASSUME ProcessesOK, NEW i \in Engines, CheckLifted(i)
    PROVE  \A j \in Engines : Pending(j)' = Pending(j)
<1> DEFINE R == task[i].rows
<1>t. task[i] \in Tasks /\ Control(pc[i], task[i])
  BY TaskFacts
<1>1. pc[i] = "lift"
  BY DEF CheckLifted
<1>2. R \in Seq(FigureRows) /\ Len(R) \in Nat
  BY <1>t DEF Tasks
<1>3. Pending(i) = {R[n] : n \in 2..Len(R)}
  BY <1>1 DEF Pending
<1>4. CASE Len(R) <= 1 /\ Leave(i)
  <2>1. Moves(i, "idle", NoTask)
    BY <1>4, LeaveMoves
  <2>2. Pending(i)' = {} /\ \A j \in Engines \ {i} : Pending(j)' = Pending(j)
    BY <2>1, MovedPending
  <2>3. 2..Len(R) = {}
    BY <1>2, <1>4
  <2> QED
    BY <1>3, <2>2, <2>3
<1>5. CASE Len(R) > 1 /\ Moves(i, "announce", [task[i] EXCEPT !.rows = Tail(R)])
  <2> DEFINE r == Tail(R)
             t == [task[i] EXCEPT !.rows = r]
  <2>1. Moves(i, "announce", t)
    BY <1>5
  <2>2. t.rows = r
    <3> HIDE DEF r
    <3> QED
      BY <1>t DEF Tasks
  <2>3. /\ r \in Seq(FigureRows) /\ Len(r) = Len(R) - 1
        /\ \A n \in 1..Len(r) : r[n] = R[n + 1]
    <3>1. R # <<>>
      BY <1>2, <1>5, EmptySeq
    <3> QED
      BY <1>2, <3>1, HeadTailProperties
  <2> HIDE DEF r, t
  <2>4. Pending(i)' = {r[n] : n \in DOMAIN r} /\ \A j \in Engines \ {i} : Pending(j)' = Pending(j)
    BY <2>1, <2>2, MovedPending
  <2> HIDE DEF R
  <2>5. DOMAIN r = 1..(Len(R) - 1)
    BY <2>3
  <2>6. \A n \in DOMAIN r : n + 1 \in 2..Len(R) /\ r[n] = R[n + 1]
    BY <1>2, <2>3, <2>5
  <2>7. \A n \in 2..Len(R) : n - 1 \in DOMAIN r /\ r[n - 1] = R[n]
    <3> SUFFICES ASSUME NEW n \in 2..Len(R)
                 PROVE  n - 1 \in DOMAIN r /\ r[n - 1] = R[n]
      OBVIOUS
    <3>1. n - 1 \in DOMAIN r /\ (n - 1) + 1 = n
      BY <1>2, <2>5
    <3> QED
      BY <2>6, <3>1
  <2>8. {r[n] : n \in DOMAIN r} = {R[n] : n \in 2..Len(R)}
    <3>1. \A x \in {r[n] : n \in DOMAIN r} : x \in {R[n] : n \in 2..Len(R)}
      BY <2>6
    <3>2. \A x \in {R[n] : n \in 2..Len(R)} : x \in {r[n] : n \in DOMAIN r}
      BY <2>7
    <3> QED
      BY <3>1, <3>2
  <2> QED
    BY <1>3, <2>4, <2>8
<1> QED
  BY <1>4, <1>5, LiftMoves

\* Rows that are pending are committed.
LEMMA PendingNext ==
    ASSUME Core, PendingInv, Next
    PROVE  PendingInv'
<1>t. ProcessesOK /\ TypeOK
  BY DEF Core, TypeOK
<1>1. figures \subseteq figures'
  BY FigureHistory
<1>2. ASSUME \A j \in Engines : Pending(j)' \subseteq Pending(j)
      PROVE  PendingInv'
  BY <1>1, <1>2 DEF PendingInv, SameVersion
<1>3. ASSUME NEW i \in Engines, CommitFigures(i)
      PROVE  PendingInv'
  <2>1. pc[i] = "commit" /\ Moves(i, "announce", task[i]) /\ figures' = figures \cup Committed(i)
    BY <1>t, <1>3, CommitMoves DEF CommitFigures, Committed
  <2>2. /\ Pending(i)' = {task[i].rows[n] : n \in DOMAIN task[i].rows}
        /\ \A j \in Engines \ {i} : Pending(j)' = Pending(j)
    BY <1>t, <2>1, MovedPending
  <2>3. \A f \in Pending(i)' : \E g \in Committed(i) : SameVersion(g, f)
    BY <1>t, <2>1, <2>2, CommittedFacts
  <2>4. \A f \in Pending(i)' : \E g \in figures' : SameVersion(f, g)
    BY <2>1, <2>3 DEF SameVersion
  <2>5. \A j \in Engines \ {i} : \A f \in Pending(j)' : \E g \in figures' : SameVersion(f, g)
    BY <1>1, <2>2 DEF PendingInv
  <2> QED
    BY <2>4, <2>5 DEF PendingInv, SameVersion
<1>4. ASSUME NEW i \in Engines, Announce(i)
      PROVE  PendingInv'
  <2>1. Moves(i, "lift", task[i])
    BY <1>t, <1>4, AnnounceMoves
  <2>2. \A j \in Engines \ {i} : Pending(j)' = Pending(j)
    BY <1>t, <2>1, MovedPending
  <2>3. Pending(i)' \subseteq Pending(i)
    BY <1>t, <1>4, AnnounceDue
  <2> QED
    BY <1>2, <2>2, <2>3
<1>5. ASSUME NEW i \in Engines, CheckLifted(i)
      PROVE  PendingInv'
  BY <1>t, <1>2, <1>5, LiftDue
<1>6. ASSUME NEW i \in Engines, Crash(i)
      PROVE  PendingInv'
  <2>1. Moves(i, "idle", NoTask)
    BY <1>t, <1>6, LeaveMoves DEF Crash
  <2>2. Pending(i)' = {} /\ \A j \in Engines \ {i} : Pending(j)' = Pending(j)
    BY <1>t, <2>1, MovedPending
  <2> QED
    BY <1>2, <2>2
<1>7. ASSUME Silent
      PROVE  PendingInv'
  BY <1>2, <1>7 DEF Silent
<1> QED
  BY <1>3, <1>4, <1>5, <1>6, <1>7, NoticeKinds

\* Every version keeps being announced, lost or owed once.
LEMMA AccountNext ==
    ASSUME Core, Core', PendingInv, AccountInv, Next
    PROVE  AccountInv'
<1>t. DataOK /\ ProcessesOK /\ TypeOK /\ VersionInv /\ VersionsUnique /\ VersionsUnique'
  BY DEF Core, TypeOK, VersionInv
<1> SUFFICES ASSUME NEW d \in Deployments, NEW c \in ClaimNames
             PROVE  Newest(Versions(d, c))'
                        = updated'[<<d, c>>] + unannounced'[<<d, c>>] + Cardinality(Owed(<<d, c>>)')
  BY DEF AccountInv
<1> DEFINE k == <<d, c>>
<1>1. /\ k \in Kept /\ updated[k] \in Nat /\ unannounced[k] \in Nat /\ Cardinality(Owed(k)) \in Nat
  BY <1>t, KeptFacts
<1>2. Newest(Versions(d, c)) = updated[k] + unannounced[k] + Cardinality(Owed(k))
  BY DEF AccountInv
<1>3. figures' = figures => Newest(Versions(d, c))' = Newest(Versions(d, c))
  <2>1. figures' = figures => Versions(d, c)' = Versions(d, c)
    BY DEF Versions
  <2> QED
    BY <2>1 DEF Newest, Max
<1>p. updated \in [Kept -> Nat] /\ unannounced \in [Kept -> Nat]
  BY <1>t DEF DataOK
<1> HIDE DEF k
<1>4. ASSUME NEW i \in Engines, CommitFigures(i)
      PROVE  Newest(Versions(d, c))' = updated'[k] + unannounced'[k] + Cardinality(Owed(k)')
  <2>1. pc[i] = "commit" /\ Moves(i, "announce", task[i]) /\ figures' = figures \cup Committed(i)
    BY <1>t, <1>4, CommitMoves DEF CommitFigures, Committed
  <2>2. updated' = updated /\ unannounced' = unannounced
    BY <1>t, <1>4, CommitMoves DEF notices
  <2>3. \A j \in Engines \ {i} : Due(j, k)' = Due(j, k)
    BY <1>t, <2>1, DueOthers
  <2>4. Due(i, k) = {}
    BY <2>1 DEF Due, Pending
  <2>5. Pending(i)' = {task[i].rows[n] : n \in DOMAIN task[i].rows}
    BY <1>t, <2>1, MovedPending
  <2>6. /\ OpenRows(i) = Pending(i)'
        /\ \A g \in Committed(i) : \E r \in OpenRows(i) : SameVersion(g, r)
        /\ \A r \in OpenRows(i) : \E g \in Committed(i) : SameVersion(g, r)
    BY <1>t, <2>1, <2>5, CommittedFacts
  <2>7. \A f, g \in Pending(i)' : f.claim = g.claim => f = g
    <3>1. Control(pc[i], task[i])
      BY <1>t, TaskFacts
    <3>2. \A n, m \in DOMAIN task[i].rows : n # m => task[i].rows[n].claim # task[i].rows[m].claim
      BY <3>1 DEF Control
    <3> QED
      BY <2>5, <3>2
  <2>8. Due(i, k)' = {f \in Pending(i)' : f.dep = d /\ f.claim = c}
    BY DEF Due, k
  <2>9. CASE \E g \in Committed(i) : g.dep = d /\ g.claim = c
    <3>1. PICK g \in Committed(i) : g.dep = d /\ g.claim = c
      BY <2>9
    <3>2. PICK r \in Pending(i)' : SameVersion(g, r)
      BY <2>6
    <3>3. r.dep = d /\ r.claim = c
      BY <3>1, <3>2 DEF SameVersion
    <3>4. Due(i, k)' = {r}
      BY <2>7, <2>8, <3>3
    <3>5. g \in figures' /\ figures \subseteq figures'
      BY <2>1
    <3>6. Cardinality(Owed(k)') = Cardinality(Owed(k)) + 1
      BY <1>t, <2>3, <2>4, <3>2, <3>4, <3>5, OwedMore
    <3>7. Newest(Versions(d, c))' = Newest(Versions(d, c)) + 1
      BY <1>t, <1>4, <2>9, CommitNumbers
    <3> QED
      BY <1>1, <1>2, <2>2, <3>6, <3>7
  <2>10. CASE ~\E g \in Committed(i) : g.dep = d /\ g.claim = c
    <3>1. Due(i, k)' = {}
      BY <2>6, <2>8, <2>10 DEF SameVersion
    <3>2. \A j \in Engines : Due(j, k)' = Due(j, k)
      BY <2>3, <2>4, <3>1
    <3>3. Owed(k)' = Owed(k)
      BY <1>t, <2>1, <3>2, OwedSame
    <3>4. Versions(d, c)' = Versions(d, c)
      BY <1>t, <1>4, <2>10, CommitNumbers
    <3>5. Newest(Versions(d, c))' = Newest(Versions(d, c))
      BY <3>4 DEF Newest, Max
    <3> QED
      BY <1>2, <2>2, <3>3, <3>5
  <2> QED
    BY <2>9, <2>10
<1>5. ASSUME NEW i \in Engines, Announce(i)
      PROVE  Newest(Versions(d, c))' = updated'[k] + unannounced'[k] + Cardinality(Owed(k)')
  <2>1. Moves(i, "lift", task[i]) /\ Key(i) \in Kept
    BY <1>t, <1>5, AnnounceMoves
  <2>2. /\ figures' = figures /\ unannounced' = unannounced
        /\ updated' = [updated EXCEPT ![Key(i)] = @ + 1]
    BY <1>5 DEF Announce, outputs
  <2>3. \A j \in Engines \ {i} : Due(j, k)' = Due(j, k)
    BY <1>t, <2>1, DueOthers
  <2>4. CASE k = Key(i)
    <3>1. PICK r : Due(i, k) = {r} /\ Due(i, k)' = {}
      BY <1>t, <1>5, <2>4, AnnounceDue
    <3>2. Cardinality(Owed(k)') = Cardinality(Owed(k)) - 1
      BY <1>t, <2>2, <2>3, <3>1, OwedPaid
    <3>3. updated'[k] = updated[k] + 1
      BY <1>p, <1>1, <2>2, <2>4
    <3> QED
      BY <1>1, <1>2, <1>3, <2>2, <3>2, <3>3
  <2>5. CASE k # Key(i)
    <3>1. \A j \in Engines : Due(j, k)' = Due(j, k)
      BY <1>t, <1>5, <2>3, <2>5, AnnounceDue
    <3>2. Owed(k)' = Owed(k)
      BY <1>t, <2>2, <3>1, OwedSame
    <3>3. updated'[k] = updated[k]
      BY <1>p, <1>1, <2>2, <2>5
    <3> QED
      BY <1>2, <1>3, <2>2, <3>2, <3>3
  <2> QED
    BY <2>4, <2>5
<1>6. ASSUME NEW i \in Engines, Crash(i)
      PROVE  Newest(Versions(d, c))' = updated'[k] + unannounced'[k] + Cardinality(Owed(k)')
  <2>1. Moves(i, "idle", NoTask)
    BY <1>t, <1>6, LeaveMoves DEF Crash
  <2>2. /\ figures' = figures /\ updated' = updated
        /\ unannounced'[k] = unannounced[k] + Cardinality(Due(i, k))
    BY <1>1, <1>6 DEF Crash, outputs, Due
  <2>3. \A j \in Engines \ {i} : Due(j, k)' = Due(j, k)
    BY <1>t, <2>1, DueOthers
  <2>4. Due(i, k)' = {}
    <3>1. Pending(i)' = {}
      BY <1>t, <2>1, MovedPending
    <3> QED
      BY <3>1 DEF Due
  <2>5. CASE Due(i, k) = {}
    <3>1. \A j \in Engines : Due(j, k)' = Due(j, k)
      BY <2>3, <2>4, <2>5
    <3>2. Owed(k)' = Owed(k)
      BY <1>t, <2>2, <3>1, OwedSame
    <3>3. unannounced'[k] = unannounced[k]
      BY <1>1, <2>2, <2>5, FS_EmptySet
    <3> QED
      BY <1>2, <1>3, <2>2, <3>2, <3>3
  <2>6. CASE Due(i, k) # {}
    <3>1. PICK r \in Due(i, k) : TRUE
      BY <2>6
    <3>2. Due(i, k) = {r}
      <4>1. \A f, g \in Pending(i) : f.claim = g.claim => f = g
        BY <1>t, PendingFacts
      <4> QED
        BY <3>1, <4>1 DEF Due, k
    <3>3. Cardinality(Owed(k)') = Cardinality(Owed(k)) - 1
      BY <1>t, <2>2, <2>3, <2>4, <3>2, OwedPaid
    <3>4. unannounced'[k] = unannounced[k] + 1
      BY <2>2, <3>2, FS_Singleton
    <3>5. Newest(Versions(d, c))' = Newest(Versions(d, c)) /\ updated'[k] = updated[k]
      BY <1>3, <2>2
    <3> QED
      BY <1>1, <1>2, <3>3, <3>4, <3>5
  <2> QED
    BY <2>5, <2>6
<1>7. ASSUME UNCHANGED <<figures, updated, unannounced>>, \A j \in Engines : Pending(j)' = Pending(j)
      PROVE  Newest(Versions(d, c))' = updated'[k] + unannounced'[k] + Cardinality(Owed(k)')
  <2>1. \A j \in Engines : Due(j, k)' = Due(j, k)
    BY <1>7 DEF Due
  <2>2. Owed(k)' = Owed(k)
    BY <1>t, <1>7, <2>1, OwedSame
  <2> QED
    BY <1>2, <1>3, <1>7, <2>2
<1>8. ASSUME NEW i \in Engines, CheckLifted(i)
      PROVE  Newest(Versions(d, c))' = updated'[k] + unannounced'[k] + Cardinality(Owed(k)')
  <2>1. UNCHANGED <<figures, updated, unannounced>>
    BY <1>8 DEF CheckLifted, outputs
  <2>2. \A j \in Engines : Pending(j)' = Pending(j)
    BY <1>t, <1>8, LiftDue
  <2> QED
    BY <1>7, <2>1, <2>2
<1>9. CASE Silent
  <2>1. UNCHANGED <<figures, updated, unannounced>> /\ \A j \in Engines : Pending(j)' = Pending(j)
    BY <1>9 DEF Silent
  <2> QED
    BY <1>7, <2>1 DEF k
<1> QED
  BY <1>4, <1>5, <1>6, <1>8, <1>9, NoticeKinds DEF k

\* A figure of a version, as the check reads it.
LEMMA StatusRow ==
    ASSUME NEW d, NEW c, NEW v \in Versions(d, c)
    PROVE  \E f \in figures : f.dep = d /\ f.claim = c /\ f.version = v /\ f.fig.status = StatusOf(d, c, v)
<1>1. \E f \in figures : f.dep = d /\ f.claim = c /\ f.version = v
  BY DEF Versions
<1> DEFINE f == CHOOSE g \in figures : g.dep = d /\ g.claim = c /\ g.version = v
<1>2. f \in figures /\ f.dep = d /\ f.claim = c /\ f.version = v
  BY <1>1
<1> QED
  BY <1>2 DEF StatusOf

\* Every step keeps the proof of a lifted refusal: figures are never removed.
LEMMA LiftedNext ==
    ASSUME Core, LiftedInv, Next
    PROVE  LiftedInv'
<1>t. DataOK /\ ProcessesOK /\ VersionsGapless
  BY DEF Core, TypeOK, VersionInv
<1>1. figures \subseteq figures'
  BY FigureHistory
<1>2. ASSUME lifted' = lifted
      PROVE  LiftedInv'
  BY <1>1, <1>2 DEF LiftedInv
<1>3. ASSUME NEW i \in Engines, CheckLifted(i)
      PROVE  LiftedInv'
  <2> DEFINE e == Key(i)
             n == Newest(Versions(e[1], e[2]))
  <2>1. CASE lifted' = lifted
    BY <1>2, <2>1
  <2>2. CASE lifted' # lifted
    <3>1. e \in Kept
      BY <1>t, <1>3, LiftMoves
    <3>2. PICK d \in Deployments, c \in ClaimNames : e = <<d, c>>
      BY <3>1, ClaimFacts
    <3>3. /\ lifted' = [lifted EXCEPT ![e] = @ + 1] /\ n >= 2
          /\ StatusOf(e[1], e[2], n) = "computed" /\ StatusOf(e[1], e[2], n - 1) = "refused"
      BY <1>3, <2>2 DEF CheckLifted
    <3>4. e[1] = d /\ e[2] = c
      BY <3>2
    <3>5. n \in Nat /\ Versions(d, c) = 1..n
      BY <1>t, <3>4 DEF VersionsGapless
    <3> HIDE DEF n, e
    <3>6. n \in Versions(d, c) /\ n - 1 \in Versions(d, c)
      BY <3>3, <3>5
    <3>7. PICK g \in figures : g.dep = d /\ g.claim = c /\ g.version = n /\ g.fig.status = "computed"
      BY <3>3, <3>4, <3>6, StatusRow
    <3>8. PICK f \in figures : f.dep = d /\ f.claim = c /\ f.version = n - 1 /\ f.fig.status = "refused"
      BY <3>3, <3>4, <3>6, StatusRow
    <3>9. g.version = f.version + 1
      BY <3>5, <3>7, <3>8
    <3>10. ASSUME NEW a \in Deployments, NEW b \in ClaimNames, <<a, b>> # e, lifted'[<<a, b>>] > 0
           PROVE  lifted[<<a, b>>] > 0
      <4>1. <<a, b>> \in Kept
        BY ClaimFacts
      <4> QED
        BY <1>t, <3>3, <3>10, <4>1 DEF DataOK
    <3>11. ASSUME NEW a \in Deployments, NEW b \in ClaimNames, lifted'[<<a, b>>] > 0
           PROVE  \E p, q \in figures :
                    /\ p.dep = a /\ p.claim = b /\ q.dep = a /\ q.claim = b
                    /\ q.version = p.version + 1
                    /\ p.fig.status = "refused" /\ q.fig.status = "computed"
      <4>1. CASE <<a, b>> = e
        <5>1. a = d /\ b = c
          BY <3>2, <4>1
        <5> QED
          BY <3>7, <3>8, <3>9, <5>1
      <4>2. CASE <<a, b>> # e
        BY <3>10, <3>11, <4>2 DEF LiftedInv
      <4> QED
        BY <4>1, <4>2
    <3> QED
      BY <1>1, <3>11 DEF LiftedInv
  <2> QED
    BY <2>1, <2>2
<1>4. ASSUME NEW i \in Engines, CommitFigures(i) \/ Announce(i) \/ Crash(i)
      PROVE  lifted' = lifted
  BY <1>4 DEF CommitFigures, Announce, Crash, notices
<1>5. Silent => lifted' = lifted
  BY DEF Silent
<1> QED
  BY <1>2, <1>3, <1>4, <1>5, NoticeKinds

\* Announcements are owed and made exactly once: every committed version of a figure
\* is announced with figure.updated, is still to be announced by the one process
\* that wrote it, or was lost with that process; and refusal.lifted is said only of a
\* figure that was refused and then computed, although other computations commit
\* between the announcement and the check.
THEOREM Accounted == Spec => []UpdatesAccounted
<1> DEFINE A == PendingInv /\ AccountInv /\ LiftedInv
<1>1. Init => A
  <2> SUFFICES ASSUME Init
               PROVE  A
    OBVIOUS
  <2>1. \A i \in Engines : Pending(i) = {}
    BY DEF Init, Pending
  <2>2. \A d, c : Versions(d, c) = {}
    BY DEF Init, Versions
  <2>3. \A k : Owed(k) = {}
    BY DEF Init, Owed
  <2>4. Newest({}) = 0 /\ Cardinality({}) = 0
    BY FS_EmptySet DEF Newest
  <2>5. \A d \in Deployments, c \in ClaimNames : <<d, c>> \in Kept
    BY ClaimFacts
  <2>6. \A d \in Deployments, c \in ClaimNames :
            updated[<<d, c>>] = 0 /\ unannounced[<<d, c>>] = 0 /\ lifted[<<d, c>>] = 0
    BY <2>5 DEF Init
  <2>7. PendingInv
    BY <2>1 DEF PendingInv
  <2>8. AccountInv
    <3> SUFFICES ASSUME NEW d \in Deployments, NEW c \in ClaimNames
                 PROVE  Newest(Versions(d, c))
                            = updated[<<d, c>>] + unannounced[<<d, c>>] + Cardinality(Owed(<<d, c>>))
      BY DEF AccountInv
    <3>1. Newest(Versions(d, c)) = 0 /\ Cardinality(Owed(<<d, c>>)) = 0
      BY <2>2, <2>3, <2>4
    <3> QED
      BY <2>6, <3>1
  <2>9. LiftedInv
    BY <2>6 DEF LiftedInv
  <2> QED
    BY <2>7, <2>8, <2>9
<1>2. Core /\ Core' /\ A /\ [Next]_vars => A'
  <2>1. Core /\ Core' /\ A /\ Next => A'
    BY PendingNext, AccountNext, LiftedNext
  <2>2. ASSUME A, UNCHANGED vars
        PROVE  A'
    <3>1. UNCHANGED <<figures, updated, unannounced, lifted, pc, task>>
      BY <2>2 DEF vars, outputs, notices
    <3>2. \A i : Pending(i)' = Pending(i)
      BY <3>1 DEF Pending
    <3>3. \A d, c : Versions(d, c)' = Versions(d, c)
      BY <3>1 DEF Versions
    <3>4. \A k : Owed(k)' = Owed(k)
      BY <3>1, <3>2 DEF Owed, SameVersion
    <3>5. PendingInv'
      BY <2>2, <3>1, <3>2 DEF PendingInv, SameVersion
    <3>6. AccountInv'
      BY <2>2, <3>1, <3>3, <3>4 DEF AccountInv
    <3>7. LiftedInv'
      BY <2>2, <3>1 DEF LiftedInv
    <3> QED
      BY <3>5, <3>6, <3>7
  <2> QED
    BY <2>1, <2>2
<1>3. Core /\ A => UpdatesAccounted
  <2> SUFFICES ASSUME Core, A, NEW k \in Kept
               PROVE  /\ Cardinality(Versions(k[1], k[2])) = updated[k] + unannounced[k] + Cardinality(Owed(k))
                      /\ lifted[k] > 0 => \E n \in Versions(k[1], k[2]) :
                            /\ n + 1 \in Versions(k[1], k[2])
                            /\ StatusOf(k[1], k[2], n) = "refused"
                            /\ StatusOf(k[1], k[2], n + 1) = "computed"
    BY DEF UpdatesAccounted, Owed
  <2>1. PICK d \in Deployments, c \in ClaimNames : k = <<d, c>>
    BY ClaimFacts
  <2>2. k[1] = d /\ k[2] = c
    BY <2>1
  <2>3. Cardinality(Versions(d, c)) = updated[k] + unannounced[k] + Cardinality(Owed(k))
    <3>1. Cardinality(Versions(d, c)) = Newest(Versions(d, c))
      BY RowsCounted DEF Core, VersionInv
    <3> QED
      BY <2>1, <3>1 DEF AccountInv
  <2>4. ASSUME lifted[k] > 0
        PROVE  \E n \in Versions(d, c) : /\ n + 1 \in Versions(d, c)
                                         /\ StatusOf(d, c, n) = "refused"
                                         /\ StatusOf(d, c, n + 1) = "computed"
    <3>1. PICK f, g \in figures :
            /\ f.dep = d /\ f.claim = c /\ g.dep = d /\ g.claim = c
            /\ g.version = f.version + 1
            /\ f.fig.status = "refused" /\ g.fig.status = "computed"
      BY <2>1, <2>4 DEF LiftedInv
    <3>2. f.version \in Versions(d, c) /\ g.version \in Versions(d, c)
      BY <3>1 DEF Versions
    <3>3. \A p, q \in figures : SameVersion(p, q) => p = q
      BY DEF Core, VersionInv, VersionsUnique
    <3>4. StatusOf(d, c, f.version) = "refused"
      <4>1. PICK p \in figures : p.dep = d /\ p.claim = c /\ p.version = f.version
                                  /\ p.fig.status = StatusOf(d, c, f.version)
        BY <3>2, StatusRow
      <4>2. p = f
        BY <3>1, <3>3, <4>1 DEF SameVersion
      <4> QED
        BY <3>1, <4>1, <4>2
    <3>5. StatusOf(d, c, g.version) = "computed"
      <4>1. PICK p \in figures : p.dep = d /\ p.claim = c /\ p.version = g.version
                                  /\ p.fig.status = StatusOf(d, c, g.version)
        BY <3>2, StatusRow
      <4>2. p = g
        BY <3>1, <3>3, <4>1 DEF SameVersion
      <4> QED
        BY <3>1, <4>1, <4>2
    <3> QED
      BY <3>1, <3>2, <3>4, <3>5
  <2> QED
    BY <2>2, <2>3, <2>4
<1> HIDE DEF A
<1> QED
  BY <1>1, <1>2, <1>3, Typed, PTL DEF Spec

===============================================================================
