-------------------------------- MODULE Imports ---------------------------------
(***************************************************************************)
(* The bulk import lane (api/routes/imports.py): a job is created, its     *)
(* NDJSON file is uploaded to object storage, and run_import replays the   *)
(* file line by line through _process_one, writes the per-line reject      *)
(* report and finalizes the job.                                           *)
(*                                                                         *)
(* run_import is started by an operator (opsctl import run), possibly      *)
(* again and possibly twice at the same time: it takes no lock.  Each of   *)
(* its statements and storage calls is one action.  _process_one is one    *)
(* action here; module Ingestion has its statements.                       *)
(***************************************************************************)
EXTENDS Integers, Sequences, FiniteSets

CONSTANTS
    Jobs,           \* import jobs
    Runners,        \* the processes that run run_import
    Keys,           \* the dedup keys of events
    File,           \* job -> the lines of its file: [kind, key]
    MaxRuns,        \* bound: executions of run_import
    Mortal,         \* bound: the processes that may die
    None

\* Lines: "fact" is a good event, "refused" one that is always rejected,
\* "unknown" names a deployment that may not be registered yet, "garbage" is
\* no JSON, and "fatal" makes _process_one raise (a paused deployment, say).
Kinds == {"fact", "refused", "unknown", "garbage", "fatal"}

ASSUME FileAssumption ==
    /\ MaxRuns \in Nat
    /\ None \notin Nat
    /\ File \in [Jobs -> Seq([kind : Kinds, key : Keys])]

VARIABLES
    job,            \* import_jobs: [status, counts, report]
    uploaded,       \* jobs whose file is in import-uploads
    reports,        \* import-error-reports: job -> number of lines, or None
    registered,     \* whether the deployment that "unknown" lines name exists
    store,          \* the keys of the stored events
    pc,             \* where each process is in run_import
    run,            \* [job, line, counts]: what each process works on
    runs            \* executions so far

vars == <<job, uploaded, reports, registered, store, pc, run, runs>>

NoCounts == [received |-> 0, accepted |-> 0, duplicate |-> 0, rejected |-> 0]
NoRun == [job |-> None, line |-> 1, counts |-> NoCounts]
NoJob == [status |-> "absent", counts |-> NoCounts, report |-> FALSE]

-------------------------------------------------------------------------------
(* The client *)

CreateImport(j) ==
    /\ job[j].status = "absent"
    /\ job' = [job EXCEPT ![j].status = "queued"]
    /\ UNCHANGED <<uploaded, reports, registered, store, pc, run, runs>>

\* The PUT to the signed upload url.
Upload(j) ==
    /\ job[j].status # "absent"
    /\ j \notin uploaded
    /\ uploaded' = uploaded \cup {j}
    /\ UNCHANGED <<job, reports, registered, store, pc, run, runs>>

\* Live traffic through /v1/events:batch, and the configuration plane.
LiveEvent(k) ==
    /\ k \notin store
    /\ store' = store \cup {k}
    /\ UNCHANGED <<job, uploaded, reports, registered, pc, run, runs>>

RegisterDeployment ==
    /\ ~registered
    /\ registered' = TRUE
    /\ UNCHANGED <<job, uploaded, reports, store, pc, run, runs>>

-------------------------------------------------------------------------------
(* run_import *)

\* The job is read and the upload is looked for.
Start(r, j) ==
    /\ pc[r] = "idle"
    /\ runs < MaxRuns
    /\ job[j].status # "absent"
    /\ runs' = runs + 1
    /\ run' = [run EXCEPT ![r] = [NoRun EXCEPT !.job = j]]
    /\ pc' = [pc EXCEPT ![r] = IF j \in uploaded THEN "begin" ELSE "fail"]
    /\ UNCHANGED <<job, uploaded, reports, registered, store>>

\* The process is done, or dies, or an exception ends run_import.
Leave(r) ==
    /\ pc' = [pc EXCEPT ![r] = "idle"]
    /\ run' = [run EXCEPT ![r] = NoRun]

\* _set_status(..., "failed")
SetFailed(r) ==
    /\ pc[r] = "fail"
    /\ job' = [job EXCEPT ![run[r].job].status = "failed"]
    /\ Leave(r)
    /\ UNCHANGED <<uploaded, reports, registered, store, runs>>

\* _set_processing
SetProcessing(r) ==
    /\ pc[r] = "begin"
    /\ job' = [job EXCEPT ![run[r].job].status = "processing"]
    /\ pc' = [pc EXCEPT ![r] = "lines"]
    /\ UNCHANGED <<uploaded, reports, registered, store, run, runs>>

Line(r) == File[run[r].job][run[r].line]

HasLine(r) == pc[r] = "lines" /\ run[r].line <= Len(File[run[r].job])

\* The next line is counted under its result.
Count(r, result) ==
    run' = [run EXCEPT ![r].line = @ + 1,
                       ![r].counts.received = @ + 1,
                       ![r].counts[result] = @ + 1]

IsFact(line) == line.kind = "fact" \/ (line.kind = "unknown" /\ registered)

\* A line that is no JSON, or that _process_one rejects.
RejectLine(r) ==
    /\ HasLine(r)
    /\ Line(r).kind # "fatal" /\ ~IsFact(Line(r))
    /\ Count(r, "rejected")
    /\ UNCHANGED <<job, uploaded, reports, registered, store, pc, runs>>

\* Faulty: the line is counted before its event is stored.
AcceptLineUnstored(r) ==
    /\ HasLine(r)
    /\ IsFact(Line(r))
    /\ Count(r, IF Line(r).key \in store THEN "duplicate" ELSE "accepted")
    /\ UNCHANGED <<job, uploaded, reports, registered, store, pc, runs>>

\* A line that _process_one accepts, or knows already.
AcceptLine(r) ==
    /\ HasLine(r)
    /\ IsFact(Line(r))
    /\ Count(r, IF Line(r).key \in store THEN "duplicate" ELSE "accepted")
    /\ store' = store \cup {Line(r).key}
    /\ UNCHANGED <<job, uploaded, reports, registered, pc, runs>>

\* _process_one raises: the line is fatal, or another process commits the same
\* fact between the lookup and the insert.  Nothing catches it.
RaiseLine(r) ==
    /\ HasLine(r)
    /\ \/ Line(r).kind = "fatal" /\ UNCHANGED store
       \/ /\ IsFact(Line(r))
          /\ Line(r).key \notin store
          /\ store' = store \cup {Line(r).key}
    /\ Leave(r)
    /\ UNCHANGED <<job, uploaded, reports, registered, runs>>

\* Faulty: the job is finalized before the report is written.
PutReportLate(r) ==
    /\ pc[r] = "lines"
    /\ ~HasLine(r)
    /\ pc' = [pc EXCEPT ![r] = "finalize"]
    /\ UNCHANGED <<job, uploaded, reports, registered, store, run, runs>>

\* store.put of the error report, when there are rejects.
PutReport(r) ==
    LET rejected == run[r].counts.rejected IN
    /\ pc[r] = "lines"
    /\ ~HasLine(r)
    /\ reports' = IF rejected > 0 THEN [reports EXCEPT ![run[r].job] = rejected] ELSE reports
    /\ pc' = [pc EXCEPT ![r] = "finalize"]
    /\ UNCHANGED <<job, uploaded, registered, store, run, runs>>

\* _finalize
Finalize(r) ==
    LET counts == run[r].counts IN
    /\ pc[r] = "finalize"
    /\ job' = [job EXCEPT ![run[r].job] =
                [status |-> IF counts.rejected > 0 THEN "completed_with_rejects" ELSE "completed",
                 counts |-> counts, report |-> counts.rejected > 0]]
    /\ Leave(r)
    /\ UNCHANGED <<uploaded, reports, registered, store, runs>>

Crash(r) ==
    /\ r \in Mortal
    /\ pc[r] # "idle"
    /\ Leave(r)
    /\ UNCHANGED <<job, uploaded, reports, registered, store, runs>>

-------------------------------------------------------------------------------
Init ==
    /\ job = [j \in Jobs |-> NoJob]
    /\ uploaded = {}
    /\ reports = [j \in Jobs |-> None]
    /\ registered = FALSE
    /\ store = {}
    /\ pc = [r \in Runners |-> "idle"]
    /\ run = [r \in Runners |-> NoRun]
    /\ runs = 0

Step(r) ==
    \/ SetFailed(r) \/ SetProcessing(r) \/ RejectLine(r) \/ AcceptLine(r) \/ RaiseLine(r)
    \/ PutReport(r) \/ Finalize(r)

Next ==
    \/ \E j \in Jobs : CreateImport(j) \/ Upload(j)
    \/ \E k \in Keys : LiveEvent(k)
    \/ RegisterDeployment
    \/ \E r \in Runners : Step(r) \/ Crash(r) \/ \E j \in Jobs : Start(r, j)

Spec == Init /\ [][Next]_vars

-------------------------------------------------------------------------------
(* Properties *)

\* The counts of a completed job are true although runs are repeated, overlap
\* and die: every line of the file is counted once, the status says whether
\* there were rejects, and what is counted as accepted or duplicate is stored.
CountsTruthful ==
    \A j \in Jobs : LET c == job[j].counts IN
        job[j].status \in {"completed", "completed_with_rejects"} =>
            /\ c.received = Len(File[j])
            /\ c.accepted + c.duplicate + c.rejected = c.received
            /\ c.accepted + c.duplicate <= Cardinality({n \in DOMAIN File[j] : File[j][n].key \in store})
            /\ (c.rejected = 0) = (job[j].status = "completed")

\* import_status hands out the url of an error report only if the report is in
\* object storage: it is written before the job says that it exists.
ReportExists ==
    \A j \in Jobs : job[j].report => reports[j] # None
===============================================================================
