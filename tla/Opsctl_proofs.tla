----------------------------- MODULE Opsctl_proofs ------------------------------
(***************************************************************************)
(* The jobs that operators start with opsctl: the bulk import (module      *)
(* Imports) and the alert monitors (module Alerts).  Each is proved for    *)
(* any number of processes that run it at the same time, are repeated and  *)
(* die; nothing is shared between the two.                                 *)
(***************************************************************************)
EXTENDS Imports, Alerts, FiniteSetTheorems, SequenceTheorems, TLAPS

Counts == [received : Nat, accepted : Nat, duplicate : Nat, rejected : Nat]
Statuses == {"absent", "queued", "failed", "processing", "completed", "completed_with_rejects"}
JobRows == [status : Statuses, counts : Counts, report : BOOLEAN]
RunStates == [job : Jobs \cup {None}, line : Nat, counts : Counts]

-------------------------------------------------------------------------------
(* Imports: the inductive invariant *)

ImportTypes ==
    /\ job \in [Jobs -> JobRows]
    /\ reports \in [Jobs -> Nat \cup {None}]
    /\ pc \in [Runners -> {"idle", "fail", "begin", "lines", "finalize"}]
    /\ run \in [Runners -> RunStates]
    /\ \A r \in Runners : pc[r] # "idle" => run[r].job \in Jobs

\* The first n lines of the file of j whose facts are in S.
Stored(j, n, S) == {i \in 1..n : File[j][i].key \in S}

\* Counts of the first n lines of the file of j that are true when S is stored.
TrueOf(c, j, n, S) ==
    /\ c.received = n
    /\ c.accepted + c.duplicate + c.rejected = n
    /\ c.accepted + c.duplicate <= Cardinality(Stored(j, n, S))

\* What a process has counted is true of the lines before the one it is at; when it
\* is about to finalize the job it has counted them all, and its report is stored.
RunTrue(r) ==
    LET j == run[r].job
        c == run[r].counts IN
    /\ pc[r] = "begin" => run[r].line = 1 /\ c = NoCounts
    /\ pc[r] \in {"lines", "finalize"} => /\ run[r].line \in 1..(Len(File[j]) + 1)
                                          /\ TrueOf(c, j, run[r].line - 1, store)
    /\ pc[r] = "finalize" => /\ run[r].line = Len(File[j]) + 1
                             /\ c.rejected > 0 => reports[j] # None

\* The row of a job is true once it says that the job is complete.
JobTrue(j) ==
    /\ job[j].status \in {"completed", "completed_with_rejects"} =>
        /\ TrueOf(job[j].counts, j, Len(File[j]), store)
        /\ (job[j].counts.rejected = 0) = (job[j].status = "completed")
    /\ job[j].report => reports[j] # None

ImportInv ==
    /\ ImportTypes
    /\ \A r \in Runners : RunTrue(r)
    /\ \A j \in Jobs : JobTrue(j)

-------------------------------------------------------------------------------
(* Counting lines *)

\* A file is a sequence of lines.
LEMMA FileFacts ==
    ASSUME NEW j \in Jobs
    PROVE  /\ Len(File[j]) \in Nat /\ DOMAIN File[j] = 1..Len(File[j])
           /\ \A i \in 1..Len(File[j]) : File[j][i] \in [kind : Kinds, key : Keys]
<1>1. File[j] \in Seq([kind : Kinds, key : Keys])
  BY FileAssumption
<1> QED
  BY <1>1, LenProperties, ElementOfSeq

\* The lines with stored facts can be counted; with more facts there are no fewer.
LEMMA StoredGrows ==
    ASSUME NEW j, NEW n \in Nat, NEW S, NEW T, S \subseteq T
    PROVE  /\ IsFiniteSet(Stored(j, n, T))
           /\ Cardinality(Stored(j, n, S)) \in Nat
           /\ Cardinality(Stored(j, n, T)) \in Nat
           /\ Cardinality(Stored(j, n, S)) <= Cardinality(Stored(j, n, T))
<1>1. IsFiniteSet(1..n)
  BY FS_Interval
<1>2. Stored(j, n, T) \subseteq 1..n /\ Stored(j, n, S) \subseteq Stored(j, n, T)
  BY DEF Stored
<1>3. IsFiniteSet(Stored(j, n, T))
  BY <1>1, <1>2, FS_Subset
<1>4. IsFiniteSet(Stored(j, n, S)) /\ Cardinality(Stored(j, n, S)) <= Cardinality(Stored(j, n, T))
  BY <1>2, <1>3, FS_Subset
<1> QED
  BY <1>3, <1>4, FS_CardinalityType

\* So counts stay true.
LEMMA StaysTrue ==
    ASSUME NEW c \in Counts, NEW j, NEW n \in Nat, NEW S, NEW T, S \subseteq T, TrueOf(c, j, n, S)
    PROVE  TrueOf(c, j, n, T)
<1>1. /\ Cardinality(Stored(j, n, S)) \in Nat /\ Cardinality(Stored(j, n, T)) \in Nat
      /\ Cardinality(Stored(j, n, S)) <= Cardinality(Stored(j, n, T))
  BY StoredGrows
<1>2. c.accepted + c.duplicate \in Nat
  BY DEF Counts
<1> QED
  BY <1>1, <1>2 DEF TrueOf

\* One more line is counted as rejected, whatever the store.
LEMMA RejectTrue ==
    ASSUME NEW c \in Counts, NEW j, NEW n \in Nat, NEW S, TrueOf(c, j, n, S),
           NEW d \in Counts, d.received = c.received + 1, d.rejected = c.rejected + 1,
           d.accepted = c.accepted, d.duplicate = c.duplicate
    PROVE  TrueOf(d, j, n + 1, S)
<1>1. Stored(j, n, S) \subseteq Stored(j, n + 1, S)
  BY DEF Stored
<1>2. IsFiniteSet(Stored(j, n + 1, S)) /\ Cardinality(Stored(j, n + 1, S)) \in Nat
  BY StoredGrows
<1>3. Cardinality(Stored(j, n, S)) <= Cardinality(Stored(j, n + 1, S)) /\ Cardinality(Stored(j, n, S)) \in Nat
  BY <1>1, <1>2, FS_Subset, StoredGrows
<1> QED
  BY <1>2, <1>3 DEF TrueOf, Counts

\* One more line is counted as accepted or as a duplicate, and its fact is stored.
LEMMA AcceptTrue ==
    ASSUME NEW c \in Counts, NEW j, NEW n \in Nat, NEW S, NEW T, S \subseteq T, TrueOf(c, j, n, S),
           File[j][n + 1].key \in T,
           NEW d \in Counts, d.received = c.received + 1, d.rejected = c.rejected,
           d.accepted + d.duplicate = c.accepted + c.duplicate + 1
    PROVE  TrueOf(d, j, n + 1, T)
<1>1. /\ IsFiniteSet(Stored(j, n, T))
      /\ Cardinality(Stored(j, n, S)) \in Nat /\ Cardinality(Stored(j, n, T)) \in Nat
      /\ Cardinality(Stored(j, n, S)) <= Cardinality(Stored(j, n, T))
  BY StoredGrows
<1>2. Stored(j, n + 1, T) = Stored(j, n, T) \cup {n + 1} /\ n + 1 \notin Stored(j, n, T)
  BY DEF Stored
<1>3. Cardinality(Stored(j, n + 1, T)) = Cardinality(Stored(j, n, T)) + 1
  BY <1>1, <1>2, FS_AddElement
<1> QED
  BY <1>1, <1>3 DEF TrueOf, Counts

-------------------------------------------------------------------------------
(* Imports: the steps *)

\* The store of facts and that of reports only grow, so a process and a job that
\* a step leaves alone stay true, and so does a job whose new status promises
\* nothing.
LEMMA LeftAlone ==
    ASSUME ImportInv, store \subseteq store',
           \A j \in Jobs : reports[j] # None => reports'[j] # None
    PROVE  /\ \A j \in Jobs : job'[j] = job[j] => JobTrue(j)'
           /\ \A j \in Jobs : \A s \in {"queued", "failed", "processing"} :
                    job'[j] = [job[j] EXCEPT !.status = s] => JobTrue(j)'
           /\ \A r \in Runners : pc'[r] = pc[r] /\ run'[r] = run[r] => RunTrue(r)'
           /\ \A r \in Runners : pc'[r] \in {"idle", "fail"} => RunTrue(r)'
<1>t. job \in [Jobs -> JobRows] /\ run \in [Runners -> RunStates]
  BY DEF ImportInv, ImportTypes
<1>1. ASSUME NEW j \in Jobs, job'[j] = job[j]
      PROVE  JobTrue(j)'
  <2>1. JobTrue(j) /\ job[j].counts \in Counts /\ Len(File[j]) \in Nat
    BY <1>t, FileFacts DEF ImportInv, JobRows
  <2>2. CASE job[j].status \in {"completed", "completed_with_rejects"}
    <3>1. TrueOf(job[j].counts, j, Len(File[j]), store)
      BY <2>1, <2>2 DEF JobTrue
    <3>2. TrueOf(job[j].counts, j, Len(File[j]), store')
      BY <2>1, <3>1, StaysTrue
    <3> QED
      BY <1>1, <2>1, <3>2 DEF JobTrue
  <2>3. CASE job[j].status \notin {"completed", "completed_with_rejects"}
    BY <1>1, <2>1, <2>3 DEF JobTrue
  <2> QED
    BY <2>2, <2>3
<1>2. ASSUME NEW j \in Jobs, NEW s \in {"queued", "failed", "processing"},
             job'[j] = [job[j] EXCEPT !.status = s]
      PROVE  JobTrue(j)'
  <2>1. JobTrue(j) /\ job[j] \in JobRows
    BY <1>t DEF ImportInv
  <2>2. job'[j].status = s /\ job'[j].report = job[j].report
    BY <1>2, <2>1 DEF JobRows
  <2> QED
    BY <2>1, <2>2 DEF JobTrue
<1>3. ASSUME NEW r \in Runners, pc'[r] = pc[r], run'[r] = run[r]
      PROVE  RunTrue(r)'
  <2>1. RunTrue(r) /\ run[r].counts \in Counts /\ (pc[r] # "idle" => run[r].job \in Jobs)
    BY <1>t DEF ImportInv, ImportTypes, RunStates
  <2>2. CASE pc[r] \in {"lines", "finalize"}
    <3>1. run[r].job \in Jobs /\ Len(File[run[r].job]) \in Nat
      BY <2>1, <2>2, FileFacts
    <3>2. /\ run[r].line - 1 \in Nat
          /\ TrueOf(run[r].counts, run[r].job, run[r].line - 1, store)
      BY <2>1, <2>2, <3>1 DEF RunTrue
    <3>3. TrueOf(run[r].counts, run[r].job, run[r].line - 1, store')
      BY <2>1, <3>2, StaysTrue
    <3> QED
      BY <1>3, <2>1, <2>2, <3>1, <3>3 DEF RunTrue
  <2>3. CASE pc[r] \notin {"lines", "finalize"}
    BY <1>3, <2>1, <2>3 DEF RunTrue
  <2> QED
    BY <2>2, <2>3
<1>4. \A r \in Runners : pc'[r] \in {"idle", "fail"} => RunTrue(r)'
  BY DEF RunTrue
<1> QED
  BY <1>1, <1>2, <1>3, <1>4

\* The client, live traffic and the configuration plane write no run.
LEMMA ClientStep ==
    ASSUME ImportInv,
           \/ \E j \in Jobs : CreateImport(j) \/ Upload(j)
           \/ \E k \in Keys : LiveEvent(k)
           \/ RegisterDeployment
           \/ UNCHANGED vars
    PROVE  ImportInv'
<1>t. job \in [Jobs -> JobRows]
  BY DEF ImportInv, ImportTypes
<1>1. reports' = reports /\ pc' = pc /\ run' = run /\ store \subseteq store'
  BY DEF CreateImport, Upload, LiveEvent, RegisterDeployment, vars
<1>2. job' = job \/ \E j \in Jobs : job' = [job EXCEPT ![j].status = "queued"]
  BY DEF CreateImport, Upload, LiveEvent, RegisterDeployment, vars
<1>3. /\ job' \in [Jobs -> JobRows]
      /\ \A i \in Jobs : job'[i] = job[i] \/ job'[i] = [job[i] EXCEPT !.status = "queued"]
  BY <1>t, <1>2 DEF JobRows, Statuses
<1>4. ImportTypes'
  BY <1>1, <1>3 DEF ImportInv, ImportTypes
<1> QED
  BY <1>1, <1>3, <1>4, LeftAlone DEF ImportInv

\* run_import begins with counts of nothing.
LEMMA StartStep == ASSUME ImportInv, NEW r \in Runners, NEW j \in Jobs, Start(r, j) PROVE ImportInv'
<1>t. pc \in [Runners -> {"idle", "fail", "begin", "lines", "finalize"}] /\ run \in [Runners -> RunStates]
  BY DEF ImportInv, ImportTypes
<1>1. /\ job' = job /\ reports' = reports /\ store' = store
      /\ run' = [run EXCEPT ![r] = [job |-> j, line |-> 1, counts |-> NoCounts]]
      /\ pc' = [pc EXCEPT ![r] = IF j \in uploaded THEN "begin" ELSE "fail"]
  <2>1. [NoRun EXCEPT !.job = j] = [job |-> j, line |-> 1, counts |-> NoCounts]
    BY DEF NoRun
  <2> QED
    BY <2>1 DEF Start
<1>2. NoCounts \in Counts
  BY DEF NoCounts, Counts
<1>3. ImportTypes'
  BY <1>1, <1>2, <1>t DEF ImportInv, ImportTypes, RunStates
<1>4. RunTrue(r)'
  BY <1>1, <1>t DEF RunTrue
<1>5. \A q \in Runners \ {r} : pc'[q] = pc[q] /\ run'[q] = run[q]
  BY <1>1, <1>t
<1> QED
  BY <1>1, <1>3, <1>4, <1>5, LeftAlone DEF ImportInv

\* The process that leaves run_import keeps nothing.
LEMMA LeaveStep ==
    ASSUME ImportInv, NEW r \in Runners, Leave(r), store \subseteq store', reports' = reports,
           job' \in [Jobs -> JobRows], \A j \in Jobs : JobTrue(j)'
    PROVE  ImportInv'
<1>t. pc \in [Runners -> {"idle", "fail", "begin", "lines", "finalize"}] /\ run \in [Runners -> RunStates]
  BY DEF ImportInv, ImportTypes
<1>1. /\ run' = [run EXCEPT ![r] = [job |-> None, line |-> 1, counts |-> NoCounts]]
      /\ pc' = [pc EXCEPT ![r] = "idle"]
  BY DEF Leave, NoRun
<1>2. NoCounts \in Counts
  BY DEF NoCounts, Counts
<1>3. ImportTypes'
  BY <1>1, <1>2, <1>t DEF ImportInv, ImportTypes, RunStates
<1>4. pc'[r] = "idle"
  BY <1>1, <1>t
<1>5. \A q \in Runners \ {r} : pc'[q] = pc[q] /\ run'[q] = run[q]
  BY <1>1, <1>t
<1> QED
  BY <1>3, <1>4, <1>5, LeftAlone DEF ImportInv

\* A run that fails, raises or dies leaves the job with a status that promises
\* nothing, or as it was.
LEMMA AbortStep ==
    ASSUME ImportInv, NEW r \in Runners, SetFailed(r) \/ RaiseLine(r) \/ Crash(r)
    PROVE  ImportInv'
<1>t. job \in [Jobs -> JobRows] /\ (pc[r] # "idle" => run[r].job \in Jobs)
  BY DEF ImportInv, ImportTypes
<1>1. Leave(r) /\ store \subseteq store' /\ reports' = reports
  BY DEF SetFailed, RaiseLine, Crash
<1>2. job' = job \/ (run[r].job \in Jobs /\ job' = [job EXCEPT ![run[r].job].status = "failed"])
  BY <1>t DEF SetFailed, RaiseLine, Crash
<1>3. /\ job' \in [Jobs -> JobRows]
      /\ \A i \in Jobs : job'[i] = job[i] \/ job'[i] = [job[i] EXCEPT !.status = "failed"]
  BY <1>t, <1>2 DEF JobRows, Statuses
<1>4. \A i \in Jobs : JobTrue(i)'
  BY <1>1, <1>3, LeftAlone
<1> QED
  BY <1>1, <1>3, <1>4, LeaveStep

\* The job is marked, the process begins with the first line.
LEMMA ProcessingStep == ASSUME ImportInv, NEW r \in Runners, SetProcessing(r) PROVE ImportInv'
<1>t. /\ job \in [Jobs -> JobRows] /\ run[r].job \in Jobs
      /\ pc \in [Runners -> {"idle", "fail", "begin", "lines", "finalize"}]
  BY DEF ImportInv, ImportTypes, SetProcessing
<1>1. /\ store' = store /\ reports' = reports /\ run' = run
      /\ job' = [job EXCEPT ![run[r].job].status = "processing"]
      /\ pc[r] = "begin" /\ pc' = [pc EXCEPT ![r] = "lines"]
  BY DEF SetProcessing
<1>2. /\ job' \in [Jobs -> JobRows]
      /\ \A i \in Jobs : job'[i] = job[i] \/ job'[i] = [job[i] EXCEPT !.status = "processing"]
  BY <1>t, <1>1 DEF JobRows, Statuses
<1>3. ImportTypes'
  BY <1>1, <1>2, <1>t DEF ImportInv, ImportTypes
<1>4. run[r].line = 1 /\ run[r].counts = NoCounts
  BY <1>1 DEF ImportInv, RunTrue
<1>5. TrueOf(NoCounts, run[r].job, 0, store)
  BY StoredGrows DEF TrueOf, NoCounts
<1>6. RunTrue(r)'
  BY <1>1, <1>4, <1>5, <1>t, FileFacts DEF RunTrue
<1>7. \A q \in Runners \ {r} : pc'[q] = pc[q] /\ run'[q] = run[q]
  BY <1>1, <1>t
<1> QED
  BY <1>1, <1>2, <1>3, <1>6, <1>7, LeftAlone DEF ImportInv

\* The next line is counted once, under one result.
LEMMA CountLine ==
    ASSUME ImportInv, NEW r \in Runners, HasLine(r),
           NEW result \in {"accepted", "duplicate", "rejected"}, Count(r, result)
    PROVE  LET c == run[r].counts
               d == run'[r].counts IN
           /\ run' \in [Runners -> RunStates]
           /\ \A q \in Runners \ {r} : run'[q] = run[q]
           /\ run'[r].job = run[r].job /\ run'[r].line = run[r].line + 1
           /\ c \in Counts /\ d \in Counts /\ d.received = c.received + 1
           /\ result = "rejected" => /\ d.rejected = c.rejected + 1
                                     /\ d.accepted = c.accepted /\ d.duplicate = c.duplicate
           /\ result # "rejected" => /\ d.rejected = c.rejected
                                     /\ d.accepted + d.duplicate = c.accepted + c.duplicate + 1
<1>t. run \in [Runners -> RunStates] /\ run[r] \in RunStates
  BY DEF ImportInv, ImportTypes
<1> DEFINE c == run[r].counts
           d == [received |-> c.received + 1,
                 accepted |-> IF result = "accepted" THEN c.accepted + 1 ELSE c.accepted,
                 duplicate |-> IF result = "duplicate" THEN c.duplicate + 1 ELSE c.duplicate,
                 rejected |-> IF result = "rejected" THEN c.rejected + 1 ELSE c.rejected]
<1>1. c \in Counts /\ run[r].line \in Nat
  BY <1>t DEF RunStates
<1>2. /\ d \in Counts /\ d.received = c.received + 1
      /\ result = "rejected" => /\ d.rejected = c.rejected + 1
                                /\ d.accepted = c.accepted /\ d.duplicate = c.duplicate
      /\ result # "rejected" => /\ d.rejected = c.rejected
                                /\ d.accepted + d.duplicate = c.accepted + c.duplicate + 1
  <2>1. CASE result = "accepted"
    BY <1>1, <2>1 DEF Counts
  <2>2. CASE result = "duplicate"
    BY <1>1, <2>2 DEF Counts
  <2>3. CASE result = "rejected"
    BY <1>1, <2>3 DEF Counts
  <2> QED
    BY <2>1, <2>2, <2>3
<1>3. run' = [run EXCEPT ![r] = [job |-> run[r].job, line |-> run[r].line + 1, counts |-> d]]
  <2>1. CASE result = "accepted"
    BY <1>t, <2>1 DEF Count, RunStates, Counts
  <2>2. CASE result = "duplicate"
    BY <1>t, <2>2 DEF Count, RunStates, Counts
  <2>3. CASE result = "rejected"
    BY <1>t, <2>3 DEF Count, RunStates, Counts
  <2> QED
    BY <2>1, <2>2, <2>3
<1> HIDE DEF d
<1>4. [job |-> run[r].job, line |-> run[r].line + 1, counts |-> d] \in RunStates
  BY <1>t, <1>1, <1>2 DEF RunStates
<1> QED
  BY <1>t, <1>1, <1>2, <1>3, <1>4

\* A line is counted: what the process has counted is true of one line more.
LEMMA LineStep ==
    ASSUME ImportInv, NEW r \in Runners, RejectLine(r) \/ AcceptLine(r)
    PROVE  ImportInv'
<1>t. pc[r] = "lines" /\ run[r].job \in Jobs /\ run[r].line <= Len(File[run[r].job])
  BY DEF ImportInv, ImportTypes, RejectLine, AcceptLine, HasLine
<1>n. /\ run[r].line - 1 \in Nat /\ (run[r].line - 1) + 1 = run[r].line
      /\ (run[r].line + 1) - 1 = run[r].line
      /\ run[r].line + 1 \in 1..(Len(File[run[r].job]) + 1)
      /\ TrueOf(run[r].counts, run[r].job, run[r].line - 1, store)
  BY <1>t, FileFacts DEF ImportInv, RunTrue
<1>u. job' = job /\ reports' = reports /\ pc' = pc /\ store \subseteq store'
  BY DEF RejectLine, AcceptLine
<1>1. /\ run' \in [Runners -> RunStates]
      /\ \A q \in Runners \ {r} : run'[q] = run[q]
      /\ run'[r].job = run[r].job /\ run'[r].line = run[r].line + 1
      /\ TrueOf(run'[r].counts, run[r].job, run[r].line, store')
  <2>1. CASE RejectLine(r)
    <3>1. HasLine(r) /\ Count(r, "rejected") /\ store' = store
      BY <2>1 DEF RejectLine
    <3>2. /\ run' \in [Runners -> RunStates]
          /\ \A q \in Runners \ {r} : run'[q] = run[q]
          /\ run'[r].job = run[r].job /\ run'[r].line = run[r].line + 1
          /\ run[r].counts \in Counts /\ run'[r].counts \in Counts
          /\ run'[r].counts.received = run[r].counts.received + 1
          /\ run'[r].counts.rejected = run[r].counts.rejected + 1
          /\ run'[r].counts.accepted = run[r].counts.accepted
          /\ run'[r].counts.duplicate = run[r].counts.duplicate
      BY <3>1, CountLine
    <3>3. TrueOf(run'[r].counts, run[r].job, (run[r].line - 1) + 1, store)
      BY <3>2, <1>n, RejectTrue
    <3> QED
      BY <3>1, <3>2, <3>3, <1>n
  <2>2. CASE AcceptLine(r)
    <3>1. PICK result \in {"accepted", "duplicate"} : HasLine(r) /\ Count(r, result)
      BY <2>2 DEF AcceptLine
    <3>2. /\ run' \in [Runners -> RunStates]
          /\ \A q \in Runners \ {r} : run'[q] = run[q]
          /\ run'[r].job = run[r].job /\ run'[r].line = run[r].line + 1
          /\ run[r].counts \in Counts /\ run'[r].counts \in Counts
          /\ run'[r].counts.received = run[r].counts.received + 1
          /\ run'[r].counts.rejected = run[r].counts.rejected
          /\ run'[r].counts.accepted + run'[r].counts.duplicate
                = run[r].counts.accepted + run[r].counts.duplicate + 1
      <4>1. result # "rejected" /\ result \in {"accepted", "duplicate", "rejected"}
        OBVIOUS
      <4> QED
        BY <3>1, <4>1, CountLine
    <3>3. File[run[r].job][(run[r].line - 1) + 1].key \in store'
      BY <2>2, <1>n DEF AcceptLine, Line
    <3>4. TrueOf(run'[r].counts, run[r].job, (run[r].line - 1) + 1, store')
      BY <3>2, <3>3, <1>n, <1>u, AcceptTrue
    <3> QED
      BY <3>2, <3>4, <1>n
  <2> QED
    BY <2>1, <2>2
<1>2. ImportTypes'
  <2>1. \A q \in Runners : run'[q].job = run[q].job
    BY <1>1
  <2> QED
    BY <1>1, <1>u, <2>1 DEF ImportInv, ImportTypes
<1>3. RunTrue(r)'
  BY <1>t, <1>n, <1>u, <1>1 DEF RunTrue
<1> QED
  BY <1>1, <1>2, <1>3, <1>u, LeftAlone DEF ImportInv

\* The report of the rejects is written before the job is finalized.
LEMMA ReportStep == ASSUME ImportInv, NEW r \in Runners, PutReport(r) PROVE ImportInv'
<1>t. /\ reports \in [Jobs -> Nat \cup {None}] /\ run[r].job \in Jobs
      /\ pc \in [Runners -> {"idle", "fail", "begin", "lines", "finalize"}]
      /\ run[r].counts.rejected \in Nat
  BY DEF ImportInv, ImportTypes, PutReport, RunStates, Counts
<1>1. /\ store' = store /\ job' = job /\ run' = run
      /\ pc[r] = "lines" /\ pc' = [pc EXCEPT ![r] = "finalize"]
      /\ ~(run[r].line <= Len(File[run[r].job]))
      /\ reports' = IF run[r].counts.rejected > 0
                    THEN [reports EXCEPT ![run[r].job] = run[r].counts.rejected] ELSE reports
  BY DEF PutReport, HasLine
<1>2. /\ reports' \in [Jobs -> Nat \cup {None}]
      /\ \A j \in Jobs : reports[j] # None => reports'[j] # None
      /\ run[r].counts.rejected > 0 => reports'[run[r].job] # None
  BY <1>t, <1>1, FileAssumption
<1>3. ImportTypes'
  BY <1>1, <1>2, <1>t DEF ImportInv, ImportTypes
<1>4. RunTrue(r)'
  <2>1. /\ run[r].line \in 1..(Len(File[run[r].job]) + 1)
        /\ TrueOf(run[r].counts, run[r].job, run[r].line - 1, store)
    BY <1>1 DEF ImportInv, RunTrue
  <2>2. run[r].line = Len(File[run[r].job]) + 1
    BY <2>1, <1>1, <1>t, FileFacts
  <2> QED
    BY <1>1, <1>2, <1>t, <2>1, <2>2 DEF RunTrue
<1>5. \A q \in Runners \ {r} : pc'[q] = pc[q] /\ run'[q] = run[q]
  BY <1>1, <1>t
<1> QED
  BY <1>1, <1>2, <1>3, <1>4, <1>5, LeftAlone DEF ImportInv

\* The row of the job takes the counts of the process.
LEMMA FinalizeStep == ASSUME ImportInv, NEW r \in Runners, Finalize(r) PROVE ImportInv'
<1> DEFINE j == run[r].job
           c == run[r].counts
           new == [status |-> IF c.rejected > 0 THEN "completed_with_rejects" ELSE "completed",
                   counts |-> c, report |-> c.rejected > 0]
<1>t. job \in [Jobs -> JobRows] /\ j \in Jobs /\ c \in Counts /\ c.rejected \in Nat
  BY DEF ImportInv, ImportTypes, Finalize, RunStates, Counts
<1>1. /\ pc[r] = "finalize" /\ job' = [job EXCEPT ![j] = new]
      /\ Leave(r) /\ store' = store /\ reports' = reports
  BY DEF Finalize
<1>2. TrueOf(c, j, Len(File[j]), store) /\ (c.rejected > 0 => reports[j] # None)
  BY <1>1, <1>t, FileFacts DEF ImportInv, RunTrue
<1>3. new \in JobRows
  BY <1>t DEF JobRows, Statuses
<1>4. /\ new.status \in {"completed", "completed_with_rejects"} /\ new.counts = c
      /\ (c.rejected = 0) = (new.status = "completed")
      /\ new.report => c.rejected > 0
  <2>1. /\ new.status = IF c.rejected > 0 THEN "completed_with_rejects" ELSE "completed"
        /\ new.counts = c
    OBVIOUS
  <2>2. new.report <=> c.rejected > 0
    OBVIOUS
  <2>3. c.rejected > 0 <=> c.rejected # 0
    BY <1>t
  <2> HIDE DEF new, c
  <2> QED
    BY <2>1, <2>2, <2>3
<1> HIDE DEF new, c, j
<1>5. job' \in [Jobs -> JobRows] /\ job'[j] = new /\ \A i \in Jobs \ {j} : job'[i] = job[i]
  BY <1>1, <1>3, <1>t
<1>6. \A i \in Jobs \ {j} : JobTrue(i)'
  BY <1>1, <1>5, LeftAlone
<1>7. ASSUME NEW i \in Jobs, i = j
      PROVE  JobTrue(i)'
  BY <1>1, <1>2, <1>4, <1>5, <1>7 DEF JobTrue
<1>8. \A i \in Jobs : JobTrue(i)'
  BY <1>6, <1>7
<1> QED
  BY <1>1, <1>5, <1>8, LeaveStep

\* Before any job exists nothing is promised.
LEMMA ImportInit == Init => ImportInv
<1> SUFFICES ASSUME Init PROVE ImportInv
  OBVIOUS
<1>1. NoCounts \in Counts /\ NoJob \in JobRows /\ NoRun \in RunStates
  BY DEF NoCounts, NoJob, NoRun, Counts, JobRows, RunStates, Statuses
<1>2. ImportTypes
  BY <1>1 DEF Init, ImportTypes
<1>3. \A r \in Runners : RunTrue(r)
  BY DEF Init, RunTrue
<1>4. \A j \in Jobs : JobTrue(j)
  BY DEF Init, JobTrue, NoJob
<1> QED
  BY <1>2, <1>3, <1>4 DEF ImportInv

\* Every step keeps the invariant.
LEMMA ImportNext == ImportInv /\ [Next]_vars => ImportInv'
<1> SUFFICES ASSUME ImportInv, [Next]_vars
             PROVE  ImportInv'
  OBVIOUS
<1>1. ASSUME NEW r \in Runners, Step(r) \/ Crash(r) \/ \E j \in Jobs : Start(r, j)
      PROVE  ImportInv'
  BY <1>1, StartStep, AbortStep, ProcessingStep, LineStep, ReportStep, FinalizeStep DEF Step
<1> QED
  BY <1>1, ClientStep DEF Next

\* The counts of a completed job are true, for files of any length and any number
\* of runs of run_import that are repeated, overlap, raise and die: each line is
\* counted once, and what is counted as accepted or duplicate is stored.
THEOREM TrueCounts == Spec => []CountsTruthful
<1>1. ImportInv => CountsTruthful
  <2> SUFFICES ASSUME ImportInv, NEW j \in Jobs,
                      job[j].status \in {"completed", "completed_with_rejects"}
               PROVE  LET c == job[j].counts IN
                      /\ c.received = Len(File[j])
                      /\ c.accepted + c.duplicate + c.rejected = c.received
                      /\ c.accepted + c.duplicate <= Cardinality({n \in DOMAIN File[j] : File[j][n].key \in store})
                      /\ (c.rejected = 0) = (job[j].status = "completed")
    BY DEF CountsTruthful
  <2>1. /\ TrueOf(job[j].counts, j, Len(File[j]), store)
        /\ (job[j].counts.rejected = 0) = (job[j].status = "completed")
    BY DEF ImportInv, JobTrue
  <2>2. {n \in DOMAIN File[j] : File[j][n].key \in store} = Stored(j, Len(File[j]), store)
    BY FileFacts DEF Stored
  <2> QED
    BY <2>1, <2>2 DEF TrueOf
<1> QED
  BY <1>1, ImportInit, ImportNext, PTL DEF Spec

\* A job that offers an error report has one in object storage, whichever of its
\* runs wrote it: the report is put before the row says that it exists.
THEOREM ReportThere == Spec => []ReportExists
<1>1. ImportInv => ReportExists
  BY DEF ImportInv, JobTrue, ReportExists
<1> QED
  BY <1>1, ImportInit, ImportNext, PTL DEF Spec

-------------------------------------------------------------------------------
(* Alerts *)

AlertRows == [id : Nat, cond : Conditions]

\* What a monitor is going to commit is announced, but for the row whose
\* announcement comes next.
DraftAnnounced(m) ==
    /\ at[m] = "emit" => draft[m] # <<>>
    /\ \A n \in 1..Len(draft[m]) :
        (at[m] = "emit" /\ n = Len(draft[m])) \/ draft[m][n].id \in announced

AlertInv ==
    /\ present \subseteq Conditions
    /\ raised \in Nat
    /\ at \in [Monitors -> {"idle", "raise", "emit"}]
    /\ todo \in [Monitors -> SUBSET Conditions]
    /\ draft \in [Monitors -> Seq(AlertRows)]
    /\ \A m \in Monitors : DraftAnnounced(m)
    /\ QueuedIsAnnounced

\* A monitor that commits, or dies, starts anew.
LEMMA MonitorLeaves ==
    ASSUME AlertInv, NEW m \in Monitors, LeaveMonitor(m),
           present' = present, raised' = raised, announced' = announced, DOMAIN alerts' \subseteq announced
    PROVE  AlertInv'
<1>1. <<>> \in Seq(AlertRows) /\ Len(<<>>) = 0
  OBVIOUS
<1>2. DraftAnnounced(m)'
  BY <1>1 DEF AlertInv, LeaveMonitor, DraftAnnounced
<1>3. \A q \in Monitors \ {m} : DraftAnnounced(q)'
  BY DEF AlertInv, LeaveMonitor, DraftAnnounced
<1> QED
  BY <1>1, <1>2, <1>3 DEF AlertInv, LeaveMonitor, QueuedIsAnnounced

\* The row of the condition found next is drafted; it is announced before the
\* next row is.
LEMMA RaiseStep == ASSUME AlertInv, NEW m \in Monitors, Raise(m) PROVE AlertInv'
<1>1. PICK c \in NextConditions(m) :
        /\ todo' = [todo EXCEPT ![m] = todo[m] \ {c}]
        /\ draft' = [draft EXCEPT ![m] = Append(draft[m], [id |-> raised + 1, cond |-> c])]
  BY DEF Raise
<1>2. /\ at[m] = "raise" /\ at' = [at EXCEPT ![m] = "emit"] /\ raised' = raised + 1
      /\ UNCHANGED <<present, alerts, announced>>
  BY DEF Raise
<1> DEFINE new == [id |-> raised + 1, cond |-> c]
<1>3. new \in AlertRows /\ draft[m] \in Seq(AlertRows)
  <2>1. c \in Conditions
    <3>1. c \in todo[m] /\ todo[m] \subseteq Conditions
      BY DEF AlertInv, NextConditions
    <3> QED
      BY <3>1
  <2>2. raised + 1 \in Nat /\ draft[m] \in Seq(AlertRows)
    BY DEF AlertInv
  <2> QED
    BY <2>1, <2>2 DEF AlertRows
<1> HIDE DEF new
<1>4. /\ Append(draft[m], new) \in Seq(AlertRows) /\ Append(draft[m], new) # <<>>
      /\ Len(draft[m]) \in Nat /\ Len(Append(draft[m], new)) = Len(draft[m]) + 1
      /\ \A n \in 1..Len(draft[m]) : Append(draft[m], new)[n] = draft[m][n]
  BY <1>3, AppendProperties, LenProperties
<1>5. draft' = [draft EXCEPT ![m] = Append(draft[m], new)]
  BY <1>1 DEF new
<1>6. DraftAnnounced(m)'
  <2>1. draft'[m] = Append(draft[m], new) /\ at'[m] = "emit"
    BY <1>2, <1>5 DEF AlertInv
  <2>2. \A n \in 1..Len(draft[m]) : draft[m][n].id \in announced
    BY <1>2 DEF AlertInv, DraftAnnounced
  <2>3. ASSUME NEW n \in 1..Len(draft'[m]), n # Len(draft'[m])
        PROVE  draft'[m][n].id \in announced
    <3>1. n \in 1..Len(draft[m])
      BY <2>1, <2>3, <1>4
    <3> QED
      BY <3>1, <2>1, <2>2, <1>4
  <2> QED
    BY <2>1, <2>3, <1>2, <1>4 DEF DraftAnnounced
<1>7. \A q \in Monitors \ {m} : DraftAnnounced(q)'
  BY <1>2, <1>5 DEF AlertInv, DraftAnnounced
<1>8. /\ todo' \in [Monitors -> SUBSET Conditions] /\ at' \in [Monitors -> {"idle", "raise", "emit"}]
      /\ draft' \in [Monitors -> Seq(AlertRows)] /\ raised' \in Nat
  BY <1>1, <1>2, <1>4, <1>5 DEF AlertInv
<1> QED
  BY <1>2, <1>6, <1>7, <1>8 DEF AlertInv, QueuedIsAnnounced

\* The last row drafted is announced.
LEMMA AnnounceStep == ASSUME AlertInv, NEW m \in Monitors, Announce(m) PROVE AlertInv'
<1>1. /\ announced' = announced \cup {draft[m][Len(draft[m])].id}
      /\ at[m] = "emit" /\ at' = [at EXCEPT ![m] = "raise"]
      /\ UNCHANGED <<present, alerts, raised, todo, draft>>
  BY DEF Announce
<1>2. \A q \in Monitors : DraftAnnounced(q)'
  BY <1>1 DEF AlertInv, DraftAnnounced
<1> QED
  BY <1>1, <1>2 DEF AlertInv, QueuedIsAnnounced

\* COMMIT finds every drafted row announced.
LEMMA CommitAlertsStep == ASSUME AlertInv, NEW m \in Monitors, CommitAlerts(m) PROVE AlertInv'
<1>1. /\ at[m] = "raise" /\ LeaveMonitor(m) /\ UNCHANGED <<present, announced, raised>>
      /\ DOMAIN alerts' = DOMAIN alerts \cup {draft[m][n].id : n \in DOMAIN draft[m]}
  BY DEF CommitAlerts
<1>2. DOMAIN draft[m] = 1..Len(draft[m])
  BY LenProperties DEF AlertInv
<1>3. \A n \in 1..Len(draft[m]) : draft[m][n].id \in announced
  BY <1>1 DEF AlertInv, DraftAnnounced
<1>4. DOMAIN alerts' \subseteq announced
  BY <1>1, <1>2, <1>3 DEF AlertInv, QueuedIsAnnounced
<1> QED
  BY <1>1, <1>4, MonitorLeaves

\* The other steps change no draft.
LEMMA OtherAlertSteps ==
    ASSUME AlertInv,
           \/ \E m \in Monitors : Scan(m)
           \/ \E a \in DOMAIN alerts : ack_alert(a)
           \/ \E c \in Conditions : Change(c)
           \/ UNCHANGED monVars
    PROVE  AlertInv'
<1>1. /\ DOMAIN alerts' = DOMAIN alerts /\ UNCHANGED <<announced, raised, draft>>
      /\ present' \subseteq Conditions
  BY DEF Scan, ack_alert, Change, monVars, AlertInv
<1>2. /\ at' \in [Monitors -> {"idle", "raise", "emit"}] /\ todo' \in [Monitors -> SUBSET Conditions]
      /\ \A m \in Monitors : (at'[m] = "emit") = (at[m] = "emit")
  BY DEF Scan, ack_alert, Change, monVars, AlertInv
<1>3. \A m \in Monitors : DraftAnnounced(m)'
  BY <1>1, <1>2 DEF AlertInv, DraftAnnounced
<1> QED
  BY <1>1, <1>2, <1>3 DEF AlertInv, QueuedIsAnnounced

\* Nobody finds an alert in the queue that was not announced, for any number of
\* monitors that run at the same time and die anywhere.
THEOREM Announced == MonSpec => []QueuedIsAnnounced
<1>1. MonInit => AlertInv
  <2> SUFFICES ASSUME MonInit PROVE AlertInv
    OBVIOUS
  <2>1. <<>> \in Seq(AlertRows) /\ Len(<<>>) = 0 /\ DOMAIN <<>> = {}
    OBVIOUS
  <2> QED
    BY <2>1 DEF MonInit, AlertInv, DraftAnnounced, QueuedIsAnnounced
<1>2. AlertInv /\ [MonNext]_monVars => AlertInv'
  <2> SUFFICES ASSUME AlertInv, [MonNext]_monVars PROVE AlertInv'
    OBVIOUS
  <2>1. ASSUME NEW m \in Monitors, Die(m) PROVE AlertInv'
    <3>1. LeaveMonitor(m) /\ UNCHANGED <<present, alerts, announced, raised>>
      BY <2>1 DEF Die
    <3> QED
      BY <3>1, MonitorLeaves DEF AlertInv, QueuedIsAnnounced
  <2> QED
    BY <2>1, RaiseStep, AnnounceStep, CommitAlertsStep, OtherAlertSteps DEF MonNext, MonStep
<1>3. AlertInv => QueuedIsAnnounced
  BY DEF AlertInv
<1> QED
  BY <1>1, <1>2, <1>3, PTL DEF MonSpec

===============================================================================
