------------------------------- MODULE SdkClient --------------------------------
(***************************************************************************)
(* The reference client (sdk/truefigure/client.py): events are queued in   *)
(* memory, flushed in chunks with contract-driven retries and, when a      *)
(* buffer_path is given, spooled to a JSONL file when a chunk fails.       *)
(*                                                                         *)
(* The server is seen through its answers only: a chunk is answered, event *)
(* by event, or by one error, or not at all.  The client is                *)
(* single-threaded; its process may die at any step, and only the file     *)
(* survives.                                                               *)
(***************************************************************************)
EXTENDS Integers, Sequences, SequencesExt

CONSTANTS
    Events,         \* the envelopes the application tracks, each once
    MAX_BATCH,
    MaxRetries,     \* max_retries
    Faults          \* bound: which of "crash" and "outage" happen

ASSUME ClientAssumption ==
    /\ MAX_BATCH \in Nat \ {0}
    /\ MaxRetries \in Nat
    /\ Faults \subseteq {"crash", "outage"}

VARIABLES
    buffered,       \* whether the client was given a buffer_path
    pending,        \* _pending
    spool,          \* the events in the buffer file
    torn,           \* whether the file ends in half a line
    batch,          \* flush: the events not yet answered or put back
    pc,             \* where the client is in flush or echo
    attempt,        \* _request: attempts made for the current chunk
    tracked,        \* history: events given to the client for delivery
    echoed,         \* history: events given to echo
    answered,       \* history: events the server has answered to flush
    spooled,        \* history: events that were spooled
    faulty          \* history: whether the client has crashed or met an outage

memory == <<pending, batch, pc, attempt>>
file == <<spool, torn>>
history == <<tracked, echoed, answered, spooled, faulty>>
vars == <<buffered, memory, file, history>>

\* The chunk of the batch that is sent next: batch[i : i + MAX_BATCH].
Chunk(b) == SubSeq(b, 1, IF Len(b) < MAX_BATCH THEN Len(b) ELSE MAX_BATCH)

Rest(b) == SubSeq(b, Len(Chunk(b)) + 1, Len(b))

-------------------------------------------------------------------------------
(* The application calls *)

\* flush: the queue is taken out of the client.
BeginFlush(queue) ==
    /\ batch' = queue
    /\ pending' = <<>>
    /\ attempt' = 0
    /\ pc' = IF buffered THEN "read" ELSE IF queue = <<>> THEN "idle" ELSE "send"

\* track_*: _enqueue, which flushes a full queue.
Track(e) ==
    LET queue == Append(pending, e) IN
    /\ pc = "idle"
    /\ e \notin tracked \cup echoed
    /\ tracked' = tracked \cup {e}
    /\ IF Len(queue) >= MAX_BATCH THEN BeginFlush(queue)
       ELSE pending' = queue /\ UNCHANGED <<batch, pc, attempt>>
    /\ UNCHANGED <<buffered, file, echoed, answered, spooled, faulty>>

Flush ==
    /\ pc = "idle"
    /\ BeginFlush(pending)
    /\ UNCHANGED <<buffered, file, history>>

\* echo(): the queue is sent with X-TrueFigure-Mode: test, in one request; the
\* application no longer asks for its delivery.
Echo ==
    /\ pc = "idle"
    /\ pending # <<>>
    /\ batch' = pending
    /\ pending' = <<>>
    /\ attempt' = 0
    /\ pc' = "echo"
    /\ tracked' = tracked \ ToSet(pending)
    /\ echoed' = echoed \cup ToSet(pending)
    /\ UNCHANGED <<buffered, file, answered, spooled, faulty>>

-------------------------------------------------------------------------------
(* OfflineBuffer.drain *)

\* The lines are parsed; half a line raises JSONDecodeError and ends flush.
ReadSpool ==
    /\ pc = "read"
    /\ batch' = IF torn THEN <<>> ELSE spool \o batch
    /\ pc' = IF torn THEN "idle" ELSE "truncate"
    /\ UNCHANGED <<pending, attempt, buffered, file, history>>

\* Faulty: the file is not truncated.
TruncateSpoolNot ==
    /\ pc = "truncate"
    /\ pc' = IF batch = <<>> THEN "idle" ELSE "send"
    /\ UNCHANGED <<pending, batch, attempt, buffered, file, history>>

TruncateSpool ==
    /\ pc = "truncate"
    /\ spool' = <<>>
    /\ torn' = FALSE
    /\ pc' = IF batch = <<>> THEN "idle" ELSE "send"
    /\ UNCHANGED <<pending, batch, attempt, buffered, history>>

-------------------------------------------------------------------------------
(* _request, for a chunk of flush or for echo *)

Sent == IF pc = "echo" THEN batch ELSE Chunk(batch)

\* 200: every event of the chunk is answered.
Answered ==
    /\ pc \in {"send", "echo"}
    /\ answered' = IF pc = "send" THEN answered \cup ToSet(Sent) ELSE answered
    /\ batch' = IF pc = "send" THEN Rest(batch) ELSE <<>>
    /\ attempt' = 0
    /\ pc' = IF batch' = <<>> THEN "idle" ELSE "send"
    /\ UNCHANGED <<pending, buffered, file, tracked, echoed, spooled, faulty>>

\* Faulty: the number of attempts is reset when they are used up.
RetryResetting ==
    /\ pc \in {"send", "echo"}
    /\ attempt' = IF attempt = MaxRetries THEN 0 ELSE attempt + 1
    /\ UNCHANGED <<pending, batch, pc, buffered, file, history>>

\* A retryable error, and attempts are left: the same chunk again.
Retry ==
    /\ pc \in {"send", "echo"}
    /\ attempt + 1 <= MaxRetries
    /\ attempt' = attempt + 1
    /\ UNCHANGED <<pending, batch, pc, buffered, file, history>>

\* Faulty: the failed chunk is neither spooled nor put back.
GiveUpDropping ==
    /\ pc \in {"send", "echo"}
    /\ attempt' = 0
    /\ batch' = Rest(batch)
    /\ pc' = IF batch' = <<>> THEN "idle" ELSE "send"
    /\ UNCHANGED <<pending, buffered, file, history>>

\* An error that is not retried, or was retried often enough: TrueFigureError.
\* flush spools the chunk, or puts it back in front of the queue and raises;
\* echo raises.
GiveUp ==
    /\ pc \in {"send", "echo"}
    /\ attempt' = 0
    /\ \/ /\ pc = "send" /\ buffered
          /\ pc' = "spool"
          /\ UNCHANGED <<pending, batch>>
       \/ /\ pc = "send" /\ ~buffered
          /\ pending' = Sent \o pending
          /\ batch' = <<>>
          /\ pc' = "idle"
       \/ /\ pc = "echo"
          /\ batch' = <<>>
          /\ pc' = "idle"
          /\ UNCHANGED pending
    /\ UNCHANGED <<buffered, file, history>>

\* No HTTP answer (URLError, a timeout, a body that is not JSON): the exception
\* passes through _http, _request and flush.
Outage ==
    /\ "outage" \in Faults
    /\ pc \in {"send", "echo"}
    /\ attempt' = 0
    /\ batch' = <<>>
    /\ pc' = "idle"
    /\ faulty' = TRUE
    /\ UNCHANGED <<pending, buffered, file, tracked, echoed, answered, spooled>>

\* OfflineBuffer.append, then the next chunk.
Spool ==
    /\ pc = "spool"
    /\ spool' = spool \o Chunk(batch)
    /\ spooled' = spooled \cup ToSet(Chunk(batch))
    /\ batch' = Rest(batch)
    /\ pc' = IF batch' = <<>> THEN "idle" ELSE "send"
    /\ UNCHANGED <<pending, attempt, buffered, torn, tracked, echoed, answered, faulty>>

\* The process dies, perhaps while it writes the file, and is started again.
Crash ==
    /\ "crash" \in Faults
    /\ pc' = "idle"
    /\ pending' = <<>>
    /\ batch' = <<>>
    /\ attempt' = 0
    /\ IF pc = "spool"
       THEN \E n \in 0..Len(Chunk(batch)) :
                /\ spool' = spool \o SubSeq(Chunk(batch), 1, n)
                /\ torn' \in IF n < Len(Chunk(batch)) THEN BOOLEAN ELSE {FALSE}
       ELSE UNCHANGED file
    /\ faulty' = TRUE
    /\ UNCHANGED <<buffered, tracked, echoed, answered, spooled>>

-------------------------------------------------------------------------------
Init ==
    /\ buffered \in BOOLEAN
    /\ pending = <<>>
    /\ spool = <<>>
    /\ torn = FALSE
    /\ batch = <<>>
    /\ pc = "idle"
    /\ attempt = 0
    /\ tracked = {}
    /\ echoed = {}
    /\ answered = {}
    /\ spooled = {}
    /\ faulty = FALSE

\* One step of a call the application has made.
Step ==
    \/ ReadSpool \/ TruncateSpool \/ Answered \/ Retry \/ GiveUp \/ Outage \/ Spool

Next ==
    \/ \E e \in Events : Track(e)
    \/ Flush
    \/ Echo
    \/ Step
    \/ Crash

Spec == Init /\ [][Next]_vars

-------------------------------------------------------------------------------
(* Properties *)

\* Everything the client still has.
Held == ToSet(pending) \cup ToSet(batch) \cup ToSet(spool)

\* An event the server has answered is nowhere in the client: it is not sent
\* again by a later flush, nor after a restart.
AnsweredIsDone == answered \cap Held = {}

\* Every call of flush and echo returns, whatever the server answers.
CallsReturn == pc # "idle" ~> pc = "idle"

\* INTEGRATION.md:97, "failed flushes survive crashes/outages": an event that was
\* spooled is in the file, in the hands of the flush that replays it, or answered.
SpooledSurvive == spooled \subseteq Held \cup answered
===============================================================================
