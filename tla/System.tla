--------------------------------- MODULE System ---------------------------------
(***************************************************************************)
(* The path of an event through the system: the client (SdkClient), the    *)
(* write plane, seen as the store it implements (WitnessStore: Ingestion   *)
(* is proved to implement it), and the pipeline, seen as the atomic        *)
(* folding it implements (Aggregates).                                     *)
(*                                                                         *)
(* A request that the client no longer waits for, because its connection   *)
(* broke or its process died, is still being served: the handler does not  *)
(* look at the connection before it answers.  What it stores late meets    *)
(* the client's next attempt.                                              *)
(***************************************************************************)
EXTENDS SdkClient

CONSTANTS
    Malformed,      \* the events that _process_one rejects
    None

\* No request is not a sequence of events.
ASSUME SystemAssumption == None \notin Seq(Events)

VARIABLES
    request,        \* the events of the awaited request not yet processed, or None
    abandoned,      \* the same for the requests nobody waits for
    facts,          \* the events in the witness store
    quarantined,    \* the events in rejected_events
    folded          \* the events that the pipeline has folded

server == <<abandoned, facts, quarantined, folded>>
sysvars == <<vars, request, server>>

-------------------------------------------------------------------------------
(* The server *)

\* _process_one, of an event that is new, or already there and a duplicate.  The
\* mode of the key decides whether it is stored, and X-TrueFigure-Mode does not:
\* echo is served like flush.
Process(e) ==
    /\ facts' = IF e \in Malformed THEN facts ELSE facts \cup {e}
    /\ quarantined' = IF e \in Malformed THEN quarantined \cup {e} ELSE quarantined

\* Faulty: a rejected event ends the batch.
ServeUntilRejected ==
    /\ request \notin {None, <<>>}
    /\ Process(Head(request))
    /\ request' = IF Head(request) \in Malformed THEN <<>> ELSE Tail(request)
    /\ UNCHANGED <<vars, abandoned, folded>>

\* The loop of ingest_events, one committed event at a time.
Serve ==
    /\ request \notin {None, <<>>}
    /\ Process(Head(request))
    /\ request' = Tail(request)
    /\ UNCHANGED <<vars, abandoned, folded>>

ServeAbandoned(r) ==
    /\ Process(Head(r))
    /\ abandoned' = (abandoned \ {r}) \cup ({Tail(r)} \ {<<>>})
    /\ UNCHANGED <<vars, request, folded>>

\* The process dies, or the batch fails: the events before are stored.
FailAbandoned(r) ==
    /\ abandoned' = abandoned \ {r}
    /\ UNCHANGED <<vars, request, facts, quarantined, folded>>

\* run_pipeline, for one event.
Fold(e) ==
    /\ e \in facts \ folded
    /\ folded' = folded \cup {e}
    /\ UNCHANGED <<vars, request, abandoned, facts, quarantined>>

-------------------------------------------------------------------------------
(* The client and the connection *)

Send ==
    /\ pc \in {"send", "echo"}
    /\ request = None
    /\ request' = Sent
    /\ UNCHANGED <<vars, server>>

\* 200, after the last event.
Respond ==
    /\ request = <<>>
    /\ Answered
    /\ request' = None
    /\ UNCHANGED server

\* One error for the batch, after any number of events: a limit, an exception
\* in the loop, a process that dies behind the proxy.
RespondError ==
    /\ request # None
    /\ Retry \/ GiveUp
    /\ request' = None
    /\ UNCHANGED server

\* The awaited request, if it has events left, goes on without its client.
Abandon ==
    /\ request' = None
    /\ abandoned' = abandoned \cup ({request} \ {None, <<>>})
    /\ UNCHANGED <<facts, quarantined, folded>>

Disconnect == Outage /\ Abandon

Die == Crash /\ Abandon

\* What the application and the client do by themselves.
Call == (\E e \in Events : Track(e)) \/ Flush \/ Echo

Local == ReadSpool \/ TruncateSpool \/ Spool

ClientStep == Local /\ UNCHANGED <<request, server>>

-------------------------------------------------------------------------------
SysInit ==
    /\ Init
    /\ request = None
    /\ abandoned = {}
    /\ facts = {}
    /\ quarantined = {}
    /\ folded = {}

\* One step of the call the application has made, here or on the server.
Progress == ClientStep \/ Send \/ Serve \/ Respond \/ RespondError \/ Disconnect

SysNext ==
    \/ Call /\ UNCHANGED <<request, server>>
    \/ Progress
    \/ \E r \in abandoned : ServeAbandoned(r) \/ FailAbandoned(r)
    \/ \E e \in Events : Fold(e)
    \/ Die

SysSpec == SysInit /\ [][SysNext]_sysvars

\* A call runs until it returns, and the worker goes on folding.
SysFairSpec ==
    /\ SysSpec
    /\ WF_sysvars(Progress)
    /\ \A e \in Events : WF_sysvars(Fold(e))

-------------------------------------------------------------------------------
(* Properties *)

\* What the client has let go of because it was answered is in the store, or in
\* quarantine: errors in the middle of a batch, requests that go on after their
\* client left, deaths and replays of the spool do not separate the two.
AnsweredIsStored == answered \subseteq facts \cup quarantined

\* The application calls flush from time to time, and after some time the server
\* fails no more requests.
Recovery ==
    /\ WF_sysvars(Flush /\ UNCHANGED <<request, server>>)
    /\ <>[][~RespondError]_sysvars

\* End to end: what is given to a buffered client reaches the aggregates (or
\* quarantine), whatever errors the server answers first.  A crash, or an outage
\* without an HTTP answer, ends this promise, as echo does for its events.
TrackedIsCounted ==
    Recovery =>
        \A e \in Events :
            buffered /\ e \in tracked ~> e \in folded \cup quarantined \/ e \notin tracked \/ faulty
===============================================================================
