--------------------------------- MODULE Alerts ---------------------------------
(***************************************************************************)
(* The alert monitors (run_monitors and _raise_alert of domain/engine.py)  *)
(* and the alert queue of the read plane (:ack).                           *)
(*                                                                         *)
(* A run reads the ingestion statistics once and raises an alert for every *)
(* condition that it finds.  The alerts are inserted in one transaction;   *)
(* emit uses a connection of its own, so that a notification is committed  *)
(* before the alert that it announces.                                     *)
(***************************************************************************)
EXTENDS Integers, Sequences, FiniteSets

CONSTANTS
    Deployments,
    Monitors,       \* the processes that run run_monitors
    MaxScans,       \* bound: executions of run_monitors
    MaxChanges,     \* bound: conditions that appear or clear
    MaxCrashes      \* bound: deaths of monitors

ASSUME AlertAssumption == MaxScans \in Nat /\ MaxChanges \in Nat /\ MaxCrashes \in Nat

AlertCodes == {"event_silence", "join_rate_drop"}
Conditions == Deployments \X AlertCodes

VARIABLES
    present,        \* the conditions that hold: two days of silence, no joins
    alerts,         \* the committed rows: alert -> [cond, status]
    announced,      \* the alerts that alert.raised was emitted for
    raised,         \* alert_refs handed out
    at, todo, draft,    \* of each monitor: where it is, what it found, its rows
    scans, changes, crashes

monVars == <<present, alerts, announced, raised, at, todo, draft, scans, changes, crashes>>

LeaveMonitor(m) ==
    /\ at' = [at EXCEPT ![m] = "idle"]
    /\ todo' = [todo EXCEPT ![m] = {}]
    /\ draft' = [draft EXCEPT ![m] = <<>>]

\* The statistics are read, for all deployments of the workspace.
Scan(m) ==
    /\ at[m] = "idle"
    /\ present # {}
    /\ scans < MaxScans
    /\ scans' = scans + 1
    /\ todo' = [todo EXCEPT ![m] = present]
    /\ at' = [at EXCEPT ![m] = "raise"]
    /\ UNCHANGED <<present, alerts, announced, raised, draft, changes, crashes>>

\* Within a deployment silence comes first.
NextConditions(m) ==
    {c \in todo[m] : c[2] = "event_silence" \/ <<c[1], "event_silence">> \notin todo[m]}

\* _raise_alert: a row with a new reference.
Raise(m) ==
    /\ at[m] = "raise"
    /\ \E c \in NextConditions(m) :
        /\ todo' = [todo EXCEPT ![m] = @ \ {c}]
        /\ draft' = [draft EXCEPT ![m] = Append(@, [id |-> raised + 1, cond |-> c])]
    /\ raised' = raised + 1
    /\ at' = [at EXCEPT ![m] = "emit"]
    /\ UNCHANGED <<present, alerts, announced, scans, changes, crashes>>

\* emit("alert.raised"), in a transaction of its own.
Announce(m) ==
    /\ at[m] = "emit"
    /\ announced' = announced \cup {draft[m][Len(draft[m])].id}
    /\ at' = [at EXCEPT ![m] = "raise"]
    /\ UNCHANGED <<present, alerts, raised, todo, draft, scans, changes, crashes>>

\* Faulty: the alerts are committed before the last one is announced.
CommitAlertsEarly(m) ==
    /\ at[m] = "emit"
    /\ todo[m] = {}
    /\ alerts' = [a \in DOMAIN alerts \cup {draft[m][n].id : n \in DOMAIN draft[m]} |->
            IF a \in DOMAIN alerts THEN alerts[a]
            ELSE [cond |-> (CHOOSE x \in {draft[m][n] : n \in DOMAIN draft[m]} : x.id = a).cond,
                  status |-> "open"]]
    /\ LeaveMonitor(m)
    /\ UNCHANGED <<present, announced, raised, scans, changes, crashes>>

\* COMMIT, when every condition is dealt with.
CommitAlerts(m) ==
    /\ at[m] = "raise"
    /\ todo[m] = {}
    /\ alerts' = [a \in DOMAIN alerts \cup {draft[m][n].id : n \in DOMAIN draft[m]} |->
            IF a \in DOMAIN alerts THEN alerts[a]
            ELSE [cond |-> (CHOOSE x \in {draft[m][n] : n \in DOMAIN draft[m]} : x.id = a).cond,
                  status |-> "open"]]
    /\ LeaveMonitor(m)
    /\ UNCHANGED <<present, announced, raised, scans, changes, crashes>>

Die(m) ==
    /\ at[m] # "idle"
    /\ crashes < MaxCrashes
    /\ crashes' = crashes + 1
    /\ LeaveMonitor(m)
    /\ UNCHANGED <<present, alerts, announced, raised, scans, changes>>

\* POST /v1/alerts/{alert_id}:ack; only an open alert is found.
ack_alert(a) ==
    /\ alerts[a].status = "open"
    /\ alerts' = [alerts EXCEPT ![a].status = "acked"]
    /\ UNCHANGED <<present, announced, raised, at, todo, draft, scans, changes, crashes>>

\* A condition appears or clears, as events arrive or fail to.
Change(c) ==
    /\ changes < MaxChanges
    /\ changes' = changes + 1
    /\ present' = IF c \in present THEN present \ {c} ELSE present \cup {c}
    /\ UNCHANGED <<alerts, announced, raised, at, todo, draft, scans, crashes>>

-------------------------------------------------------------------------------
MonInit ==
    /\ present = {}
    /\ alerts = <<>>
    /\ announced = {}
    /\ raised = 0
    /\ at = [m \in Monitors |-> "idle"]
    /\ todo = [m \in Monitors |-> {}]
    /\ draft = [m \in Monitors |-> <<>>]
    /\ scans = 0 /\ changes = 0 /\ crashes = 0

MonStep(m) == Raise(m) \/ Announce(m) \/ CommitAlerts(m)

MonNext ==
    \/ \E m \in Monitors : Scan(m) \/ MonStep(m) \/ Die(m)
    \/ \E a \in DOMAIN alerts : ack_alert(a)
    \/ \E c \in Conditions : Change(c)

MonSpec == MonInit /\ [][MonNext]_monVars

-------------------------------------------------------------------------------
(* Properties *)

\* Nobody finds an alert in the queue that alert.raised was not emitted for,
\* whatever dies in between: the notification comes first.
QueuedIsAnnounced == DOMAIN alerts \subseteq announced

===============================================================================
