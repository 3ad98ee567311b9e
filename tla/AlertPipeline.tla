----------------------------- MODULE AlertPipeline -----------------------------
(***************************************************************************)
(* The alert pipeline of vpsmon: the tasks that raise alerts               *)
(* (alerts.fire_custom_alert, alerts.check_alerts), the alerts table, the  *)
(* bounded queue of the notification hook (app._notify_hook), and the      *)
(* incident timeline the hook keeps (incidents.handle_alert).              *)
(*                                                                         *)
(* Everything runs on one event loop, so a handler is atomic between two   *)
(* awaits.  Every db.execute is an await: one action stands for one SQL    *)
(* statement, or for the code that runs between two of them.               *)
(***************************************************************************)
EXTENDS Naturals, Sequences, FiniteSets

CONSTANTS
    Callers,      \* tasks that may be inside fire_custom_alert or check_alerts
    Keys,         \* (alert_type, metric_name) pairs
    Raisers,      \* [Keys -> SUBSET Callers]: the tasks that raise a key
    Recoverable,  \* the keys whose raisers also report recovery (severity "info")
    Window,       \* [Keys -> Nat]: the duplicate window of the key's call site
    QueueSize,    \* maxsize of the hook's queue
    MaxTime,      \* bound: the last instant of the clock
    MaxAlerts     \* bound: rows of the alerts table

ASSUME PipelineAssumption ==
    /\ Raisers \in [Keys -> SUBSET Callers]
    /\ Recoverable \subseteq Keys
    /\ Window \in [Keys -> Nat]
    /\ QueueSize \in Nat \ {0}
    /\ MaxTime \in Nat
    /\ MaxAlerts \in Nat

VARIABLES
    now,        \* int(time.time())
    alerts,     \* the alerts table, in id order
    call,       \* per caller: where it is in fire_custom_alert / _insert_alert
    queue,      \* the hook's asyncio.Queue, holding alert ids
    hook,       \* where _notify_hook is, the alert and the incident rows it holds
    incidents,  \* the incidents table, in id order
    missed      \* history: keys one of whose alerts never reached handle_alert's end

callerVars == <<call, alerts>>
vars == <<now, alerts, call, queue, hook, incidents, missed>>

Kinds == {"raise", "recover"}     \* "recover": severity info and "recover" in the message
\* by: history, the task that inserted the row.
Alert == [key : Keys, kind : Kinds, ts : 0..MaxTime, acked : BOOLEAN, by : Callers]
Incident == [key : Keys, open : BOOLEAN, noted : BOOLEAN]
Call == [pc : {"idle"}]
    \cup [pc : {"check", "insert", "fetch"}, key : Keys, kind : Kinds, at : 0..MaxTime]
    \cup [pc : {"publish"}, row : Nat \ {0}]
Hook == [pc : {"down", "get"}]
    \cup [pc : {"dispatch", "select", "insert"}, alert : Nat \ {0}]
    \cup [pc : {"update"}, alert : Nat \ {0}, todo : SUBSET (Nat \ {0})]

Idle == [pc |-> "idle"]
Waiting == [pc |-> "get"]

Init ==
    /\ now = 0
    /\ alerts = <<>>
    /\ call = [c \in Callers |-> Idle]
    /\ queue = <<>>
    /\ hook = [pc |-> "down"]
    /\ incidents = <<>>
    /\ missed = {}

Tick ==
    /\ now < MaxTime
    /\ now' = now + 1
    /\ UNCHANGED <<alerts, call, queue, hook, incidents, missed>>

-----------------------------------------------------------------------------
(* A caller: fire_custom_alert, or one threshold of check_alerts.          *)

\* The condition holds; the cutoff of the duplicate check is fixed here.
Raise(c, k, kind) ==
    /\ call[c].pc = "idle"
    /\ c \in Raisers[k]
    /\ kind = "recover" => k \in Recoverable
    /\ Len(alerts) + Cardinality({d \in Callers : call[d].pc \in {"check", "insert"}}) < MaxAlerts
    /\ call' = [call EXCEPT ![c] = [pc |-> "check", key |-> k, kind |-> kind, at |-> now]]
    /\ UNCHANGED <<now, alerts, queue, hook, incidents, missed>>

AlertRows(k) == {i \in DOMAIN alerts : alerts[i].key = k}

\* Mutant: the window is left out of the cutoff.
SimilarAtOnce(k, at) == {i \in AlertRows(k) : ~alerts[i].acked /\ alerts[i].ts >= at}

\* Rows of the key, not acknowledged, with ts > at - window.
Similar(k, at) ==
    {i \in AlertRows(k) : ~alerts[i].acked /\ alerts[i].ts + Window[k] > at}

IsDuplicate(c) ==
    /\ call[c].pc = "check"
    /\ call' = [call EXCEPT ![c] =
                  IF Similar(@.key, @.at) # {} THEN Idle
                  ELSE [pc |-> "insert", key |-> @.key, kind |-> @.kind, at |-> now]]
    /\ UNCHANGED <<now, alerts, queue, hook, incidents, missed>>

\* ts is read when the task resumes, somewhere between the check and the INSERT.
Insert(c) ==
    /\ call[c].pc = "insert"
    /\ \E ts \in call[c].at..now :
         /\ alerts' = Append(alerts, [key |-> call[c].key, kind |-> call[c].kind,
                                      ts |-> ts, acked |-> FALSE, by |-> c])
         /\ call' = [call EXCEPT ![c] =
                       [pc |-> "fetch", key |-> @.key, kind |-> @.kind, at |-> ts]]
    /\ UNCHANGED <<now, queue, hook, incidents, missed>>

\* Mutant: the newest row of the table, whoever inserted it.
FetchLastRow(c) ==
    /\ call[c].pc = "fetch"
    /\ call' = [call EXCEPT ![c] = [pc |-> "publish", row |-> Len(alerts)]]
    /\ UNCHANGED <<now, alerts, queue, hook, incidents, missed>>

\* SELECT ... WHERE ts, alert_type, metric_name ORDER BY id DESC LIMIT 1: the
\* newest such row, which another caller may have inserted meanwhile.
Fetch(c) ==
    /\ call[c].pc = "fetch"
    /\ LET same == {i \in AlertRows(call[c].key) : alerts[i].ts = call[c].at} IN
         \E i \in same :
           /\ \A j \in same : j <= i
           /\ call' = [call EXCEPT ![c] = [pc |-> "publish", row |-> i]]
    /\ UNCHANGED <<now, alerts, queue, hook, incidents, missed>>

\* Mutant: a queue without maxsize.
PublishUnbounded(c) ==
    /\ call[c].pc = "publish"
    /\ queue' = Append(queue, call[c].row)
    /\ call' = [call EXCEPT ![c] = Idle]
    /\ UNCHANGED <<now, alerts, hook, incidents, missed>>

\* _notify_subscribers: put_nowait on the hook's queue if it is subscribed;
\* QueueFull is swallowed.
Publish(c) ==
    /\ call[c].pc = "publish"
    /\ IF hook.pc # "down" /\ Len(queue) < QueueSize
         THEN queue' = Append(queue, call[c].row) /\ UNCHANGED missed
         ELSE missed' = missed \cup {alerts[call[c].row].key} /\ UNCHANGED queue
    /\ call' = [call EXCEPT ![c] = Idle]
    /\ UNCHANGED <<now, alerts, hook, incidents>>

\* A database error leaves fire_custom_alert with an exception its caller logs.
CallFails(c) ==
    /\ call[c].pc \in {"check", "insert", "fetch"}
    /\ missed' = missed \cup (IF call[c].pc = "fetch" THEN {call[c].key} ELSE {})
    /\ call' = [call EXCEPT ![c] = Idle]
    /\ UNCHANGED <<now, alerts, queue, hook, incidents>>

\* The operator acknowledges an alert.
Acknowledge(i) ==
    /\ ~alerts[i].acked
    /\ alerts' = [alerts EXCEPT ![i].acked = TRUE]
    /\ UNCHANGED <<now, call, queue, hook, incidents, missed>>

-----------------------------------------------------------------------------
(* The hook, one task, and the incidents it opens and closes.              *)

OpenRows(k) == {i \in DOMAIN incidents : incidents[i].key = k /\ incidents[i].open}
Held == alerts[hook.alert]   \* the alert the hook is handling

\* Last step of on_startup: the callers' loops are already running.
Subscribe ==
    /\ hook.pc = "down"
    /\ hook' = Waiting
    /\ UNCHANGED <<now, alerts, call, queue, incidents, missed>>

Get ==
    /\ hook.pc = "get"
    /\ queue # <<>>
    /\ hook' = [pc |-> "dispatch", alert |-> Head(queue)]
    /\ queue' = Tail(queue)
    /\ UNCHANGED <<now, alerts, call, incidents, missed>>

\* notifications.dispatch, then push.dispatch_alert.
Dispatch ==
    /\ hook.pc = "dispatch"
    /\ hook' = [pc |-> "select", alert |-> hook.alert]
    /\ UNCHANGED <<now, alerts, call, queue, incidents, missed>>

\* Mutant: open_incident does not look for an open row.
SelectUnchecked ==
    /\ hook.pc = "select"
    /\ hook' = IF Held.kind = "recover"
                 THEN [pc |-> "update", alert |-> hook.alert, todo |-> OpenRows(Held.key)]
               ELSE [pc |-> "insert", alert |-> hook.alert]
    /\ UNCHANGED <<now, alerts, call, queue, incidents, missed>>

\* handle_alert's first statement: what is open for the key.
Select ==
    /\ hook.pc = "select"
    /\ LET open == OpenRows(Held.key) IN
         hook' = IF Held.kind = "recover"
                   THEN [pc |-> "update", alert |-> hook.alert, todo |-> open]
                 ELSE IF open # {} THEN Waiting
                 ELSE [pc |-> "insert", alert |-> hook.alert]
    /\ UNCHANGED <<now, alerts, call, queue, incidents, missed>>

OpenIncident ==
    /\ hook.pc = "insert"
    /\ incidents' = Append(incidents, [key |-> Held.key, open |-> TRUE, noted |-> FALSE])
    /\ hook' = Waiting
    /\ UNCHANGED <<now, alerts, call, queue, missed>>

\* close_incident updates the rows it selected one by one.
CloseIncident ==
    /\ hook.pc = "update"
    /\ \/ /\ hook.todo = {}
          /\ hook' = Waiting
          /\ UNCHANGED incidents
       \/ \E i \in hook.todo :
          /\ incidents' = [incidents EXCEPT ![i].open = FALSE]
          /\ hook' = [pc |-> "update", alert |-> hook.alert, todo |-> hook.todo \ {i}]
    /\ UNCHANGED <<now, alerts, call, queue, missed>>

\* Mutant: no try inside the hook's loop, so that the first exception ends the task.
HookDies ==
    /\ hook.pc \in {"dispatch", "select", "insert", "update"}
    /\ missed' = missed \cup {Held.key}
    /\ hook' = [pc |-> "dead", alert |-> hook.alert]
    /\ UNCHANGED <<now, alerts, call, queue, incidents>>

\* An exception in dispatch skips handle_alert; one inside handle_alert is
\* swallowed there.  Either way the loop goes on with the next alert.
HookFails ==
    /\ hook.pc \in {"dispatch", "select", "insert", "update"}
    /\ missed' = missed \cup {Held.key}
    /\ hook' = Waiting
    /\ UNCHANGED <<now, alerts, call, queue, incidents>>

\* Mutant: an annotation that writes the whole row reopens the incident.
AnnotateReopens(i) ==
    /\ ~incidents[i].noted
    /\ incidents' = [incidents EXCEPT ![i] = [key |-> @.key, open |-> TRUE, noted |-> TRUE]]
    /\ UNCHANGED <<now, alerts, call, queue, hook, missed>>

\* ack_incident and add_postmortem: neither touches "resolved".
Annotate(i) ==
    /\ ~incidents[i].noted
    /\ incidents' = [incidents EXCEPT ![i].noted = TRUE]
    /\ UNCHANGED <<now, alerts, call, queue, hook, missed>>

-----------------------------------------------------------------------------
InFlight ==   \* keys of alerts stored but not yet fully handled
    {call[c].key : c \in {d \in Callers : call[d].pc = "fetch"}}
    \cup {alerts[call[c].row].key : c \in {d \in Callers : call[d].pc = "publish"}}
    \cup {alerts[queue[i]].key : i \in DOMAIN queue}
    \cup (IF hook.pc \in {"down", "get"} THEN {} ELSE {Held.key})

\* The process dies: the tables survive, everything in memory is lost.
Crash ==
    /\ missed' = missed \cup InFlight
    /\ call' = [c \in Callers |-> Idle]
    /\ queue' = <<>>
    /\ hook' = [pc |-> "down"]
    /\ UNCHANGED <<now, alerts, incidents>>

CallerStep(c) == IsDuplicate(c) \/ Insert(c) \/ Fetch(c) \/ Publish(c)
HookStep == Subscribe \/ Get \/ Dispatch \/ Select \/ OpenIncident \/ CloseIncident

Next ==
    \/ Tick
    \/ \E c \in Callers, k \in Keys, kind \in Kinds : Raise(c, k, kind)
    \/ \E c \in Callers : CallerStep(c) \/ CallFails(c)
    \/ \E i \in DOMAIN alerts : Acknowledge(i)
    \/ HookStep
    \/ HookFails
    \/ \E i \in DOMAIN incidents : Annotate(i)
    \/ Crash

Spec == Init /\ [][Next]_vars

\* The event loop runs every ready task and the executor every statement, and
\* each notifier has a timeout; errors, crashes and operators owe nothing.
Fairness ==
    /\ \A c \in Callers : WF_vars(CallerStep(c))
    /\ WF_vars(HookStep)

FairSpec == Spec /\ Fairness

-----------------------------------------------------------------------------
(* Correctness.                                                            *)

TypeOK ==
    /\ now \in 0..MaxTime
    /\ alerts \in Seq(Alert)
    /\ call \in [Callers -> Call]
    /\ \A c \in Callers : call[c].pc = "publish" => call[c].row \in DOMAIN alerts
    /\ queue \in Seq(DOMAIN alerts)
    /\ Len(queue) <= QueueSize
    /\ hook \in Hook
    /\ hook.pc \notin {"down", "get"} => hook.alert \in DOMAIN alerts
    /\ hook.pc = "update" => hook.todo \subseteq DOMAIN incidents
    /\ incidents \in Seq(Incident)
    /\ missed \subseteq Keys

\* incidents.py selects the open rows of a key and inserts in a later
\* statement, with no unique index: a key still never has two open incidents,
\* because the hook is the only task that opens them.
OneOpenPerKey ==
    \A i, j \in DOMAIN incidents :
        incidents[i].key = incidents[j].key /\ incidents[i].open /\ incidents[j].open => i = j

\* alerts._is_duplicate checks and _insert_alert inserts several awaits later, so
\* that tasks raising one key at the same time all pass the check.  But no task
\* repeats itself: two unacknowledged alerts of a key from one task are a window
\* apart, and a key has at most one alert per window and task that raises it.
DuplicatesSpaced ==
    \A i, j \in DOMAIN alerts :
        /\ i < j /\ alerts[i].key = alerts[j].key /\ alerts[i].by = alerts[j].by
        /\ ~alerts[i].acked /\ ~alerts[j].acked
        => alerts[i].ts + Window[alerts[i].key] <= alerts[j].ts

SoleRaiser(k) == \A c, d \in Raisers[k] : c = d

\* Several tasks may publish alerts of one key in another order than they stored them,
\* and each may fetch the row of another: it matters only if the key can recover.
OrderMatters(k) == k \in Recoverable /\ ~SoleRaiser(k)

Ongoing(k) ==   \* the last alert of the key is a raise
    \E i \in AlertRows(k) : alerts[i].kind = "raise" /\ \A j \in AlertRows(k) : j <= i
UpToDate(k) == (OpenRows(k) # {}) <=> Ongoing(k)

\* "auto-records when alerts fire & resolve": once nothing about a key is in
\* flight and no alert of it was lost, its incident is open exactly when its
\* last alert was a raise: FIFO through three tasks, no alert of one key taken
\* for another's, no recovery overtaking its alert.  Two tasks that raise one key
\* may swap their alerts, which is left out where one of the two is a recovery.
TimelineTracksAlerts ==
    \A k \in Keys \ (missed \cup InFlight) : ~OrderMatters(k) => UpToDate(k)

\* The hook never stops: every key whose alerts were not lost ends up with a
\* timeline that agrees with its last alert, even if handling other alerts
\* fails or the process is restarted.
TimelineConverges ==
    \A k \in Keys : ~OrderMatters(k) => <>[](k \notin missed => UpToDate(k))

Log == INSTANCE IncidentLog
    WITH timeline <- [i \in DOMAIN incidents |->
                        [key |-> incidents[i].key, open |-> incidents[i].open]]

\* The incidents table behaves like the abstract timeline: one open entry per
\* key, entries resolve once, none reopens or disappears, whatever annotations
\* and crashes happen between the statements of a handler.
ImplementsIncidentLog == Log!Spec

=============================================================================
