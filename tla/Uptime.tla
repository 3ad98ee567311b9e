--------------------------------- MODULE Uptime ---------------------------------
(***************************************************************************)
(* The uptime monitor (vpsmon/uptime.py) on top of the alert pipeline: the *)
(* checks table, the polling loop that probes every due check and persists *)
(* each result in two statements before it fires the transition alert, and *)
(* the request handlers that add, edit and delete checks meanwhile.        *)
(*                                                                         *)
(* AlertPipeline is instantiated with the uptime loop as the only caller   *)
(* and the check names as keys; a step of the pipeline that is not a step  *)
(* of the loop leaves this module's variables alone.                       *)
(***************************************************************************)
EXTENDS Naturals, Functions

CONSTANTS
    Checks,      \* row ids (AUTOINCREMENT: an id is used once)
    Names,       \* check names; alerts of a check have metric "uptime:<name>"
    Interval,    \* interval_sec, in clock units
    DupWindow,   \* the 60 s of fire_custom_alert, in clock units
    MaxBusy,     \* longest time from a poll to the end of its last statement
    MaxHistory,  \* bound: history rows of a check are counted up to this
    QueueSize, MaxTime, MaxAlerts

ASSUME UptimeAssumption ==
    /\ Interval \in Nat \ {0}
    /\ DupWindow \in Nat
    /\ MaxBusy \in Nat
    /\ MaxHistory \in Nat \ {0, 1}
    /\ QueueSize \in Nat \ {0}
    /\ MaxTime \in Nat /\ MaxAlerts \in Nat

VARIABLES
    now, alerts, call, queue, hook, incidents, missed,   \* the pipeline's
    checks,     \* uptime_checks: state, name, enabled, last_up per row id
    history,    \* uptime_history: rows per check
    lastRun,    \* the loop's dictionary last_run
    run,        \* where the loop is in one iteration
    deleting,   \* delete handlers between their two statements
    excused     \* history: names whose transition was lost or that were reused

Loop == "uptime_loop"
AP == INSTANCE AlertPipeline WITH
        Callers <- {Loop}, Keys <- Names, Recoverable <- Names,
        Raisers <- [n \in Names |-> {Loop}], Window <- [n \in Names |-> DupWindow]

apVars == <<now, alerts, call, queue, hook, incidents, missed>>
uptimeVars == <<checks, history, lastRun, run, deleting, excused>>
vars == <<apVars, uptimeVars>>

Check == [state : {"new", "stored", "deleted", "purged"}, name : Names, enabled : BOOLEAN, up : BOOLEAN]
Stored == {c \in Checks : checks[c].state = "stored"}
Asleep == [pc |-> "sleep"]
NoRuns == [c \in {} |-> 0]

Init ==
    /\ AP!Init
    /\ \E n \in Names : checks = [c \in Checks |->
            [state |-> "new", name |-> n, enabled |-> TRUE, up |-> TRUE]]
    /\ history = [c \in Checks |-> 0]
    /\ lastRun = NoRuns
    /\ run = Asleep
    /\ deleting = {}
    /\ excused = {}

-----------------------------------------------------------------------------
(* Request handlers.                                                       *)

AddCheck(c, n) ==
    /\ checks[c].state = "new"
    /\ checks' = [checks EXCEPT ![c] = [@ EXCEPT !.state = "stored", !.name = n]]
    /\ excused' = excused \cup
         {m \in {n} : \E d \in Checks : checks[d].state # "new" /\ checks[d].name = n}
    /\ UNCHANGED <<apVars, history, lastRun, run, deleting>>

SetEnabled(c) ==
    /\ c \in Stored
    /\ checks' = [checks EXCEPT ![c].enabled = ~@]
    /\ UNCHANGED <<apVars, history, lastRun, run, deleting, excused>>

\* The incident of a renamed check stays under the old name.
Rename(c, n) ==
    /\ c \in Stored
    /\ n # checks[c].name
    /\ checks' = [checks EXCEPT ![c].name = n]
    /\ excused' = excused \cup {n, checks[c].name}
    /\ UNCHANGED <<apVars, history, lastRun, run, deleting>>

DeleteRow(c) ==
    /\ c \in Stored
    /\ checks' = [checks EXCEPT ![c].state = "deleted"]
    /\ deleting' = deleting \cup {c}
    /\ UNCHANGED <<apVars, history, lastRun, run, excused>>

DeleteHistory(c) ==
    /\ c \in deleting
    /\ history' = [history EXCEPT ![c] = 0]
    /\ checks' = [checks EXCEPT ![c].state = "purged"]
    /\ deleting' = deleting \ {c}
    /\ UNCHANGED <<apVars, lastRun, run, excused>>

-----------------------------------------------------------------------------
(* The loop: poll, probe all due checks in parallel, then per result:      *)
(* UPDATE the row, INSERT the history, fire the transition alert.          *)

\* Mutant: the loop keeps polling a check it has seen once.
DueAlthoughDeleted(c) == checks[c].state # "new" /\ checks[c].enabled
          /\ (c \in DOMAIN lastRun => now - lastRun[c] >= Interval)

Due(c) == c \in Stored /\ checks[c].enabled
          /\ (c \in DOMAIN lastRun => now - lastRun[c] >= Interval)

\* The rows are a snapshot: name and last_up are used after the probes.
Poll ==
    /\ run.pc = "sleep"
    /\ \E c \in Checks : Due(c)
    /\ run' = [pc |-> "probe", started |-> now,
               snap |-> Restrict(checks, {c \in Checks : Due(c)})]
    /\ UNCHANGED <<apVars, checks, history, lastRun, deleting, excused>>

\* asyncio.gather(return_exceptions=True): a probe answers up or down, or raises.
Probed ==
    /\ run.pc = "probe"
    /\ \E answered \in SUBSET DOMAIN run.snap : \E result \in [answered -> BOOLEAN] :
         run' = [pc |-> "next", started |-> run.started, snap |-> run.snap,
                 result |-> result, todo |-> answered]
    /\ UNCHANGED <<apVars, checks, history, lastRun, deleting, excused>>

\* Take the next result; UPDATE touches nothing if the row is gone.
PersistRow(c) ==
    /\ run.pc = "next"
    /\ c \in run.todo
    /\ checks' = IF c \in Stored THEN [checks EXCEPT ![c].up = run.result[c]] ELSE checks
    /\ run' = [pc |-> "history", started |-> run.started, snap |-> run.snap,
               result |-> run.result, todo |-> run.todo \ {c}, cur |-> c]
    /\ UNCHANGED <<apVars, history, lastRun, deleting, excused>>

PersistHistory ==
    /\ run.pc = "history"
    /\ history' = [history EXCEPT ![run.cur] = IF @ < MaxHistory THEN @ + 1 ELSE @]
    /\ run' = [run EXCEPT !.pc = "detect"]
    /\ UNCHANGED <<apVars, checks, lastRun, deleting, excused>>

WasUp == run.snap[run.cur].up
IsUp == run.result[run.cur]

\* Mutant: last_up is read from the row the UPDATE has just written.
DetectFromRow ==
    /\ run.pc = "detect"
    /\ IF checks[run.cur].up = IsUp
         THEN UNCHANGED apVars
         ELSE AP!Raise(Loop, run.snap[run.cur].name, IF IsUp THEN "recover" ELSE "raise")
    /\ run' = [run EXCEPT !.pc = "fire"]
    /\ UNCHANGED <<checks, history, lastRun, deleting, excused>>

Detect ==
    /\ run.pc = "detect"
    /\ IF WasUp = IsUp
         THEN UNCHANGED apVars
         ELSE AP!Raise(Loop, run.snap[run.cur].name, IF IsUp THEN "recover" ELSE "raise")
    /\ run' = [run EXCEPT !.pc = "fire"]
    /\ UNCHANGED <<checks, history, lastRun, deleting, excused>>

\* Mutant: last_run keeps the time the check is due next.
RanSchedulesNext ==
    /\ run.pc = "fire"
    /\ call[Loop].pc = "idle"
    /\ lastRun' = [c \in DOMAIN lastRun \cup {run.cur} |->
                     IF c = run.cur THEN run.started + Interval ELSE lastRun[c]]
    /\ run' = [pc |-> "next", started |-> run.started, snap |-> run.snap,
               result |-> run.result, todo |-> run.todo]
    /\ UNCHANGED <<apVars, checks, history, deleting, excused>>

\* fire_custom_alert has returned (or raised, which is logged): last_run is the
\* time of the poll, not of the probe.
Ran ==
    /\ run.pc = "fire"
    /\ call[Loop].pc = "idle"
    /\ lastRun' = [c \in DOMAIN lastRun \cup {run.cur} |->
                     IF c = run.cur THEN run.started ELSE lastRun[c]]
    /\ run' = [pc |-> "next", started |-> run.started, snap |-> run.snap,
               result |-> run.result, todo |-> run.todo]
    /\ UNCHANGED <<apVars, checks, history, deleting, excused>>

Sleep ==
    /\ run.pc = "next"
    /\ run.todo = {}
    /\ run' = Asleep
    /\ UNCHANGED <<apVars, checks, history, lastRun, deleting, excused>>

\* A database error aborts the iteration: the remaining results are dropped
\* and last_run keeps its old values.
IterationFails ==
    /\ \/ run.pc = "next" /\ run.todo # {}
       \/ run.pc = "history"
    /\ excused' = excused \cup (IF run.pc = "history" /\ WasUp # IsUp
                                  THEN {run.snap[run.cur].name} ELSE {})
    /\ run' = Asleep
    /\ UNCHANGED <<apVars, checks, history, lastRun, deleting>>

-----------------------------------------------------------------------------
(* The pipeline's own steps.                                               *)

\* Time passes, but an iteration lasts at most MaxBusy.
Tick ==
    /\ run.pc # "sleep" => now < run.started + MaxBusy
    /\ AP!Tick
    /\ UNCHANGED uptimeVars

AlertStep ==
    /\ \/ AP!CallerStep(Loop)
       \/ AP!HookStep
       \/ AP!HookFails
       \/ \E i \in DOMAIN alerts : AP!Acknowledge(i)
    /\ UNCHANGED uptimeVars

AlertFails ==
    /\ AP!CallFails(Loop)
    /\ excused' = excused \cup {call[Loop].key}
    /\ UNCHANGED <<checks, history, lastRun, run, deleting>>

\* The restarted loop has an empty last_run, so it probes at once: a change it
\* finds within the window of the last alert is a duplicate to fire_custom_alert.
Crash ==
    /\ AP!Crash
    /\ run' = Asleep
    /\ lastRun' = NoRuns
    /\ deleting' = {}
    /\ excused' = excused
         \cup (IF run.pc \in {"history", "detect", "fire"} /\ WasUp # IsUp
                 THEN {run.snap[run.cur].name} ELSE {})
         \cup {n \in Names : AP!Similar(n, now) # {}}
    /\ UNCHANGED <<checks, history>>

LoopStep ==
    \/ Poll \/ Probed \/ PersistHistory \/ Detect \/ Ran \/ Sleep
    \/ \E c \in Checks : PersistRow(c)

Next ==
    \/ \E c \in Checks, n \in Names : AddCheck(c, n) \/ Rename(c, n)
    \/ \E c \in Checks : SetEnabled(c) \/ DeleteRow(c) \/ DeleteHistory(c)
    \/ LoopStep
    \/ IterationFails
    \/ Tick
    \/ AlertStep
    \/ AlertFails
    \/ Crash

Spec == Init /\ [][Next]_vars

-----------------------------------------------------------------------------
(* Correctness.                                                            *)

TypeOK ==
    /\ AP!TypeOK
    /\ checks \in [Checks -> Check]
    /\ history \in [Checks -> 0..MaxHistory]
    /\ DOMAIN lastRun \subseteq Checks /\ \A c \in DOMAIN lastRun : lastRun[c] \in 0..now
    /\ run.pc \in {"sleep", "probe", "next", "history", "detect", "fire"}
    /\ run.pc # "sleep" => run.started \in 0..now /\ run.snap \in [DOMAIN run.snap -> Check]
    /\ deleting \subseteq Checks
    /\ excused \subseteq Names

Settled(n) ==   \* nothing about the name is under way and nothing of it was lost
    /\ run.pc = "sleep"
    /\ n \notin excused \cup missed \cup AP!InFlight

\* uptime.py "tracks incidents (down->up transitions)": when nothing is under
\* way, a check has an open incident exactly when it is recorded as down.  The
\* alert carries the transition through a duplicate filter that ignores the
\* severity, so this depends on how probes are spaced.
IncidentMatchesCheck ==
    \A c \in Stored : LET n == checks[c].name IN
        Settled(n) => (AP!OpenRows(n) # {} <=> ~checks[c].up)

\* A run in flight when its check is deleted may leave one history row behind,
\* never more: no later poll sees the check.
DeletedLeavesOneRow ==
    \A c \in Checks : checks[c].state = "purged" => history[c] <= 1

=============================================================================
