------------------------------ MODULE UptimeProofs ------------------------------
(***************************************************************************)
(* Proofs about the uptime monitor (Uptime), for any checks, names,        *)
(* intervals and queue sizes: its types, the history of deleted checks,    *)
(* that it drives the alert pipeline as AlertPipeline has it, and, from    *)
(* what is proved of every pipeline, that incidents match the checks.      *)
(***************************************************************************)
EXTENDS Uptime, Sequences, TLAPS

-----------------------------------------------------------------------------
(* The pipeline.  Its theorems are proved in AlertPipelineProofs for any   *)
(* callers and keys; here the loop is the only caller, and the keys are    *)
(* the names.                                                              *)

Proved == INSTANCE AlertPipelineProofs WITH
            Callers <- {Loop}, Keys <- Names, Recoverable <- Names,
            Raisers <- [n \in Names |-> {Loop}], Window <- [n \in Names |-> DupWindow]

\* What the pipeline assumes of its constants holds of the monitor's.
LEMMA PipelineFits ==
    /\ [n \in Names |-> {Loop}] \in [Names -> SUBSET {Loop}]
    /\ Names \subseteq Names
    /\ [n \in Names |-> DupWindow] \in [Names -> Nat]
    /\ QueueSize \in Nat \ {0} /\ MaxTime \in Nat /\ MaxAlerts \in Nat
  BY UptimeAssumption

\* The monitor's pipeline and the one that the theorems are about have the same initial
\* states, the same types and the same property.
LEMMA SameStates ==
    /\ AP!Init <=> Proved!Init
    /\ AP!TypeOK <=> Proved!TypeOK
    /\ AP!TimelineTracksAlerts <=> Proved!TimelineTracksAlerts
<1>1. AP!Init <=> Proved!Init
  BY DEF AP!Init, AP!Idle, Proved!Init, Proved!Idle
<1>2. AP!TypeOK <=> Proved!TypeOK
  BY DEF AP!TypeOK, AP!Alert, AP!Kinds, AP!Incident, AP!Call, AP!Hook,
         Proved!TypeOK, Proved!Alert, Proved!Kinds, Proved!Incident, Proved!Call, Proved!Hook
<1>3. AP!TimelineTracksAlerts <=> Proved!TimelineTracksAlerts
  BY DEF AP!TimelineTracksAlerts, AP!InFlight, AP!Held, AP!SoleRaiser, AP!OrderMatters, AP!UpToDate,
         AP!OpenRows, AP!Ongoing, AP!AlertRows,
         Proved!TimelineTracksAlerts, Proved!InFlight, Proved!Held, Proved!SoleRaiser,
         Proved!OrderMatters, Proved!UpToDate, Proved!OpenRows, Proved!Ongoing, Proved!AlertRows
<1>. QED
  BY <1>1, <1>2, <1>3

\* A step of the monitor's pipeline is a step of the one that the theorems are about.
LEMMA SameSteps == AP!Next => Proved!Next
<1>1. AP!Tick => Proved!Tick
  BY DEF AP!Tick, Proved!Tick
<1>2. ASSUME NEW c \in {Loop}, NEW k \in Names, NEW kind \in AP!Kinds, AP!Raise(c, k, kind)
      PROVE  Proved!Raise(c, k, kind)
  BY <1>2 DEF AP!Raise, Proved!Raise, AP!Cardinality, Proved!Cardinality
<1>3. \A c \in {Loop} : /\ AP!IsDuplicate(c) => Proved!IsDuplicate(c)
                        /\ AP!Insert(c) => Proved!Insert(c)
  BY DEF AP!IsDuplicate, AP!Insert, AP!Similar, AP!AlertRows, AP!Idle,
         Proved!IsDuplicate, Proved!Insert, Proved!Similar, Proved!AlertRows, Proved!Idle
<1>4. \A c \in {Loop} : /\ AP!Fetch(c) => Proved!Fetch(c)
                        /\ AP!Publish(c) => Proved!Publish(c)
                        /\ AP!CallFails(c) => Proved!CallFails(c)
  BY DEF AP!Fetch, AP!Publish, AP!CallFails, AP!AlertRows, AP!Idle,
         Proved!Fetch, Proved!Publish, Proved!CallFails, Proved!AlertRows, Proved!Idle
<1>5. /\ \A i \in DOMAIN alerts : AP!Acknowledge(i) => Proved!Acknowledge(i)
      /\ \A i \in DOMAIN incidents : AP!Annotate(i) => Proved!Annotate(i)
  BY DEF AP!Acknowledge, AP!Annotate, Proved!Acknowledge, Proved!Annotate
<1>6. AP!HookStep => Proved!HookStep
  <2>1. /\ AP!Subscribe => Proved!Subscribe
        /\ AP!Get => Proved!Get
        /\ AP!Dispatch => Proved!Dispatch
    BY DEF AP!Subscribe, AP!Get, AP!Dispatch, AP!Waiting,
           Proved!Subscribe, Proved!Get, Proved!Dispatch, Proved!Waiting
  <2>2. AP!Select => Proved!Select
    BY DEF AP!Select, AP!Waiting, AP!Held, AP!OpenRows,
           Proved!Select, Proved!Waiting, Proved!Held, Proved!OpenRows
  <2>3. /\ AP!OpenIncident => Proved!OpenIncident
        /\ AP!CloseIncident => Proved!CloseIncident
    BY DEF AP!OpenIncident, AP!CloseIncident, AP!Waiting, AP!Held,
           Proved!OpenIncident, Proved!CloseIncident, Proved!Waiting, Proved!Held
  <2>. QED
    BY <2>1, <2>2, <2>3 DEF AP!HookStep, Proved!HookStep
<1>7. AP!HookFails => Proved!HookFails
  BY DEF AP!HookFails, AP!Waiting, AP!Held, Proved!HookFails, Proved!Waiting, Proved!Held
<1>8. AP!Crash => Proved!Crash
  BY DEF AP!Crash, AP!InFlight, AP!Held, AP!Idle,
         Proved!Crash, Proved!InFlight, Proved!Held, Proved!Idle
<1>. QED
  BY <1>1, <1>2, <1>3, <1>4, <1>5, <1>6, <1>7, <1>8
     DEF AP!Next, AP!CallerStep, AP!Kinds, Proved!Next, Proved!CallerStep, Proved!Kinds

\* The pipeline's tables stay well typed.
LEMMA PipelineTypeStep == AP!TypeOK /\ [AP!Next]_apVars => AP!TypeOK'
<1>. SUFFICES ASSUME AP!TypeOK, [AP!Next]_apVars PROVE AP!TypeOK'
  OBVIOUS
<1>1. [Proved!Next]_(Proved!vars)
  BY SameSteps DEF apVars, Proved!vars
<1>2. Proved!TypeOK
  BY SameStates
<1>3. Proved!TypeOK /\ [Proved!Next]_(Proved!vars) => Proved!TypeOK'
  BY Proved!TypeStep, PipelineFits
<1>4. Proved!TypeOK'
  BY <1>1, <1>2, <1>3
<1>. QED
  BY <1>4 DEF AP!TypeOK, AP!Alert, AP!Kinds, AP!Incident, AP!Call, AP!Hook,
         Proved!TypeOK, Proved!Alert, Proved!Kinds, Proved!Incident, Proved!Call, Proved!Hook

\* Once nothing of a name is in flight and no alert of it was lost, its incident is
\* open exactly when its last alert was a raise.
LEMMA PipelineTracks == AP!Init /\ [][AP!Next]_apVars => []AP!TimelineTracksAlerts
<1>1. AP!Init => Proved!Init
  BY SameStates
<1>2. [AP!Next]_apVars => [Proved!Next]_(Proved!vars)
  BY SameSteps DEF apVars, Proved!vars
<1>3. Proved!Spec => []Proved!TimelineTracksAlerts
  BY Proved!TimelineIsTracked, PipelineFits
<1>4. Proved!TimelineTracksAlerts => AP!TimelineTracksAlerts
  BY SameStates
<1>. QED
  BY <1>1, <1>2, <1>3, <1>4, PTL DEF Proved!Spec

-----------------------------------------------------------------------------
(* Types, and the loop's place in one iteration.                           *)

Snaps == UNION {[S -> Check] : S \in SUBSET Checks}
Results == UNION {[S -> BOOLEAN] : S \in SUBSET Checks}
Handling == {"history", "detect", "fire"}    \* a result is being persisted and reported
Run == {Asleep}
    \cup [pc : {"probe"}, started : Nat, snap : Snaps]
    \cup [pc : {"next"}, started : Nat, snap : Snaps, result : Results, todo : SUBSET Checks]
    \cup [pc : Handling, started : Nat, snap : Snaps, result : Results, todo : SUBSET Checks,
          cur : Checks]

TablesTyped ==
    /\ checks \in [Checks -> Check]
    /\ history \in [Checks -> 0..MaxHistory]
    /\ DOMAIN lastRun \subseteq Checks /\ \A c \in DOMAIN lastRun : lastRun[c] \in 0..now
    /\ deleting \subseteq Checks
    /\ excused \subseteq Names

\* Only results of the snapshot are handled, one at a time and once each, and an
\* iteration is not longer than MaxBusy.
RunTyped ==
    /\ run \in Run
    /\ run.pc # "sleep" => run.started <= now /\ now <= run.started + MaxBusy
    /\ run.pc \in {"next"} \cup Handling =>
         run.todo \subseteq DOMAIN run.result /\ DOMAIN run.result \subseteq DOMAIN run.snap
    /\ run.pc \in Handling => run.cur \in DOMAIN run.result \ run.todo

\* The loop is inside fire_custom_alert only while it waits for it, with the name of
\* the snapshot.
CallTyped ==
    /\ call[Loop].pc # "idle" => run.pc = "fire"
    /\ call[Loop].pc \in {"check", "insert", "fetch"} =>
         call[Loop].key = run.snap[run.cur].name
    /\ call[Loop].pc = "publish" =>
         alerts[call[Loop].row].key = run.snap[run.cur].name

MonitorTyped == AP!TypeOK /\ TablesTyped /\ RunTyped /\ CallTyped

\* The fields of the loop's record at each of its places.
LEMMA RunShape ==
    ASSUME run \in Run
    PROVE  /\ run.pc \in {"sleep", "probe", "next"} \cup Handling
           /\ run.pc = "sleep" => run = Asleep
           /\ run.pc # "sleep" => /\ run.started \in Nat
                                  /\ run.snap \in [DOMAIN run.snap -> Check]
                                  /\ DOMAIN run.snap \subseteq Checks
           /\ run.pc = "probe" => run \in [pc : {"probe"}, started : Nat, snap : Snaps]
           /\ run.pc \in {"next"} \cup Handling =>
                /\ run.result \in [DOMAIN run.result -> BOOLEAN]
                /\ run.result \in Results /\ run.snap \in Snaps
                /\ run.todo \subseteq Checks
           /\ run.pc \in Handling =>
                run \in [pc : Handling, started : Nat, snap : Snaps, result : Results,
                         todo : SUBSET Checks, cur : Checks]
<1>1. \A s \in Snaps : s \in [DOMAIN s -> Check] /\ DOMAIN s \subseteq Checks
  BY DEF Snaps
<1>2. \A r \in Results : r \in [DOMAIN r -> BOOLEAN]
  BY DEF Results
<1>3. CASE run = Asleep
  BY <1>3 DEF Asleep, Handling
<1>4. CASE run \in [pc : {"probe"}, started : Nat, snap : Snaps]
  BY <1>1, <1>4 DEF Handling
<1>5. CASE run \in [pc : {"next"}, started : Nat, snap : Snaps, result : Results,
                    todo : SUBSET Checks]
  BY <1>1, <1>2, <1>5 DEF Handling
<1>6. CASE run \in [pc : Handling, started : Nat, snap : Snaps, result : Results,
                    todo : SUBSET Checks, cur : Checks]
  BY <1>1, <1>2, <1>6 DEF Handling
<1>. QED
  BY <1>3, <1>4, <1>5, <1>6 DEF Run

\* The loop's call, at each of its places.
LEMMA LoopCall ==
    ASSUME AP!TypeOK
    PROVE  /\ call \in [{Loop} -> AP!Call]
           /\ call[Loop].pc \in {"idle", "check", "insert", "fetch", "publish"}
           /\ call[Loop].pc \in {"check", "insert", "fetch"} =>
                /\ call[Loop].key \in Names /\ call[Loop].kind \in AP!Kinds
                /\ call[Loop].at \in Nat
           /\ call[Loop].pc = "publish" => call[Loop].row \in DOMAIN alerts
           /\ now \in Nat
<1>1. call[Loop] \in AP!Call /\ call \in [{Loop} -> AP!Call]
  BY DEF AP!TypeOK
<1>2. /\ call[Loop].pc = "publish" => call[Loop].row \in DOMAIN alerts
      /\ now \in Nat
  BY DEF AP!TypeOK
<1>3. CASE call[Loop] \in [pc : {"idle"}]
  BY <1>1, <1>2, <1>3
<1>4. CASE call[Loop] \in [pc : {"check", "insert", "fetch"}, key : Names,
                           kind : AP!Kinds, at : 0..MaxTime]
  BY <1>1, <1>2, <1>4, PipelineFits
<1>5. CASE call[Loop] \in [pc : {"publish"}, row : Nat \ {0}]
  BY <1>1, <1>2, <1>5
<1>. QED
  BY <1>1, <1>3, <1>4, <1>5 DEF AP!Call

\* Every step of the monitor is a step of the pipeline or leaves it alone.
LEMMA StepOfPipeline == MonitorTyped /\ [Next]_vars => [AP!Next]_apVars
<1>. SUFFICES ASSUME MonitorTyped, Next PROVE [AP!Next]_apVars
  BY DEF vars
<1>1. CASE LoopStep
  <2>1. CASE Detect
    <3>1. run.snap[run.cur].name \in Names
      <4>1. run.cur \in DOMAIN run.snap /\ run.snap \in [DOMAIN run.snap -> Check]
        BY <2>1, RunShape DEF MonitorTyped, RunTyped, Handling, Detect
      <4>. QED
        BY <4>1 DEF Check
    <3>2. "recover" \in AP!Kinds /\ "raise" \in AP!Kinds
      BY DEF AP!Kinds
    <3>. DEFINE kind == IF IsUp THEN "recover" ELSE "raise"
    <3>3. kind \in AP!Kinds
      BY <3>2
    <3>4. UNCHANGED apVars \/ AP!Raise(Loop, run.snap[run.cur].name, kind)
      BY <2>1 DEF Detect
    <3>. HIDE DEF kind
    <3>. QED
      BY <3>1, <3>3, <3>4 DEF AP!Next
  <2>2. CASE Poll \/ Probed \/ PersistHistory \/ Ran \/ Sleep \/ \E c \in Checks : PersistRow(c)
    BY <2>2 DEF Poll, Probed, PersistHistory, Ran, Sleep, PersistRow
  <2>. QED
    BY <1>1, <2>1, <2>2 DEF LoopStep
<1>2. CASE \/ \E c \in Checks, n \in Names : AddCheck(c, n) \/ Rename(c, n)
           \/ \E c \in Checks : SetEnabled(c) \/ DeleteRow(c) \/ DeleteHistory(c)
           \/ IterationFails
  BY <1>2 DEF AddCheck, Rename, SetEnabled, DeleteRow, DeleteHistory, IterationFails
<1>3. CASE Tick \/ AlertStep \/ AlertFails \/ Crash
  BY <1>3 DEF Tick, AlertStep, AlertFails, Crash, AP!Next
<1>. QED
  BY <1>1, <1>2, <1>3 DEF Next

\* What the pipeline's steps do to the loop's call and to the table of alerts.
LEMMA CallSteps ==
    ASSUME AP!TypeOK
    PROVE  /\ AP!IsDuplicate(Loop) =>
                /\ call[Loop].pc = "check" /\ alerts' = alerts /\ now' = now
                /\ IF AP!Similar(call[Loop].key, call[Loop].at) # {}
                     THEN call'[Loop].pc = "idle"
                     ELSE /\ call'[Loop].pc = "insert" /\ call'[Loop].key = call[Loop].key
                          /\ call'[Loop].kind = call[Loop].kind /\ call'[Loop].at = now
           /\ AP!Insert(Loop) =>
                /\ call[Loop].pc = "insert" /\ now' = now
                /\ call'[Loop].pc = "fetch" /\ call'[Loop].key = call[Loop].key
                /\ \E ts \in call[Loop].at..now :
                     alerts' = Append(alerts, [key |-> call[Loop].key,
                                               kind |-> call[Loop].kind,
                                               ts |-> ts, acked |-> FALSE, by |-> Loop])
           /\ AP!Fetch(Loop) =>
                /\ call[Loop].pc = "fetch" /\ alerts' = alerts /\ now' = now
                /\ call'[Loop].pc = "publish"
                /\ alerts[call'[Loop].row].key = call[Loop].key
           /\ AP!Publish(Loop) =>
                /\ call[Loop].pc = "publish" /\ alerts' = alerts /\ now' = now
                /\ call'[Loop].pc = "idle"
           /\ AP!CallFails(Loop) =>
                /\ call[Loop].pc \in {"check", "insert", "fetch"}
                /\ alerts' = alerts /\ now' = now /\ call'[Loop].pc = "idle"
           /\ AP!HookStep \/ AP!HookFails =>
                call' = call /\ alerts' = alerts /\ now' = now
           /\ \A i : AP!Acknowledge(i) => call' = call /\ now' = now
           /\ AP!Tick => call' = call /\ alerts' = alerts /\ now' = now + 1
           /\ AP!Crash => /\ call'[Loop].pc = "idle" /\ alerts' = alerts /\ now' = now
           /\ \A k, kind : AP!Raise(Loop, k, kind) =>
                /\ call[Loop].pc = "idle" /\ alerts' = alerts /\ now' = now
                /\ call'[Loop].pc = "check" /\ call'[Loop].key = k
                /\ call'[Loop].kind = kind /\ call'[Loop].at = now
<1>. USE LoopCall DEF AP!Idle
<1>1. AP!IsDuplicate(Loop) =>
        /\ call[Loop].pc = "check" /\ alerts' = alerts /\ now' = now
        /\ IF AP!Similar(call[Loop].key, call[Loop].at) # {}
             THEN call'[Loop].pc = "idle"
             ELSE /\ call'[Loop].pc = "insert" /\ call'[Loop].key = call[Loop].key
                  /\ call'[Loop].kind = call[Loop].kind /\ call'[Loop].at = now
  BY DEF AP!IsDuplicate
<1>2. ASSUME AP!Insert(Loop)
      PROVE  /\ call[Loop].pc = "insert" /\ now' = now
             /\ call'[Loop].pc = "fetch" /\ call'[Loop].key = call[Loop].key
             /\ \E ts \in call[Loop].at..now :
                  alerts' = Append(alerts, [key |-> call[Loop].key,
                                            kind |-> call[Loop].kind,
                                            ts |-> ts, acked |-> FALSE, by |-> Loop])
  <2>1. PICK ts \in call[Loop].at..now :
          /\ alerts' = Append(alerts, [key |-> call[Loop].key, kind |-> call[Loop].kind,
                                      ts |-> ts, acked |-> FALSE, by |-> Loop])
          /\ call' = [call EXCEPT ![Loop] = [pc |-> "fetch", key |-> call[Loop].key,
                                            kind |-> call[Loop].kind, at |-> ts]]
    BY <1>2 DEF AP!Insert
  <2>2. call'[Loop].pc = "fetch" /\ call'[Loop].key = call[Loop].key
    BY <2>1
  <2>3. call[Loop].pc = "insert" /\ now' = now
    BY <1>2 DEF AP!Insert
  <2>. QED
    BY <2>1, <2>2, <2>3
<1>3. ASSUME AP!Fetch(Loop)
      PROVE  /\ call[Loop].pc = "fetch" /\ alerts' = alerts /\ now' = now
             /\ call'[Loop].pc = "publish"
             /\ alerts[call'[Loop].row].key = call[Loop].key
  <2>1. PICK i \in AP!AlertRows(call[Loop].key) :
               call' = [call EXCEPT ![Loop] = [pc |-> "publish", row |-> i]]
    BY <1>3 DEF AP!Fetch
  <2>2. call'[Loop].pc = "publish" /\ call'[Loop].row = i
    BY <2>1
  <2>. QED
    BY <1>3, <2>1, <2>2 DEF AP!Fetch, AP!AlertRows
<1>4. /\ AP!Publish(Loop) =>
           /\ call[Loop].pc = "publish" /\ alerts' = alerts /\ now' = now
           /\ call'[Loop].pc = "idle"
      /\ AP!CallFails(Loop) =>
           /\ call[Loop].pc \in {"check", "insert", "fetch"}
           /\ alerts' = alerts /\ now' = now /\ call'[Loop].pc = "idle"
  BY DEF AP!Publish, AP!CallFails
<1>5. AP!HookStep \/ AP!HookFails => call' = call /\ alerts' = alerts /\ now' = now
  BY DEF AP!HookStep, AP!HookFails, AP!Subscribe, AP!Get, AP!Dispatch, AP!Select,
         AP!OpenIncident, AP!CloseIncident
<1>6. /\ \A i : AP!Acknowledge(i) => call' = call /\ now' = now
      /\ AP!Tick => call' = call /\ alerts' = alerts /\ now' = now + 1
      /\ AP!Crash => call'[Loop].pc = "idle" /\ alerts' = alerts /\ now' = now
  BY DEF AP!Acknowledge, AP!Tick, AP!Crash
<1>7. ASSUME NEW k, NEW kind, AP!Raise(Loop, k, kind)
      PROVE  /\ call[Loop].pc = "idle" /\ alerts' = alerts /\ now' = now
             /\ call'[Loop].pc = "check" /\ call'[Loop].key = k
             /\ call'[Loop].kind = kind /\ call'[Loop].at = now
  BY <1>7 DEF AP!Raise
<1>. QED
  BY <1>1, <1>2, <1>3, <1>4, <1>5, <1>6, <1>7

\* An alert, once stored, keeps its key, its kind and its time; an insertion adds one
\* row behind the others, and an acknowledgement only acknowledges.
LEMMA AlertsStay ==
    ASSUME AP!TypeOK
    PROVE  /\ alerts \in Seq(AP!Alert) /\ DOMAIN alerts = 1..Len(alerts) /\ Len(alerts) \in Nat
           /\ \A i \in DOMAIN alerts : /\ alerts[i].key \in Names /\ alerts[i].ts \in Nat
                                       /\ alerts[i].acked \in BOOLEAN
           /\ \A i \in DOMAIN alerts : AP!Acknowledge(i) =>
                /\ DOMAIN alerts' = DOMAIN alerts
                /\ \A j \in DOMAIN alerts : /\ alerts'[j].key = alerts[j].key
                                            /\ alerts'[j].kind = alerts[j].kind
                                            /\ alerts'[j].ts = alerts[j].ts
                                            /\ ~alerts'[j].acked => ~alerts[j].acked
           /\ \A r \in AP!Alert : alerts' = Append(alerts, r) =>
                /\ DOMAIN alerts' = DOMAIN alerts \cup {Len(alerts) + 1}
                /\ \A j \in DOMAIN alerts : alerts'[j] = alerts[j]
                /\ alerts'[Len(alerts) + 1] = r
<1>1. alerts \in Seq(AP!Alert) /\ DOMAIN alerts = 1..Len(alerts) /\ Len(alerts) \in Nat
  BY DEF AP!TypeOK
<1>2. \A a \in AP!Alert : a.key \in Names /\ a.ts \in Nat /\ a.acked \in BOOLEAN
  BY PipelineFits DEF AP!Alert
<1>6. \A a \in AP!Alert : /\ [a EXCEPT !.acked = TRUE] \in AP!Alert
                          /\ [a EXCEPT !.acked = TRUE].key = a.key
                          /\ [a EXCEPT !.acked = TRUE].kind = a.kind
                          /\ [a EXCEPT !.acked = TRUE].ts = a.ts
                          /\ [a EXCEPT !.acked = TRUE].acked
  BY DEF AP!Alert
<1>3. \A i \in DOMAIN alerts : alerts[i] \in AP!Alert
  BY <1>1
<1>4. ASSUME NEW i \in DOMAIN alerts, AP!Acknowledge(i)
      PROVE  /\ DOMAIN alerts' = DOMAIN alerts
             /\ \A j \in DOMAIN alerts : /\ alerts'[j].key = alerts[j].key
                                         /\ alerts'[j].kind = alerts[j].kind
                                         /\ alerts'[j].ts = alerts[j].ts
                                         /\ ~alerts'[j].acked => ~alerts[j].acked
  <2>1. alerts' = [alerts EXCEPT ![i] = [alerts[i] EXCEPT !.acked = TRUE]]
    BY <1>4 DEF AP!Acknowledge
  <2>2. /\ DOMAIN alerts' = DOMAIN alerts
        /\ \A j \in DOMAIN alerts : j # i => alerts'[j] = alerts[j]
        /\ alerts'[i] = [alerts[i] EXCEPT !.acked = TRUE]
    BY <2>1, <1>1
  <2>3. /\ alerts'[i].key = alerts[i].key /\ alerts'[i].kind = alerts[i].kind
        /\ alerts'[i].ts = alerts[i].ts /\ alerts'[i].acked
    BY <2>2, <1>3, <1>6
  <2>. QED
    BY <2>2, <2>3
<1>5. ASSUME NEW r \in AP!Alert, alerts' = Append(alerts, r)
      PROVE  /\ DOMAIN alerts' = DOMAIN alerts \cup {Len(alerts) + 1}
             /\ \A j \in DOMAIN alerts : alerts'[j] = alerts[j]
             /\ alerts'[Len(alerts) + 1] = r
  BY <1>1, <1>5
<1>. QED
  BY <1>1, <1>2, <1>3, <1>4, <1>5

-----------------------------------------------------------------------------
(* Type correctness.                                                       *)

\* The records the loop's actions build are records of Run, and a change of pc is all
\* that it says.
LEMMA RunsFit ==
    /\ Asleep \in Run
    /\ \A t \in Nat, s \in Snaps : [pc |-> "probe", started |-> t, snap |-> s] \in Run
    /\ \A t \in Nat, s \in Snaps, r \in Results, d \in SUBSET Checks :
         [pc |-> "next", started |-> t, snap |-> s, result |-> r, todo |-> d] \in Run
    /\ \A t \in Nat, s \in Snaps, r \in Results, d \in SUBSET Checks, c \in Checks, p \in Handling :
         [pc |-> p, started |-> t, snap |-> s, result |-> r, todo |-> d, cur |-> c] \in Run
    /\ \A r \in [pc : Handling, started : Nat, snap : Snaps, result : Results,
                 todo : SUBSET Checks, cur : Checks], p \in Handling :
         /\ [r EXCEPT !.pc = p] \in Run
         /\ [r EXCEPT !.pc = p].pc = p /\ [r EXCEPT !.pc = p].started = r.started
         /\ [r EXCEPT !.pc = p].snap = r.snap /\ [r EXCEPT !.pc = p].result = r.result
         /\ [r EXCEPT !.pc = p].todo = r.todo /\ [r EXCEPT !.pc = p].cur = r.cur
<1>1. \A r \in [pc : Handling, started : Nat, snap : Snaps, result : Results,
                todo : SUBSET Checks, cur : Checks], p \in Handling :
        [r EXCEPT !.pc = p] \in [pc : Handling, started : Nat, snap : Snaps,
                                 result : Results, todo : SUBSET Checks, cur : Checks]
  OBVIOUS
<1>2. \A r \in [pc : Handling, started : Nat, snap : Snaps, result : Results,
                todo : SUBSET Checks, cur : Checks], p \in Handling :
         /\ [r EXCEPT !.pc = p].pc = p /\ [r EXCEPT !.pc = p].started = r.started
         /\ [r EXCEPT !.pc = p].snap = r.snap /\ [r EXCEPT !.pc = p].result = r.result
         /\ [r EXCEPT !.pc = p].todo = r.todo /\ [r EXCEPT !.pc = p].cur = r.cur
  OBVIOUS
<1>. QED
  BY <1>1, <1>2 DEF Run

\* The monitor's start.
LEMMA MonitorStart == Init => MonitorTyped
<1>. SUFFICES ASSUME Init PROVE MonitorTyped
  OBVIOUS
<1>. USE UptimeAssumption
<1>1. AP!TypeOK
  <2>1. Proved!Init => Proved!TypeOK
    BY Proved!TypeInit, PipelineFits
  <2>. QED
    BY <2>1, SameStates DEF Init
<1>2. TablesTyped
  <2>1. PICK n \in Names : checks = [c \in Checks |->
            [state |-> "new", name |-> n, enabled |-> TRUE, up |-> TRUE]]
    BY DEF Init
  <2>2. checks \in [Checks -> Check]
    BY <2>1 DEF Check
  <2>3. history \in [Checks -> 0..MaxHistory] /\ DOMAIN lastRun = {}
    BY DEF Init, NoRuns
  <2>. QED
    BY <2>2, <2>3 DEF Init, TablesTyped
<1>3. RunTyped
  BY RunsFit DEF Init, RunTyped, Asleep, Handling
<1>4. CallTyped
  <2>1. call[Loop].pc = "idle"
    BY DEF Init, AP!Init, AP!Idle
  <2>. QED
    BY <2>1 DEF CallTyped
<1>. QED
  BY <1>1, <1>2, <1>3, <1>4 DEF MonitorTyped

\* The request handlers.
LEMMA HandlersTyped ==
    ASSUME MonitorTyped,
           \/ \E c \in Checks, n \in Names : AddCheck(c, n) \/ Rename(c, n)
           \/ \E c \in Checks : SetEnabled(c) \/ DeleteRow(c) \/ DeleteHistory(c)
    PROVE  TablesTyped' /\ RunTyped' /\ CallTyped'
<1>. USE UptimeAssumption DEF MonitorTyped
<1>1. UNCHANGED apVars /\ run' = run /\ lastRun' = lastRun
  BY DEF AddCheck, Rename, SetEnabled, DeleteRow, DeleteHistory
<1>2. RunTyped' /\ CallTyped'
  BY <1>1 DEF apVars, RunTyped, CallTyped
<1>3. \A c \in Checks :
        /\ \A n \in Names : /\ [checks[c] EXCEPT !.state = "stored", !.name = n] \in Check
                            /\ [checks[c] EXCEPT !.name = n] \in Check
        /\ [checks[c] EXCEPT !.enabled = ~checks[c].enabled] \in Check
        /\ [checks[c] EXCEPT !.state = "deleted"] \in Check
        /\ [checks[c] EXCEPT !.state = "purged"] \in Check
        /\ checks[c].name \in Names
  BY DEF TablesTyped, Check
<1>4. \E c \in Checks, e \in Check : checks' = [checks EXCEPT ![c] = e]
  <2>1. ASSUME NEW c \in Checks, NEW n \in Names, AddCheck(c, n) \/ Rename(c, n)
        PROVE  \E e \in Check : checks' = [checks EXCEPT ![c] = e]
    BY <1>3, <2>1 DEF AddCheck, Rename
  <2>2. ASSUME NEW c \in Checks, SetEnabled(c) \/ DeleteRow(c) \/ DeleteHistory(c)
        PROVE  \E e \in Check : checks' = [checks EXCEPT ![c] = e]
    <3>1. CASE SetEnabled(c)
      <4>1. checks' = [checks EXCEPT ![c] = [checks[c] EXCEPT !.enabled = ~checks[c].enabled]]
        BY <3>1 DEF SetEnabled
      <4>2. [checks[c] EXCEPT !.enabled = ~checks[c].enabled] \in Check
        BY <1>3
      <4>. QED
        BY <4>1, <4>2
    <3>2. CASE DeleteRow(c)
      <4>1. checks' = [checks EXCEPT ![c] = [checks[c] EXCEPT !.state = "deleted"]]
        BY <3>2 DEF DeleteRow
      <4>2. [checks[c] EXCEPT !.state = "deleted"] \in Check
        BY <1>3
      <4>. QED
        BY <4>1, <4>2
    <3>3. CASE DeleteHistory(c)
      <4>1. checks' = [checks EXCEPT ![c] = [checks[c] EXCEPT !.state = "purged"]]
        BY <3>3 DEF DeleteHistory
      <4>2. [checks[c] EXCEPT !.state = "purged"] \in Check
        BY <1>3
      <4>. QED
        BY <4>1, <4>2
    <3>. QED
      BY <2>2, <3>1, <3>2, <3>3
  <2>. QED
    BY <2>1, <2>2
<1>7. checks' \in [Checks -> Check]
  BY <1>4 DEF TablesTyped
<1>5. history' \in [Checks -> 0..MaxHistory] /\ deleting' \subseteq Checks
  <2>1. CASE \E c \in Checks, n \in Names : AddCheck(c, n) \/ Rename(c, n)
    BY <2>1 DEF TablesTyped, AddCheck, Rename
  <2>2. ASSUME NEW c \in Checks, SetEnabled(c) \/ DeleteRow(c)
        PROVE  history' \in [Checks -> 0..MaxHistory] /\ deleting' \subseteq Checks
    BY <2>2 DEF TablesTyped, SetEnabled, DeleteRow
  <2>3. ASSUME NEW c \in Checks, DeleteHistory(c)
        PROVE  history' \in [Checks -> 0..MaxHistory] /\ deleting' \subseteq Checks
    <3>1. history' = [history EXCEPT ![c] = 0] /\ 0 \in 0..MaxHistory
      BY <2>3 DEF DeleteHistory
    <3>. QED
      BY <3>1, <2>3 DEF DeleteHistory, TablesTyped
  <2>. QED
    BY <2>1, <2>2, <2>3
<1>6. excused' \subseteq Names
  BY <1>3 DEF TablesTyped, AddCheck, Rename, SetEnabled, DeleteRow, DeleteHistory
<1>. QED
  BY <1>1, <1>2, <1>5, <1>6, <1>7 DEF TablesTyped, apVars

\* The loop.
LEMMA LoopTyped ==
    ASSUME MonitorTyped, LoopStep \/ IterationFails
    PROVE  TablesTyped' /\ RunTyped' /\ CallTyped'
<1>. USE UptimeAssumption DEF MonitorTyped
<1>0. /\ now \in Nat /\ run \in Run
      /\ \A c \in Checks : checks[c] \in Check
      /\ \A c \in Check : c.name \in Names /\ c.up \in BOOLEAN
  BY LoopCall DEF RunTyped, TablesTyped, Check
<1>1. CASE Poll
  <2>. DEFINE due == {c \in Checks : Due(c)}
  <2>1. /\ run' = [pc |-> "probe", started |-> now, snap |-> Restrict(checks, due)]
        /\ run.pc = "sleep" /\ UNCHANGED <<apVars, checks, history, lastRun, deleting, excused>>
    BY <1>1 DEF Poll
  <2>2. Restrict(checks, due) \in [due -> Check]
    BY <1>0 DEF Restrict
  <2>3. Restrict(checks, due) \in Snaps
    BY <2>2 DEF Snaps
  <2>. HIDE DEF due
  <2>4. RunTyped'
    BY <1>0, <2>1, <2>3, RunsFit DEF RunTyped, Handling, apVars
  <2>. QED
    BY <2>1, <2>4 DEF TablesTyped, CallTyped, apVars
<1>2. CASE Probed
  <2>1. PICK answered \in SUBSET DOMAIN run.snap : \E result \in [answered -> BOOLEAN] :
          run' = [pc |-> "next", started |-> run.started, snap |-> run.snap,
                  result |-> result, todo |-> answered]
    BY <1>2 DEF Probed
  <2>2. PICK result \in [answered -> BOOLEAN] :
          run' = [pc |-> "next", started |-> run.started, snap |-> run.snap,
                  result |-> result, todo |-> answered]
    BY <2>1
  <2>3. /\ run.pc = "probe" /\ run.started \in Nat /\ run.snap \in Snaps
        /\ DOMAIN run.snap \subseteq Checks
    BY <1>0, <1>2, RunShape DEF Probed
  <2>4. answered \in SUBSET Checks /\ result \in Results /\ DOMAIN result = answered
    BY <2>3 DEF Results
  <2>5. UNCHANGED <<apVars, checks, history, lastRun, deleting, excused>>
    BY <1>2 DEF Probed
  <2>6. run' \in Run
    BY <2>2, <2>3, <2>4, RunsFit
  <2>7. RunTyped'
    BY <2>2, <2>3, <2>4, <2>5, <2>6 DEF RunTyped, Handling, apVars
  <2>. QED
    BY <2>2, <2>3, <2>5, <2>7 DEF TablesTyped, CallTyped, apVars
<1>3. ASSUME NEW c \in Checks, PersistRow(c) PROVE TablesTyped' /\ RunTyped' /\ CallTyped'
  <2>1. /\ run.pc = "next" /\ c \in run.todo
        /\ run' = [pc |-> "history", started |-> run.started, snap |-> run.snap,
                   result |-> run.result, todo |-> run.todo \ {c}, cur |-> c]
        /\ checks' = IF c \in Stored THEN [checks EXCEPT ![c].up = run.result[c]] ELSE checks
        /\ UNCHANGED <<apVars, history, lastRun, deleting, excused>>
    BY <1>3 DEF PersistRow
  <2>2. /\ run.started \in Nat /\ run.snap \in Snaps /\ run.result \in Results
        /\ run.todo \in SUBSET Checks /\ run.todo \subseteq DOMAIN run.result
        /\ DOMAIN run.result \subseteq DOMAIN run.snap
        /\ run.result \in [DOMAIN run.result -> BOOLEAN]
    BY <1>0, <2>1, RunShape DEF RunTyped
  <2>3. run' \in Run
    BY <2>1, <2>2, RunsFit DEF Handling
  <2>4. RunTyped'
    BY <2>1, <2>2, <2>3 DEF RunTyped, Handling, apVars
  <2>5. [checks[c] EXCEPT !.up = run.result[c]] \in Check
    BY <1>0, <2>1, <2>2 DEF Check
  <2>6. checks' \in [Checks -> Check]
    BY <2>1, <2>5 DEF TablesTyped
  <2>. QED
    BY <2>1, <2>4, <2>6 DEF TablesTyped, CallTyped, apVars
<1>4. CASE PersistHistory \/ Detect
  <2>1. /\ run.pc \in {"history", "detect"}
        /\ run' = [run EXCEPT !.pc = IF run.pc = "history" THEN "detect" ELSE "fire"]
        /\ UNCHANGED <<checks, lastRun, deleting, excused>>
    BY <1>4 DEF PersistHistory, Detect
  <2>2. run \in [pc : Handling, started : Nat, snap : Snaps, result : Results,
                 todo : SUBSET Checks, cur : Checks]
    BY <1>0, <2>1, RunShape DEF Handling
  <2>3. /\ run' \in Run /\ run'.pc = IF run.pc = "history" THEN "detect" ELSE "fire"
        /\ run'.started = run.started /\ run'.snap = run.snap /\ run'.result = run.result
        /\ run'.todo = run.todo /\ run'.cur = run.cur
    BY <2>1, <2>2, RunsFit DEF Handling
  <2>4. now' = now
    BY <1>4, CallSteps DEF PersistHistory, Detect, apVars
  <2>5. RunTyped'
    BY <2>1, <2>3, <2>4 DEF RunTyped, Handling
  <2>6. CallTyped'
    <3>1. call[Loop].pc = "idle"
      BY <2>1 DEF CallTyped
    <3>2. CASE UNCHANGED apVars
      BY <3>1, <3>2 DEF CallTyped, apVars
    <3>3. CASE ~ UNCHANGED apVars
      <4>1. /\ run.pc = "detect"
            /\ AP!Raise(Loop, run.snap[run.cur].name, IF IsUp THEN "recover" ELSE "raise")
        BY <3>3, <1>4 DEF PersistHistory, Detect
      <4>2. call'[Loop].pc = "check" /\ call'[Loop].key = run.snap[run.cur].name
        BY <4>1, CallSteps
      <4>. QED
        BY <4>1, <4>2, <2>3 DEF CallTyped
    <3>. QED
      BY <3>2, <3>3
  <2>7. history' \in [Checks -> 0..MaxHistory]
    BY <1>4 DEF PersistHistory, Detect, TablesTyped
  <2>. QED
    BY <2>1, <2>4, <2>5, <2>6, <2>7 DEF TablesTyped
<1>5. CASE Ran
  <2>1. /\ run.pc = "fire" /\ call[Loop].pc = "idle"
        /\ lastRun' = [c \in DOMAIN lastRun \cup {run.cur} |->
                         IF c = run.cur THEN run.started ELSE lastRun[c]]
        /\ run' = [pc |-> "next", started |-> run.started, snap |-> run.snap,
                   result |-> run.result, todo |-> run.todo]
        /\ UNCHANGED <<apVars, checks, history, deleting, excused>>
    BY <1>5 DEF Ran
  <2>2. /\ run.started \in Nat /\ run.snap \in Snaps /\ run.result \in Results
        /\ run.todo \in SUBSET Checks /\ run.cur \in DOMAIN run.result
        /\ DOMAIN run.result \subseteq DOMAIN run.snap /\ DOMAIN run.snap \subseteq Checks
        /\ run.started <= now
    BY <1>0, <2>1, RunShape DEF RunTyped, Handling
  <2>3. run' \in Run
    BY <2>1, <2>2, RunsFit
  <2>4. RunTyped'
    BY <2>1, <2>2, <2>3 DEF RunTyped, Handling, apVars
  <2>5. DOMAIN lastRun' \subseteq Checks /\ \A c \in DOMAIN lastRun' : lastRun'[c] \in 0..now
    BY <1>0, <2>1, <2>2 DEF TablesTyped
  <2>. QED
    BY <2>1, <2>4, <2>5 DEF TablesTyped, CallTyped, apVars
<1>6. CASE Sleep \/ IterationFails
  <2>1. /\ run' = Asleep /\ run.pc \in {"next", "history"}
        /\ UNCHANGED <<apVars, checks, history, lastRun, deleting>>
    BY <1>6 DEF Sleep, IterationFails
  <2>2. excused' \subseteq Names
    <3>1. run.pc = "history" => run.snap[run.cur].name \in Names
      BY <1>0, RunShape DEF RunTyped, Handling
    <3>. QED
      BY <3>1, <1>6 DEF Sleep, IterationFails, TablesTyped
  <2>3. RunTyped'
    BY <2>1, RunsFit DEF RunTyped, Asleep, Handling
  <2>. QED
    BY <2>1, <2>2, <2>3 DEF TablesTyped, CallTyped, apVars
<1>. QED
  BY <1>1, <1>2, <1>3, <1>4, <1>5, <1>6 DEF LoopStep

\* Time, the pipeline and crashes.
LEMMA PipelineTyped ==
    ASSUME MonitorTyped, Tick \/ AlertStep \/ AlertFails \/ Crash
    PROVE  TablesTyped' /\ RunTyped' /\ CallTyped'
<1>. USE UptimeAssumption DEF MonitorTyped
<1>0. now \in Nat /\ run \in Run
  BY LoopCall DEF RunTyped
<1>1. CASE Tick
  <2>1. /\ UNCHANGED uptimeVars /\ now' = now + 1 /\ call' = call /\ alerts' = alerts
        /\ run.pc # "sleep" => now < run.started + MaxBusy
    BY <1>1, CallSteps DEF Tick
  <2>2. run.pc # "sleep" => run.started \in Nat
    BY <1>0, RunShape
  <2>. QED
    BY <1>0, <2>1, <2>2 DEF TablesTyped, RunTyped, CallTyped, uptimeVars
<1>2. CASE AlertStep
  <2>1. UNCHANGED uptimeVars /\ now' = now
    BY <1>2, CallSteps DEF AlertStep, AP!CallerStep
  <2>2. TablesTyped' /\ RunTyped'
    BY <2>1 DEF TablesTyped, RunTyped, uptimeVars
  <2>3. CallTyped'
    <3>1. CASE AP!IsDuplicate(Loop) \/ AP!Fetch(Loop) \/ AP!Publish(Loop)
      BY <3>1, <2>1, CallSteps DEF CallTyped, uptimeVars
    <3>2. CASE AP!Insert(Loop)
      BY <3>2, <2>1, CallSteps DEF CallTyped, uptimeVars
    <3>3. CASE AP!HookStep \/ AP!HookFails
      BY <3>3, <2>1, CallSteps DEF CallTyped, uptimeVars
    <3>4. ASSUME NEW i \in DOMAIN alerts, AP!Acknowledge(i) PROVE CallTyped'
      <4>1. call' = call
        BY <3>4, CallSteps
      <4>2. \A j \in DOMAIN alerts : alerts'[j].key = alerts[j].key
        BY <3>4, AlertsStay
      <4>. QED
        BY <4>1, <4>2, <2>1, LoopCall DEF CallTyped, uptimeVars
    <3>. QED
      BY <1>2, <3>1, <3>2, <3>3, <3>4 DEF AlertStep, AP!CallerStep
  <2>. QED
    BY <2>2, <2>3
<1>3. CASE AlertFails
  <2>1. /\ UNCHANGED <<checks, history, lastRun, run, deleting>>
        /\ excused' = excused \cup {call[Loop].key}
        /\ call[Loop].pc \in {"check", "insert", "fetch"}
        /\ alerts' = alerts /\ now' = now /\ call'[Loop].pc = "idle"
    BY <1>3, CallSteps DEF AlertFails
  <2>2. excused' \subseteq Names
    BY <2>1, LoopCall DEF TablesTyped
  <2>. QED
    BY <2>1, <2>2 DEF TablesTyped, RunTyped, CallTyped
<1>4. CASE Crash
  <2>1. /\ run' = Asleep /\ lastRun' = NoRuns /\ deleting' = {}
        /\ UNCHANGED <<checks, history>>
        /\ now' = now /\ call'[Loop].pc = "idle"
    BY <1>4, CallSteps DEF Crash
  <2>2. excused' \subseteq Names
    <3>1. run.pc \in Handling => run.snap[run.cur].name \in Names
      <4>1. run.pc \in Handling => /\ run.cur \in DOMAIN run.snap
                                   /\ run.snap \in [DOMAIN run.snap -> Check]
        BY <1>0, RunShape DEF RunTyped, Handling
      <4>. QED
        BY <4>1 DEF Check
    <3>. QED
      BY <3>1, <1>4 DEF Crash, TablesTyped, Handling
  <2>3. RunTyped'
    BY <2>1, RunsFit DEF RunTyped, Asleep, Handling
  <2>4. DOMAIN lastRun' = {}
    BY <2>1 DEF NoRuns
  <2>. QED
    BY <2>1, <2>2, <2>3, <2>4 DEF TablesTyped, CallTyped
<1>. QED
  BY <1>1, <1>2, <1>3, <1>4

\* Every step of the monitor keeps its types.
LEMMA MonitorStep == MonitorTyped /\ [Next]_vars => MonitorTyped'
<1>. SUFFICES ASSUME MonitorTyped, [Next]_vars PROVE MonitorTyped'
  OBVIOUS
<1>1. AP!TypeOK'
  BY StepOfPipeline, PipelineTypeStep DEF MonitorTyped
<1>2. CASE Next
  <2>1. TablesTyped' /\ RunTyped' /\ CallTyped'
    BY <1>2, HandlersTyped, LoopTyped, PipelineTyped DEF Next
  <2>. QED
    BY <1>1, <2>1 DEF MonitorTyped
<1>3. CASE UNCHANGED vars
  <2>1. TablesTyped' /\ RunTyped' /\ CallTyped'
    BY <1>3 DEF vars, apVars, uptimeVars, MonitorTyped, TablesTyped, RunTyped, CallTyped
  <2>. QED
    BY <1>1, <2>1 DEF MonitorTyped
<1>. QED
  BY <1>2, <1>3

\* Every state of the monitor (uptime.py) and of its pipeline is well typed.
THEOREM MonitorIsTyped == Spec => []TypeOK
<1>1. MonitorTyped => TypeOK
  <2>. SUFFICES ASSUME MonitorTyped PROVE TypeOK
    OBVIOUS
  <2>1. /\ run.pc \in {"sleep", "probe", "next", "history", "detect", "fire"}
        /\ run.pc # "sleep" => run.started \in 0..now /\ run.snap \in [DOMAIN run.snap -> Check]
    BY RunShape, LoopCall DEF MonitorTyped, RunTyped, Handling
  <2>. QED
    BY <2>1 DEF MonitorTyped, TablesTyped, TypeOK
<1>. QED
  BY <1>1, MonitorStart, MonitorStep, PTL DEF Spec

\* The monitor is a pipeline whose only caller is its loop: what is proved of every
\* pipeline is true of it.
THEOREM MonitorRunsPipeline == Spec => AP!Init /\ [][AP!Next]_apVars
<1>1. Init => AP!Init
  BY DEF Init
<1>. QED
  BY <1>1, MonitorStart, MonitorStep, StepOfPipeline, PTL DEF Spec

\* Above all: alerts of a check's name are a window apart, a name has at most one open
\* incident, and what the incident page shows of the checks is an abstract timeline.
THEOREM MonitorKeepsPromises ==
    Spec => /\ []Proved!OneOpenPerKey
            /\ []Proved!DuplicatesSpaced
            /\ Proved!ImplementsIncidentLog
<1>1. AP!Init => Proved!Init
  BY SameStates
<1>2. [AP!Next]_apVars => [Proved!Next]_(Proved!vars)
  BY SameSteps DEF apVars, Proved!vars
<1>3. Spec => Proved!Spec
  BY <1>1, <1>2, MonitorRunsPipeline, PTL DEF Proved!Spec
<1>4. /\ Proved!Spec => []Proved!OneOpenPerKey
      /\ Proved!Spec => []Proved!DuplicatesSpaced
      /\ Proved!Spec => Proved!ImplementsIncidentLog
  BY PipelineFits, Proved!OneOpenIncident, Proved!DuplicatesAreSpaced, Proved!PipelineImplementsLog
<1>. QED
  BY <1>3, <1>4

-----------------------------------------------------------------------------
(* Deleted checks.                                                         *)

\* A result of the check is still to be recorded in uptime_history.
Persisting(c) ==
    \/ run.pc = "probe" /\ c \in DOMAIN run.snap
    \/ run.pc \in {"next"} \cup Handling /\ c \in run.todo
    \/ run.pc = "history" /\ run.cur = c

\* A check whose rows were deleted has one row, or none while one may still come.
DeletedForGood ==
    \A c \in Checks : checks[c].state = "purged" =>
        history[c] <= 1 /\ (Persisting(c) => history[c] = 0)

\* A check is found by a poll only while its row is there.
LEMMA DeletedStep ==
    ASSUME MonitorTyped, DeletedForGood, [Next]_vars
    PROVE  DeletedForGood'
<1>. USE UptimeAssumption DEF MonitorTyped
<1>0. /\ run \in Run /\ checks \in [Checks -> Check]
      /\ history \in [Checks -> 0..MaxHistory] /\ now \in Nat
  BY LoopCall DEF RunTyped, TablesTyped
<1>1. SUFFICES ASSUME NEW c \in Checks, checks'[c].state = "purged"
      PROVE  history'[c] <= 1 /\ (Persisting(c)' => history'[c] = 0)
  BY DEF DeletedForGood
<1>. DEFINE Kept == /\ checks[c].state = "purged" /\ history'[c] = history[c]
                    /\ Persisting(c)' => Persisting(c)
<1>2. Kept => history'[c] <= 1 /\ (Persisting(c)' => history'[c] = 0)
  BY DEF DeletedForGood
<1>. HIDE DEF Kept
<1>3. ASSUME run' = run PROVE Persisting(c)' => Persisting(c)
  BY <1>3 DEF Persisting
<1>4. ASSUME run' = Asleep PROVE ~Persisting(c)'
  BY <1>4 DEF Persisting, Asleep, Handling
<1>5. CASE \E d \in Checks, n \in Names : AddCheck(d, n) \/ Rename(d, n)
  <2>1. PICK d \in Checks, n \in Names : AddCheck(d, n) \/ Rename(d, n)
    BY <1>5
  <2>2. run' = run /\ history' = history
    BY <2>1 DEF AddCheck, Rename
  <2>3. checks[c].state = "purged"
    BY <1>0, <1>1, <2>1 DEF AddCheck, Rename, Check
  <2>. QED
    BY <1>2, <1>3, <2>2, <2>3 DEF Kept
<1>6. CASE \E d \in Checks : SetEnabled(d) \/ DeleteRow(d)
  <2>1. PICK d \in Checks : SetEnabled(d) \/ DeleteRow(d)
    BY <1>6
  <2>2. run' = run /\ history' = history
    BY <2>1 DEF SetEnabled, DeleteRow
  <2>3. checks[c].state = "purged"
    BY <1>0, <1>1, <2>1 DEF SetEnabled, DeleteRow, Check
  <2>. QED
    BY <1>2, <1>3, <2>2, <2>3 DEF Kept
<1>7. ASSUME NEW d \in Checks, DeleteHistory(d)
      PROVE  history'[c] <= 1 /\ (Persisting(c)' => history'[c] = 0)
  <2>1. CASE c = d
    BY <2>1, <1>0, <1>7 DEF DeleteHistory
  <2>2. CASE c # d
    <3>1. checks[c].state = "purged" /\ history'[c] = history[c] /\ run' = run
      BY <2>2, <1>0, <1>1, <1>7 DEF DeleteHistory
    <3>. QED
      BY <1>2, <1>3, <3>1 DEF Kept
  <2>. QED
    BY <2>1, <2>2
<1>8. CASE Poll
  <2>1. /\ run' = [pc |-> "probe", started |-> now,
                   snap |-> Restrict(checks, {d \in Checks : Due(d)})]
        /\ checks' = checks /\ history' = history
    BY <1>8 DEF Poll
  <2>2. DOMAIN run'.snap = {d \in Checks : Due(d)} /\ run'.pc = "probe"
    BY <2>1 DEF Restrict
  <2>3. ~Persisting(c)'
    <3>1. ~Due(c)
      BY <1>1, <2>1 DEF Due, Stored
    <3>. QED
      BY <2>2, <3>1 DEF Persisting, Handling
  <2>. QED
    BY <1>1, <1>2, <2>1, <2>3 DEF Kept
<1>9. CASE Probed
  <2>1. PICK answered \in SUBSET DOMAIN run.snap : \E result \in [answered -> BOOLEAN] :
          run' = [pc |-> "next", started |-> run.started, snap |-> run.snap,
                  result |-> result, todo |-> answered]
    BY <1>9 DEF Probed
  <2>2. run.pc = "probe" /\ run'.pc = "next" /\ run'.todo \subseteq DOMAIN run.snap
    BY <2>1, <1>9 DEF Probed
  <2>3. checks' = checks /\ history' = history
    BY <1>9 DEF Probed
  <2>4. Persisting(c)' => Persisting(c)
    BY <2>2 DEF Persisting, Handling
  <2>. QED
    BY <1>1, <1>2, <2>3, <2>4 DEF Kept
<1>10. ASSUME NEW d \in Checks, PersistRow(d) PROVE Kept
  <2>1. /\ run.pc = "next" /\ d \in run.todo /\ run'.pc = "history" /\ run'.cur = d
        /\ run'.todo = run.todo \ {d} /\ history' = history
    BY <1>10 DEF PersistRow
  <2>2. checks[c].state = "purged"
    <3>1. CASE checks' = checks
      BY <1>1, <3>1
    <3>2. CASE checks' # checks
      <4>1. checks' = [checks EXCEPT ![d] = [checks[d] EXCEPT !.up = run.result[d]]]
        BY <3>2, <1>10 DEF PersistRow
      <4>. QED
        BY <4>1, <1>0, <1>1 DEF Check
    <3>. QED
      BY <3>1, <3>2
  <2>. QED
    BY <2>1, <2>2 DEF Kept, Persisting, Handling
<1>11. CASE PersistHistory
  <2>1. /\ run.pc = "history" /\ run' = [run EXCEPT !.pc = "detect"] /\ checks' = checks
        /\ history' = [history EXCEPT ![run.cur] = IF @ < MaxHistory THEN @ + 1 ELSE @]
    BY <1>11 DEF PersistHistory
  <2>2. run \in [pc : Handling, started : Nat, snap : Snaps, result : Results,
                 todo : SUBSET Checks, cur : Checks]
    BY <1>0, <2>1, RunShape DEF Handling
  <2>3. run'.pc = "detect" /\ run'.todo = run.todo /\ run'.cur = run.cur
    BY <2>1, <2>2, RunsFit DEF Handling
  <2>4. CASE c = run.cur
    <3>1. history[c] = 0 /\ history'[c] = 1
      BY <1>0, <1>1, <2>1, <2>4 DEF DeletedForGood, Persisting
    <3>2. ~Persisting(c)'
      BY <2>1, <2>3, <2>4 DEF RunTyped, Persisting, Handling
    <3>. QED
      BY <3>1, <3>2
  <2>5. CASE c # run.cur
    <3>1. history'[c] = history[c]
      BY <1>0, <2>1, <2>5
    <3>2. Persisting(c)' => Persisting(c)
      BY <2>1, <2>3, <2>5 DEF Persisting, Handling
    <3>. QED
      BY <1>1, <1>2, <2>1, <3>1, <3>2 DEF Kept
  <2>. QED
    BY <2>4, <2>5
<1>12. CASE Detect
  <2>1. /\ run.pc = "detect" /\ run' = [run EXCEPT !.pc = "fire"]
        /\ checks' = checks /\ history' = history
    BY <1>12 DEF Detect
  <2>2. run \in [pc : Handling, started : Nat, snap : Snaps, result : Results,
                 todo : SUBSET Checks, cur : Checks]
    BY <1>0, <2>1, RunShape DEF Handling
  <2>3. run'.pc = "fire" /\ run'.todo = run.todo
    BY <2>1, <2>2, RunsFit DEF Handling
  <2>. QED
    BY <1>1, <1>2, <2>1, <2>3 DEF Kept, Persisting, Handling
<1>13. CASE Ran
  <2>1. /\ run.pc = "fire" /\ run'.pc = "next" /\ run'.todo = run.todo
        /\ checks' = checks /\ history' = history
    BY <1>13 DEF Ran
  <2>. QED
    BY <1>1, <1>2, <2>1 DEF Kept, Persisting, Handling
<1>14. CASE Sleep \/ IterationFails \/ Crash
  <2>1. run' = Asleep /\ checks' = checks /\ history' = history
    BY <1>14 DEF Sleep, IterationFails, Crash
  <2>. QED
    BY <1>1, <1>2, <1>4, <2>1 DEF Kept
<1>15. CASE Tick \/ AlertStep \/ AlertFails \/ UNCHANGED vars
  <2>1. run' = run /\ checks' = checks /\ history' = history
    BY <1>15 DEF Tick, AlertStep, AlertFails, uptimeVars, vars
  <2>. QED
    BY <1>1, <1>2, <1>3, <2>1 DEF Kept
<1>. QED
  BY <1>2, <1>5, <1>6, <1>7, <1>8, <1>9, <1>10, <1>11, <1>12, <1>13, <1>14, <1>15
     DEF Next, LoopStep

\* An iteration in flight when its check is deleted leaves one row of history behind
\* at most (uptime.py, delete_check, _persist_result), whatever fails or restarts.
THEOREM DeletedLeaveOneRow == Spec => []DeletedLeavesOneRow
<1>1. Init => DeletedForGood
  BY DEF Init, DeletedForGood
<1>2. DeletedForGood => DeletedLeavesOneRow
  BY DEF DeletedForGood, DeletedLeavesOneRow
<1>. QED
  BY <1>1, <1>2, MonitorStart, MonitorStep, DeletedStep, PTL DEF Spec

(***************************************************************************)
(* Incidents and checks.  A transition reaches the timeline as an alert    *)
(* that a filter may drop as a duplicate of the last.  The inductive       *)
(* invariant says that a name no one reused stands for one check, that the *)
(* last alert of the name is what the check's row says, but for the result *)
(* that is being reported, and that every result still to come comes at    *)
(* least the filter's window after the last alert of its name.             *)
(***************************************************************************)
Known(n) == \E c \in Checks : checks[c].state # "new" /\ checks[c].name = n

NamesOwned ==
    /\ \A c, d \in Checks :
         /\ checks[c].state # "new" /\ checks[d].state # "new"
         /\ checks[c].name = checks[d].name /\ checks[c].name \notin excused
         => c = d
    /\ \A c \in Checks : checks[c].state = "new" => checks[c].up /\ c \notin deleting
    /\ \A i \in DOMAIN alerts : alerts[i].key \in excused \/ Known(alerts[i].key)

\* What the loop calls a check is its name, or both names were in a renaming.
SnapsKnown ==
    run.pc # "sleep" => \A c \in DOMAIN run.snap :
        /\ checks[c].state # "new"
        /\ \/ run.snap[c].name = checks[c].name
           \/ {run.snap[c].name, checks[c].name} \subseteq excused

\* A result of the check is still to be taken; the result that was taken last is not
\* yet in the alerts table.
Pending(c) ==
    \/ run.pc = "probe" /\ c \in DOMAIN run.snap
    \/ run.pc \in {"next"} \cup Handling /\ c \in run.todo
Reporting(c) ==
    /\ run.pc \in Handling /\ run.cur = c
    /\ run.pc = "fire" => call[Loop].pc \in {"check", "insert"}

\* The row is what the snapshot says until a result is taken, and then the result.
RowsFollowProbes ==
    /\ \A c \in Stored : Pending(c) => run.snap[c].up = checks[c].up
    /\ run.pc \in Handling /\ run.cur \in Stored => checks[run.cur].up = IsUp
    /\ call[Loop].pc \in {"check", "insert"} =>
         call[Loop].kind = IF IsUp THEN "recover" ELSE "raise"

AlertsFollowRows ==
    \A c \in Stored : checks[c].name \notin excused =>
        (AP!Ongoing(checks[c].name) <=> IF Reporting(c) THEN ~WasUp ELSE ~checks[c].up)

Unacked(n) == {i \in AP!AlertRows(n) : ~alerts[i].acked}

\* The duplicate check of the result is still to come.
Probing(c) == Pending(c) \/ (Reporting(c) /\ (run.pc = "fire" => call[Loop].pc = "check"))

\* An alert came within an iteration of its check, at most MaxBusy after its begin, or
\* before the start of the process and more than a window ago.
LastProbeCovers(c) ==
    \A i \in Unacked(checks[c].name) :
        \/ run.pc = "fire" /\ run.cur = c
        \/ IF c \in DOMAIN lastRun THEN alerts[i].ts <= lastRun[c] + MaxBusy
           ELSE alerts[i].ts + DupWindow <= now

WindowHasPassed(c) ==
    Probing(c) => \A i \in Unacked(checks[c].name) : alerts[i].ts + DupWindow <= run.started

CallsInTime ==
    /\ \A i \in DOMAIN alerts : alerts[i].ts <= now
    /\ call[Loop].pc = "check" => call[Loop].at >= run.started

ProbesSpaced ==
    \A c \in Checks : checks[c].state # "new" /\ checks[c].name \notin excused =>
        LastProbeCovers(c) /\ WindowHasPassed(c)

MatchInv ==
    /\ NamesOwned /\ SnapsKnown /\ RowsFollowProbes
    /\ AlertsFollowRows /\ CallsInTime /\ ProbesSpaced

-----------------------------------------------------------------------------
(* Names.                                                                  *)

\* Request handlers: what becomes of the rows of uptime_checks.
LEMMA HandlerSteps ==
    ASSUME MonitorTyped
    PROVE  /\ \A c \in Checks, n \in Names : AddCheck(c, n) =>
                /\ checks[c].state = "new" /\ checks'[c].state = "stored"
                /\ checks'[c].name = n /\ checks'[c].up = checks[c].up
                /\ \A d \in Checks : d # c => checks'[d] = checks[d]
           /\ \A c \in Checks, n \in Names : Rename(c, n) =>
                /\ checks[c].state = "stored" /\ checks'[c].state = "stored"
                /\ checks'[c].name = n /\ checks'[c].up = checks[c].up
                /\ \A d \in Checks : d # c => checks'[d] = checks[d]
                /\ excused' = excused \cup {n, checks[c].name}
           /\ \A c \in Checks : SetEnabled(c) \/ DeleteRow(c) \/ DeleteHistory(c) =>
                /\ checks'[c].name = checks[c].name /\ checks'[c].up = checks[c].up
                /\ SetEnabled(c) => checks'[c].state = checks[c].state
                /\ DeleteRow(c) => checks[c].state = "stored" /\ checks'[c].state = "deleted"
                /\ DeleteHistory(c) => checks'[c].state = "purged"
                /\ \A d \in Checks : d # c => checks'[d] = checks[d]
                /\ excused' = excused
<1>0. checks \in [Checks -> Check] /\ \A c \in Checks : checks[c] \in Check
  BY DEF MonitorTyped, TablesTyped
<1>1. ASSUME NEW c \in Checks, NEW n \in Names, AddCheck(c, n)
      PROVE  /\ checks[c].state = "new" /\ checks'[c].state = "stored"
             /\ checks'[c].name = n /\ checks'[c].up = checks[c].up
             /\ \A d \in Checks : d # c => checks'[d] = checks[d]
  <2>1. checks' = [checks EXCEPT ![c] = [checks[c] EXCEPT !.state = "stored", !.name = n]]
    BY <1>1 DEF AddCheck
  <2>. QED
    BY <1>0, <1>1, <2>1 DEF AddCheck, Check
<1>2. ASSUME NEW c \in Checks, NEW n \in Names, Rename(c, n)
      PROVE  /\ checks[c].state = "stored" /\ checks'[c].state = "stored"
             /\ checks'[c].name = n /\ checks'[c].up = checks[c].up
             /\ \A d \in Checks : d # c => checks'[d] = checks[d]
             /\ excused' = excused \cup {n, checks[c].name}
  BY <1>0, <1>2 DEF Rename, Stored, Check
<1>3. ASSUME NEW c \in Checks, SetEnabled(c)
      PROVE  /\ checks'[c].name = checks[c].name /\ checks'[c].up = checks[c].up
             /\ checks'[c].state = checks[c].state
             /\ \A d \in Checks : d # c => checks'[d] = checks[d]
             /\ excused' = excused
  BY <1>0, <1>3 DEF SetEnabled, Check
<1>4. ASSUME NEW c \in Checks, DeleteRow(c)
      PROVE  /\ checks'[c].name = checks[c].name /\ checks'[c].up = checks[c].up
             /\ checks[c].state = "stored" /\ checks'[c].state = "deleted"
             /\ \A d \in Checks : d # c => checks'[d] = checks[d]
             /\ excused' = excused
  BY <1>0, <1>4 DEF DeleteRow, Stored, Check
<1>5. ASSUME NEW c \in Checks, DeleteHistory(c)
      PROVE  /\ checks'[c].name = checks[c].name /\ checks'[c].up = checks[c].up
             /\ checks'[c].state = "purged"
             /\ \A d \in Checks : d # c => checks'[d] = checks[d]
             /\ excused' = excused
  BY <1>0, <1>5 DEF DeleteHistory, Check
<1>. QED
  BY <1>1, <1>2, <1>3, <1>4, <1>5

\* What is said of the alerts of a name depends on the table alone.
LEMMA SameAlerts ==
    ASSUME alerts' = alerts
    PROVE  \A n : /\ AP!AlertRows(n)' = AP!AlertRows(n)
                  /\ AP!Ongoing(n)' <=> AP!Ongoing(n)
                  /\ Unacked(n)' = Unacked(n)
<1>1. \A n : AP!AlertRows(n)' = AP!AlertRows(n)
  BY DEF AP!AlertRows
<1>. QED
  BY <1>1 DEF AP!Ongoing, Unacked

\* A check is added, under a name that no alert has unless the name was reused.
LEMMA AddMatches ==
    ASSUME MonitorTyped, MatchInv, NEW c \in Checks, NEW n \in Names, AddCheck(c, n)
    PROVE  MatchInv'
<1>. USE DEF MatchInv
<1>0. /\ UNCHANGED <<now, alerts, call, run, lastRun, deleting>>
      /\ excused' = excused \cup
           {m \in {n} : \E d \in Checks : checks[d].state # "new" /\ checks[d].name = n}
  BY DEF AddCheck, apVars
<1>1. /\ checks[c].state = "new" /\ checks'[c].state = "stored"
      /\ checks'[c].name = n /\ checks'[c].up = checks[c].up
      /\ \A d \in Checks : d # c => checks'[d] = checks[d]
  BY HandlerSteps
<1>2. /\ excused \subseteq excused'
      /\ Known(n) => n \in excused'
  BY <1>0 DEF Known
<1>3. \A m : Known(m) => Known(m)'
  BY <1>1 DEF Known
<1>4. NamesOwned'
  <2>1. \A d \in Checks : d # c /\ checks[d].state # "new" /\ checks[d].name = n => n \in excused'
    BY <1>2 DEF Known
  <2>. QED
    BY <1>0, <1>1, <1>2, <1>3, <2>1 DEF NamesOwned
<1>5. run.pc # "sleep" => c \notin DOMAIN run.snap
  BY <1>1 DEF SnapsKnown
<1>6. SnapsKnown'
  <2>1. run.pc # "sleep" => DOMAIN run.snap \subseteq Checks
    BY RunShape DEF MonitorTyped, RunTyped
  <2>. QED
    BY <1>0, <1>1, <1>2, <1>5, <2>1 DEF SnapsKnown
<1>7. ~Pending(c) /\ ~Reporting(c)
  BY <1>5 DEF Pending, Reporting, MonitorTyped, RunTyped, Handling
<1>8. \A d : /\ Pending(d)' <=> Pending(d)
             /\ Reporting(d)' <=> Reporting(d)
             /\ Probing(d)' <=> Probing(d)
  BY <1>0 DEF Pending, Reporting, Probing, Handling
<1>9. run.pc \in Handling => run.cur # c /\ run.cur \in Checks
  BY <1>5, RunShape DEF MonitorTyped, RunTyped, Handling
<1>10. RowsFollowProbes'
  <2>1. \A d \in Stored' : d # c => d \in Stored
    BY <1>1 DEF Stored
  <2>. QED
    BY <1>0, <1>1, <1>7, <1>8, <1>9, <2>1 DEF RowsFollowProbes, Stored, IsUp
<1>11. n \notin excused' => AP!AlertRows(n) = {}
  BY <1>2 DEF NamesOwned, AP!AlertRows
<1>12. AlertsFollowRows'
  <2>1. ASSUME NEW d \in Stored', checks'[d].name \notin excused'
        PROVE  (AP!Ongoing(checks[d].name) <=> IF Reporting(d) THEN ~WasUp ELSE ~checks[d].up)'
    <3>1. d # c => checks'[d] = checks[d] /\ d \in Stored
      BY <1>1 DEF Stored
    <3>2. CASE d = c
      <4>1. ~AP!Ongoing(n) /\ checks[c].up
        BY <1>1, <1>11, <2>1, <3>2 DEF AP!Ongoing, NamesOwned
      <4>2. ~AP!Ongoing(n)'
        BY <1>0, <4>1, SameAlerts
      <4>. QED
        BY <3>2, <4>1, <4>2, <1>1, <1>7, <1>8
    <3>3. CASE d # c
      <4>1. AP!Ongoing(checks[d].name) <=> IF Reporting(d) THEN ~WasUp ELSE ~checks[d].up
        BY <3>1, <3>3, <1>2, <2>1 DEF AlertsFollowRows
      <4>2. AP!Ongoing(checks[d].name)' <=> AP!Ongoing(checks[d].name)
        BY <3>1, <3>3, <1>0 DEF AP!Ongoing, AP!AlertRows
      <4>. QED
        BY <4>1, <4>2, <3>1, <3>3, <1>0, <1>8 DEF WasUp
    <3>. QED
      BY <3>2, <3>3
  <2>. QED
    BY <2>1 DEF AlertsFollowRows
<1>13. CallsInTime'
  BY <1>0 DEF CallsInTime
<1>14. ProbesSpaced'
  <2>1. ASSUME NEW d \in Checks, checks'[d].state # "new", checks'[d].name \notin excused'
        PROVE  (LastProbeCovers(d) /\ WindowHasPassed(d))'
    <3>1. CASE d = c
      <4>1. Unacked(n) = {}
        BY <1>1, <1>11, <2>1, <3>1 DEF Unacked
      <4>2. Unacked(checks[d].name)' = {}
        BY <1>0, <1>1, <3>1, <4>1 DEF Unacked, AP!AlertRows
      <4>. QED
        BY <4>2 DEF LastProbeCovers, WindowHasPassed
    <3>2. CASE d # c
      <4>1. LastProbeCovers(d) /\ WindowHasPassed(d) /\ checks'[d] = checks[d]
        BY <1>1, <1>2, <2>1, <3>2 DEF ProbesSpaced
      <4>2. Unacked(checks[d].name)' = Unacked(checks[d].name)
        BY <1>0, <4>1 DEF Unacked, AP!AlertRows
      <4>. QED
        BY <1>0, <1>8, <4>1, <4>2 DEF LastProbeCovers, WindowHasPassed
    <3>. QED
      BY <3>1, <3>2
  <2>. QED
    BY <2>1 DEF ProbesSpaced
<1>. QED
  BY <1>4, <1>6, <1>10, <1>12, <1>13, <1>14

\* A step that touches nothing but rows of checks, and keeps what probes found of them
\* and their names, but for names it excuses.
LEMMA RowsMatch ==
    ASSUME MonitorTyped, MatchInv, UNCHANGED <<now, alerts, call, run, lastRun>>,
           excused \subseteq excused',
           \A d \in Checks :
             /\ checks'[d].up = checks[d].up
             /\ checks'[d].state = "new" <=> checks[d].state = "new"
             /\ checks'[d].state = "stored" => checks[d].state = "stored"
             /\ \/ checks'[d].name = checks[d].name
                \/ {checks'[d].name, checks[d].name} \subseteq excused'
             /\ checks[d].state = "new" => d \notin deleting'
    PROVE  MatchInv'
<1>. USE DEF MatchInv
<1>1. \A n : Known(n) => Known(n)' \/ n \in excused'
  BY DEF Known
<1>2. NamesOwned'
  BY <1>1 DEF NamesOwned
<1>3. SnapsKnown'
  <2>1. run.pc # "sleep" => DOMAIN run.snap \subseteq Checks
    BY RunShape DEF MonitorTyped, RunTyped
  <2>. QED
    BY <2>1 DEF SnapsKnown
<1>4. \A d : /\ Pending(d)' <=> Pending(d)
             /\ Reporting(d)' <=> Reporting(d)
             /\ Probing(d)' <=> Probing(d)
  BY DEF Pending, Reporting, Probing, Handling
<1>5. \A d \in Stored' : d \in Stored
  BY DEF Stored
<1>6. RowsFollowProbes'
  BY <1>4, <1>5 DEF RowsFollowProbes, Stored, IsUp
<1>7. AlertsFollowRows'
  <2>1. ASSUME NEW d \in Stored', checks'[d].name \notin excused'
        PROVE  (AP!Ongoing(checks[d].name) <=> IF Reporting(d) THEN ~WasUp ELSE ~checks[d].up)'
    <3>1. d \in Stored /\ checks'[d].name = checks[d].name /\ checks'[d].up = checks[d].up
      BY <1>5, <2>1 DEF Stored
    <3>2. AP!Ongoing(checks[d].name) <=> IF Reporting(d) THEN ~WasUp ELSE ~checks[d].up
      BY <2>1, <3>1 DEF AlertsFollowRows
    <3>3. AP!Ongoing(checks[d].name)' <=> AP!Ongoing(checks[d].name)
      BY <3>1 DEF AP!Ongoing, AP!AlertRows
    <3>. QED
      BY <3>1, <3>2, <3>3, <1>4 DEF WasUp
  <2>. QED
    BY <2>1 DEF AlertsFollowRows
<1>8. CallsInTime'
  BY DEF CallsInTime
<1>9. ProbesSpaced'
  <2>1. ASSUME NEW d \in Checks, checks'[d].state # "new", checks'[d].name \notin excused'
        PROVE  (LastProbeCovers(d) /\ WindowHasPassed(d))'
    <3>1. /\ LastProbeCovers(d) /\ WindowHasPassed(d)
          /\ checks'[d].name = checks[d].name
      BY <2>1 DEF ProbesSpaced
    <3>2. Unacked(checks[d].name)' = Unacked(checks[d].name)
      BY <3>1 DEF Unacked, AP!AlertRows
    <3>. QED
      BY <1>4, <3>1, <3>2 DEF LastProbeCovers, WindowHasPassed
  <2>. QED
    BY <2>1 DEF ProbesSpaced
<1>. QED
  BY <1>2, <1>3, <1>6, <1>7, <1>8, <1>9

\* The other request handlers.
LEMMA HandlersMatch ==
    ASSUME MonitorTyped, MatchInv,
           \/ \E c \in Checks, n \in Names : AddCheck(c, n) \/ Rename(c, n)
           \/ \E c \in Checks : SetEnabled(c) \/ DeleteRow(c) \/ DeleteHistory(c)
    PROVE  MatchInv'
<1>1. ASSUME NEW c \in Checks, NEW n \in Names, Rename(c, n) PROVE MatchInv'
  <2>1. UNCHANGED <<now, alerts, call, run, lastRun, deleting>>
    BY <1>1 DEF Rename, apVars
  <2>2. /\ checks[c].state = "stored" /\ checks'[c].state = "stored"
        /\ checks'[c].name = n /\ checks'[c].up = checks[c].up
        /\ \A d \in Checks : d # c => checks'[d] = checks[d]
        /\ excused' = excused \cup {n, checks[c].name}
    BY <1>1, HandlerSteps
  <2>3. \A d \in Checks : checks[d].state = "new" => d \notin deleting
    BY DEF MatchInv, NamesOwned
  <2>. QED
    BY <2>1, <2>2, <2>3, RowsMatch
<1>2. ASSUME NEW c \in Checks, SetEnabled(c) \/ DeleteRow(c) \/ DeleteHistory(c)
      PROVE  MatchInv'
  <2>1. UNCHANGED <<now, alerts, call, run, lastRun>>
    BY <1>2 DEF SetEnabled, DeleteRow, DeleteHistory, apVars
  <2>2. \A d \in Checks : checks[d].state = "new" => d \notin deleting
    BY DEF MatchInv, NamesOwned
  <2>3. /\ checks'[c].name = checks[c].name /\ checks'[c].up = checks[c].up
        /\ checks[c].state # "new" \/ SetEnabled(c)
        /\ \A d \in Checks : d # c => checks'[d] = checks[d]
        /\ excused' = excused
    BY <1>2, <2>2, HandlerSteps DEF DeleteHistory
  <2>4. /\ checks'[c].state = "new" <=> checks[c].state = "new"
        /\ checks'[c].state = "stored" => checks[c].state = "stored"
    BY <1>2, <2>2, HandlerSteps DEF DeleteHistory
  <2>5. \A d \in Checks : checks[d].state = "new" => d \notin deleting'
    <3>1. deleting' \subseteq deleting \cup {c} /\ (SetEnabled(c) => deleting' = deleting)
      BY <1>2 DEF SetEnabled, DeleteRow, DeleteHistory
    <3>. QED
      BY <2>2, <2>3, <3>1
  <2>. QED
    BY <2>1, <2>3, <2>4, <2>5, RowsMatch
<1>. QED
  BY <1>1, <1>2, AddMatches

-----------------------------------------------------------------------------
(* The loop.                                                               *)

\* Names stay with their checks while no row changes its name or is added.
LEMMA NamesStay ==
    ASSUME MatchInv, alerts' = alerts, deleting' \subseteq deleting, excused \subseteq excused',
           \A d \in Checks : /\ checks'[d].state = checks[d].state
                             /\ checks'[d].name = checks[d].name
                             /\ checks[d].state = "new" => checks'[d].up = checks[d].up
    PROVE  NamesOwned'
<1>1. \A n : Known(n) => Known(n)'
  BY DEF Known
<1>. QED
  BY <1>1 DEF MatchInv, NamesOwned

\* A poll comes an interval after the last one that reported the check: with an
\* iteration that may last MaxBusy between, the window of the alert it raised is over.
LEMMA PollMatches ==
    ASSUME DupWindow + MaxBusy <= Interval, MonitorTyped, MatchInv, Poll
    PROVE  MatchInv'
<1>. USE UptimeAssumption DEF MatchInv
<1>. DEFINE due == {d \in Checks : Due(d)}
<1>1. /\ run.pc = "sleep" /\ UNCHANGED <<now, alerts, call, checks, lastRun, deleting, excused>>
      /\ run' = [pc |-> "probe", started |-> now, snap |-> Restrict(checks, due)]
  BY DEF Poll, apVars
<1>2. /\ run'.pc = "probe" /\ run'.started = now /\ DOMAIN run'.snap = due
      /\ \A d \in due : run'.snap[d] = checks[d]
  BY <1>1 DEF Restrict
<1>3. \A d \in due : d \in Checks /\ d \in Stored /\ Due(d)
  BY DEF Due
<1>. HIDE DEF due
<1>4. call[Loop].pc = "idle" /\ now \in Nat
  BY <1>1, LoopCall DEF MonitorTyped, CallTyped
<1>5. NamesOwned'
  BY <1>1, NamesStay
<1>6. SnapsKnown'
  BY <1>1, <1>2, <1>3 DEF SnapsKnown, Stored
<1>7. \A d : /\ ~Reporting(d) /\ ~Reporting(d)'
             /\ Pending(d)' => d \in due
             /\ Probing(d)' => d \in due
  BY <1>1, <1>2 DEF Reporting, Pending, Probing, Handling
<1>8. RowsFollowProbes'
  <2>1. \A d : Pending(d)' => run'.snap[d].up = checks'[d].up
    BY <1>1, <1>2, <1>7
  <2>2. run'.pc \notin Handling /\ call'[Loop].pc = "idle"
    BY <1>1, <1>2, <1>4 DEF Handling
  <2>. QED
    BY <2>1, <2>2 DEF RowsFollowProbes
<1>9. AlertsFollowRows'
  <2>1. ASSUME NEW d \in Stored, checks[d].name \notin excused
        PROVE  (AP!Ongoing(checks[d].name) <=> IF Reporting(d) THEN ~WasUp ELSE ~checks[d].up)'
    <3>1. AP!Ongoing(checks[d].name)' <=> AP!Ongoing(checks[d].name)
      BY <1>1 DEF AP!Ongoing, AP!AlertRows
    <3>2. AP!Ongoing(checks[d].name) <=> ~checks[d].up
      BY <1>7, <2>1 DEF AlertsFollowRows
    <3>. QED
      BY <1>1, <1>7, <3>1, <3>2
  <2>. QED
    BY <1>1, <2>1 DEF AlertsFollowRows, Stored
<1>10. CallsInTime'
  BY <1>1, <1>4 DEF CallsInTime
<1>11. ASSUME NEW d \in Checks, checks[d].state # "new", checks[d].name \notin excused
       PROVE  (LastProbeCovers(d) /\ WindowHasPassed(d))'
  <2>1. Unacked(checks[d].name)' = Unacked(checks[d].name)
    BY <1>1 DEF Unacked, AP!AlertRows
  <2>2. \A i \in Unacked(checks[d].name) :
          IF d \in DOMAIN lastRun THEN alerts[i].ts <= lastRun[d] + MaxBusy
          ELSE alerts[i].ts + DupWindow <= now
    BY <1>1, <1>11 DEF ProbesSpaced, LastProbeCovers
  <2>3. LastProbeCovers(d)'
    BY <1>1, <2>1, <2>2 DEF LastProbeCovers
  <2>4. \A i \in Unacked(checks[d].name) : alerts[i].ts \in Nat
    BY AlertsStay DEF Unacked, AP!AlertRows, MonitorTyped
  <2>5. d \in due /\ d \in DOMAIN lastRun => lastRun[d] \in Nat /\ now - lastRun[d] >= Interval
    BY <1>3, <1>4 DEF Due, MonitorTyped, TablesTyped
  <2>6. ASSUME d \in due, NEW i \in Unacked(checks[d].name)
        PROVE  alerts[i].ts + DupWindow <= now
    <3>1. CASE d \in DOMAIN lastRun
      <4>1. /\ alerts[i].ts <= lastRun[d] + MaxBusy /\ alerts[i].ts \in Nat
            /\ lastRun[d] \in Nat /\ now - lastRun[d] >= Interval
        BY <2>2, <2>4, <2>5, <2>6, <3>1
      <4>. QED
        BY <4>1, <1>4
    <3>2. CASE d \notin DOMAIN lastRun
      BY <2>2, <2>6, <3>2
    <3>. QED
      BY <3>1, <3>2
  <2>7. WindowHasPassed(d)'
    BY <1>1, <1>2, <1>7, <2>1, <2>6 DEF WindowHasPassed
  <2>. QED
    BY <2>3, <2>7
<1>12. ProbesSpaced'
  BY <1>1, <1>11 DEF ProbesSpaced
<1>. QED
  BY <1>5, <1>6, <1>8, <1>9, <1>10, <1>12

\* A step of the loop that neither begins an iteration nor ends one, nor raises an
\* alert: fewer results are to come, and a result that is no longer to be reported left
\* the row as it was.
LEMMA LoopMatches ==
    ASSUME MonitorTyped, MatchInv, Probed \/ PersistHistory \/ \E c \in Checks : PersistRow(c)
    PROVE  MatchInv'
<1>. USE UptimeAssumption DEF MatchInv
<1>0. /\ run \in Run /\ checks \in [Checks -> Check]
      /\ UNCHANGED <<now, alerts, call, lastRun, deleting, excused>>
  BY DEF MonitorTyped, RunTyped, TablesTyped, Probed, PersistHistory, PersistRow, apVars
<1>1. /\ run.pc \in {"probe", "next", "history"} /\ run'.pc \in {"next", "history", "detect"}
      /\ run'.started = run.started /\ run'.snap = run.snap
      /\ \A d : Pending(d)' => Pending(d)
      /\ \A d : Probing(d)' => Probing(d)
  <2>1. CASE Probed
    <3>1. run.pc = "probe" /\ run'.pc = "next"
      BY <2>1 DEF Probed
    <3>2. /\ run'.started = run.started /\ run'.snap = run.snap
          /\ run'.todo \subseteq DOMAIN run.snap
      BY <2>1 DEF Probed
    <3>. QED
      BY <3>1, <3>2 DEF Pending, Probing, Reporting, Handling
  <2>2. CASE PersistHistory
    <3>1. /\ run.pc = "history"
          /\ run \in [pc : Handling, started : Nat, snap : Snaps, result : Results,
                      todo : SUBSET Checks, cur : Checks]
      BY <1>0, <2>2, RunShape DEF PersistHistory, Handling
    <3>2. /\ run'.pc = "detect" /\ run'.started = run.started /\ run'.snap = run.snap
          /\ run'.todo = run.todo /\ run'.cur = run.cur
      BY <2>2, <3>1, RunsFit DEF PersistHistory, Handling
    <3>. QED
      BY <3>1, <3>2 DEF Pending, Probing, Reporting, Handling
  <2>3. ASSUME NEW c \in Checks, PersistRow(c)
        PROVE  /\ run.pc = "next" /\ run'.pc = "history"
               /\ run'.started = run.started /\ run'.snap = run.snap
               /\ \A d : Pending(d)' => Pending(d)
               /\ \A d : Probing(d)' => Probing(d)
    BY <2>3 DEF PersistRow, Pending, Probing, Reporting, Handling
  <2>. QED
    BY <2>1, <2>2, <2>3
<1>2. /\ \A d \in Checks : /\ checks'[d].state = checks[d].state
                           /\ checks'[d].name = checks[d].name
                           /\ checks[d].state = "new" => checks'[d].up = checks[d].up
      /\ \A c \in Checks : PersistRow(c) =>
           /\ c \in Stored => checks'[c].up = run.result[c]
           /\ \A d \in Checks : d # c => checks'[d] = checks[d]
      /\ Probed \/ PersistHistory => checks' = checks
  <2>1. \A c \in Checks, b \in BOOLEAN :
          /\ [checks[c] EXCEPT !.up = b].state = checks[c].state
          /\ [checks[c] EXCEPT !.up = b].name = checks[c].name
          /\ [checks[c] EXCEPT !.up = b].up = b
    BY <1>0 DEF Check
  <2>2. ASSUME NEW c \in Checks, PersistRow(c)
        PROVE  /\ checks'[c].state = checks[c].state /\ checks'[c].name = checks[c].name
               /\ c \in Stored => checks'[c].up = run.result[c]
               /\ c \notin Stored => checks' = checks
               /\ \A d \in Checks : d # c => checks'[d] = checks[d]
    <3>1. run.pc = "next" /\ c \in run.todo
      BY <2>2 DEF PersistRow
    <3>2. run.result[c] \in BOOLEAN
      BY <1>0, <3>1, RunShape DEF MonitorTyped, RunTyped
    <3>3. CASE c \in Stored
      <4>1. checks' = [checks EXCEPT ![c] = [checks[c] EXCEPT !.up = run.result[c]]]
        BY <2>2, <3>3 DEF PersistRow
      <4>. QED
        BY <1>0, <2>1, <3>2, <3>3, <4>1
    <3>4. CASE c \notin Stored
      BY <2>2, <3>4 DEF PersistRow
    <3>. QED
      BY <3>3, <3>4
  <2>3. Probed \/ PersistHistory => checks' = checks
    BY DEF Probed, PersistHistory
  <2>. QED
    BY <2>2, <2>3 DEF Stored
<1>3. NamesOwned'
  BY <1>0, <1>2, NamesStay
<1>4. SnapsKnown'
  <2>1. DOMAIN run.snap \subseteq Checks /\ run.pc # "sleep"
    BY <1>0, <1>1, RunShape
  <2>. QED
    BY <1>0, <1>1, <1>2, <2>1 DEF SnapsKnown
<1>5. \A d : d \in Stored' <=> d \in Stored
  BY <1>2 DEF Stored
<1>6. call[Loop].pc = "idle"
  BY <1>1 DEF MonitorTyped, CallTyped
<1>7. RowsFollowProbes' /\ AlertsFollowRows'
  <2>1. CASE Probed
    <3>1. run.pc = "probe" /\ run'.pc = "next" /\ checks' = checks
      BY <2>1 DEF Probed
    <3>2. \A d : ~Reporting(d) /\ ~Reporting(d)'
      BY <3>1 DEF Reporting, Handling
    <3>. QED
      BY <1>0, <1>1, <1>5, <1>6, <3>1, <3>2, SameAlerts
         DEF RowsFollowProbes, AlertsFollowRows, Stored, Handling
  <2>2. CASE PersistHistory
    <3>1. /\ run.pc = "history" /\ checks' = checks
          /\ run \in [pc : Handling, started : Nat, snap : Snaps, result : Results,
                      todo : SUBSET Checks, cur : Checks]
      BY <1>0, <2>2, RunShape DEF PersistHistory, Handling
    <3>2. /\ run'.pc = "detect" /\ run'.result = run.result /\ run'.cur = run.cur
      BY <2>2, <3>1, RunsFit DEF PersistHistory, Handling
    <3>3. \A d : Reporting(d)' <=> Reporting(d)
      BY <3>1, <3>2 DEF Reporting, Handling
    <3>4. WasUp' = WasUp /\ IsUp' = IsUp
      BY <1>1, <3>2 DEF WasUp, IsUp
    <3>5. RowsFollowProbes'
      BY <1>0, <1>1, <1>5, <1>6, <3>1, <3>2, <3>4 DEF RowsFollowProbes, Stored, Handling
    <3>6. AlertsFollowRows'
      BY <1>0, <1>5, <3>1, <3>3, <3>4, SameAlerts DEF AlertsFollowRows, Stored
    <3>. QED
      BY <3>5, <3>6
  <2>3. ASSUME NEW c \in Checks, PersistRow(c) PROVE RowsFollowProbes' /\ AlertsFollowRows'
    <3>1. /\ run.pc = "next" /\ c \in run.todo /\ run'.pc = "history" /\ run'.cur = c
          /\ run'.result = run.result /\ run'.todo = run.todo \ {c}
      BY <2>3 DEF PersistRow
    <3>2. /\ \A d : ~Reporting(d) /\ (Reporting(d)' <=> d = c)
          /\ Pending(c) /\ ~Pending(c)'
      BY <3>1 DEF Reporting, Pending, Handling
    <3>3. IsUp' = run.result[c] /\ WasUp' = run.snap[c].up
      BY <1>1, <3>1 DEF IsUp, WasUp
    <3>4. \A d \in Stored : d # c => checks'[d] = checks[d]
      BY <1>2, <2>3 DEF Stored
    <3>5. RowsFollowProbes'
      BY <1>0, <1>1, <1>2, <1>5, <1>6, <2>3, <3>1, <3>2, <3>3, <3>4 DEF RowsFollowProbes
    <3>6. ASSUME NEW d \in Stored, checks[d].name \notin excused
          PROVE  (AP!Ongoing(checks[d].name) <=> IF Reporting(d) THEN ~WasUp ELSE ~checks[d].up)'
      <4>1. AP!Ongoing(checks[d].name) <=> ~checks[d].up
        BY <3>2, <3>6 DEF AlertsFollowRows
      <4>2. AP!Ongoing(checks[d].name)' <=> AP!Ongoing(checks[d].name)
        BY <1>0, <1>2, <3>6 DEF AP!Ongoing, AP!AlertRows, Stored
      <4>3. CASE d = c
        BY <4>1, <4>2, <4>3, <3>2, <3>3, <3>6 DEF RowsFollowProbes
      <4>4. CASE d # c
        BY <4>1, <4>2, <4>4, <3>2, <3>4
      <4>. QED
        BY <4>3, <4>4
    <3>7. AlertsFollowRows'
      BY <1>0, <1>2, <1>5, <3>6 DEF AlertsFollowRows, Stored
    <3>. QED
      BY <3>5, <3>7
  <2>. QED
    BY <2>1, <2>2, <2>3
<1>8. CallsInTime'
  BY <1>0, <1>1 DEF CallsInTime
<1>9. ProbesSpaced'
  <2>1. ASSUME NEW d \in Checks, checks[d].state # "new", checks[d].name \notin excused
        PROVE  (LastProbeCovers(d) /\ WindowHasPassed(d))'
    <3>1. Unacked(checks[d].name)' = Unacked(checks[d].name)
      BY <1>0, <1>2 DEF Unacked, AP!AlertRows
    <3>2. LastProbeCovers(d) /\ WindowHasPassed(d)
      BY <2>1 DEF ProbesSpaced
    <3>. QED
      BY <1>0, <1>1, <3>1, <3>2 DEF LastProbeCovers, WindowHasPassed
  <2>. QED
    BY <1>0, <1>2, <2>1 DEF ProbesSpaced
<1>. QED
  BY <1>3, <1>4, <1>7, <1>8, <1>9

\* A transition is handed to fire_custom_alert; a result that is none is done with.
LEMMA DetectMatches ==
    ASSUME MonitorTyped, MatchInv, Detect
    PROVE  MatchInv'
<1>. USE UptimeAssumption DEF MatchInv
<1>0. /\ run \in Run /\ run.pc = "detect" /\ now \in Nat
      /\ UNCHANGED <<checks, lastRun, deleting, excused>>
      /\ alerts' = alerts /\ now' = now /\ call[Loop].pc = "idle"
      /\ run \in [pc : Handling, started : Nat, snap : Snaps, result : Results,
                  todo : SUBSET Checks, cur : Checks]
  <2>1. alerts' = alerts /\ now' = now
    BY CallSteps DEF Detect, apVars, MonitorTyped
  <2>2. run.pc = "detect" /\ UNCHANGED <<checks, lastRun, deleting, excused>>
    BY DEF Detect
  <2>. QED
    BY <2>1, <2>2, RunShape, LoopCall DEF MonitorTyped, RunTyped, CallTyped, Handling
<1>1. /\ run'.pc = "fire" /\ run'.started = run.started /\ run'.snap = run.snap
      /\ run'.result = run.result /\ run'.todo = run.todo /\ run'.cur = run.cur
  BY <1>0, RunsFit DEF Detect, Handling
<1>2. WasUp' = WasUp /\ IsUp' = IsUp
  BY <1>1 DEF WasUp, IsUp
<1>3. \/ WasUp = IsUp /\ call'[Loop].pc = "idle"
      \/ /\ call'[Loop].pc = "check" /\ call'[Loop].at = now
         /\ call'[Loop].kind = IF IsUp THEN "recover" ELSE "raise"
  <2>1. CASE WasUp = IsUp
    BY <2>1, <1>0 DEF Detect, apVars
  <2>2. CASE WasUp # IsUp
    <3>1. AP!Raise(Loop, run.snap[run.cur].name, IF IsUp THEN "recover" ELSE "raise")
      BY <2>2 DEF Detect
    <3>. QED
      BY <3>1, CallSteps DEF MonitorTyped
  <2>. QED
    BY <2>1, <2>2
<1>4. /\ \A d : Pending(d)' <=> Pending(d)
      /\ \A d : Reporting(d) <=> d = run.cur
      /\ \A d : Reporting(d)' <=> d = run.cur /\ call'[Loop].pc = "check"
      /\ \A d : Probing(d)' => Probing(d)
  <2>1. \A d : Pending(d)' <=> Pending(d)
    BY <1>0, <1>1 DEF Pending, Handling
  <2>2. \A d : Reporting(d) <=> d = run.cur
    BY <1>0 DEF Reporting, Handling
  <2>3. \A d : Reporting(d)' <=> d = run.cur /\ call'[Loop].pc = "check"
    BY <1>1, <1>3 DEF Reporting, Handling
  <2>. QED
    BY <1>0, <2>1, <2>2, <2>3 DEF Probing
<1>5. NamesOwned'
  BY <1>0, NamesStay
<1>6. SnapsKnown'
  BY <1>0, <1>1 DEF SnapsKnown
<1>7. RowsFollowProbes'
  BY <1>0, <1>1, <1>2, <1>3, <1>4 DEF RowsFollowProbes, Stored, Handling
<1>8. AlertsFollowRows'
  <2>1. ASSUME NEW d \in Stored, checks[d].name \notin excused
        PROVE  (AP!Ongoing(checks[d].name) <=> IF Reporting(d) THEN ~WasUp ELSE ~checks[d].up)'
    <3>1. AP!Ongoing(checks[d].name)' <=> AP!Ongoing(checks[d].name)
      BY <1>0 DEF AP!Ongoing, AP!AlertRows
    <3>2. AP!Ongoing(checks[d].name) <=> IF Reporting(d) THEN ~WasUp ELSE ~checks[d].up
      BY <2>1 DEF AlertsFollowRows
    <3>3. d = run.cur => checks[d].up = IsUp
      BY <1>0, <2>1 DEF RowsFollowProbes, Handling
    <3>4. CASE d = run.cur /\ WasUp = IsUp
      BY <3>1, <3>2, <3>3, <3>4, <1>0, <1>2, <1>4
    <3>5. CASE d = run.cur /\ WasUp # IsUp
      BY <3>1, <3>2, <3>5, <1>2, <1>3, <1>4
    <3>6. CASE d # run.cur
      BY <3>1, <3>2, <3>6, <1>0, <1>4
    <3>. QED
      BY <3>4, <3>5, <3>6
  <2>. QED
    BY <1>0, <2>1 DEF AlertsFollowRows, Stored
<1>9. CallsInTime'
  BY <1>0, <1>1, <1>3 DEF CallsInTime, MonitorTyped, RunTyped
<1>10. ProbesSpaced'
  <2>1. ASSUME NEW d \in Checks, checks[d].state # "new", checks[d].name \notin excused
        PROVE  (LastProbeCovers(d) /\ WindowHasPassed(d))'
    <3>1. Unacked(checks[d].name)' = Unacked(checks[d].name)
      BY <1>0 DEF Unacked, AP!AlertRows
    <3>2. LastProbeCovers(d) /\ WindowHasPassed(d)
      BY <2>1 DEF ProbesSpaced
    <3>. QED
      BY <1>0, <1>1, <1>4, <3>1, <3>2 DEF LastProbeCovers, WindowHasPassed
  <2>. QED
    BY <1>0, <2>1 DEF ProbesSpaced
<1>. QED
  BY <1>5, <1>6, <1>7, <1>8, <1>9, <1>10

\* fire_custom_alert has returned: last_run covers the alert it may have stored.
LEMMA RanMatches ==
    ASSUME MonitorTyped, MatchInv, Ran
    PROVE  MatchInv'
<1>. USE UptimeAssumption DEF MatchInv
<1>0. /\ run \in Run /\ run.pc = "fire" /\ now \in Nat /\ call[Loop].pc = "idle"
      /\ UNCHANGED <<now, alerts, call, checks, deleting, excused>>
      /\ DOMAIN lastRun' = DOMAIN lastRun \cup {run.cur}
      /\ \A d \in DOMAIN lastRun' :
           lastRun'[d] = IF d = run.cur THEN run.started ELSE lastRun[d]
      /\ run'.pc = "next" /\ run'.started = run.started /\ run'.snap = run.snap
      /\ run'.result = run.result /\ run'.todo = run.todo
  BY LoopCall DEF MonitorTyped, RunTyped, Ran, apVars
<1>1. /\ \A d : Pending(d)' <=> Pending(d)
      /\ \A d : ~Reporting(d) /\ ~Reporting(d)'
      /\ \A d : Probing(d)' => Probing(d)
  BY <1>0 DEF Pending, Reporting, Probing, Handling
<1>2. NamesOwned'
  BY <1>0, NamesStay
<1>3. SnapsKnown'
  BY <1>0 DEF SnapsKnown
<1>4. RowsFollowProbes'
  BY <1>0, <1>1 DEF RowsFollowProbes, Stored, Handling
<1>5. AlertsFollowRows'
  <2>1. ASSUME NEW d \in Stored, checks[d].name \notin excused
        PROVE  (AP!Ongoing(checks[d].name) <=> IF Reporting(d) THEN ~WasUp ELSE ~checks[d].up)'
    <3>1. AP!Ongoing(checks[d].name)' <=> AP!Ongoing(checks[d].name)
      BY <1>0 DEF AP!Ongoing, AP!AlertRows
    <3>2. AP!Ongoing(checks[d].name) <=> IF Reporting(d) THEN ~WasUp ELSE ~checks[d].up
      BY <2>1 DEF AlertsFollowRows
    <3>. QED
      BY <3>1, <3>2, <1>0, <1>1
  <2>. QED
    BY <1>0, <2>1 DEF AlertsFollowRows, Stored
<1>6. CallsInTime'
  BY <1>0 DEF CallsInTime
<1>7. ProbesSpaced'
  <2>1. ASSUME NEW d \in Checks, checks[d].state # "new", checks[d].name \notin excused
        PROVE  (LastProbeCovers(d) /\ WindowHasPassed(d))'
    <3>1. Unacked(checks[d].name)' = Unacked(checks[d].name)
      BY <1>0 DEF Unacked, AP!AlertRows
    <3>2. LastProbeCovers(d) /\ WindowHasPassed(d)
      BY <2>1 DEF ProbesSpaced
    <3>3. CASE d = run.cur
      <4>1. /\ run.started \in Nat /\ now <= run.started + MaxBusy
            /\ \A i \in Unacked(checks[d].name) : alerts[i].ts \in Nat /\ alerts[i].ts <= now
        BY <1>0, RunShape, AlertsStay
           DEF MonitorTyped, RunTyped, CallsInTime, Unacked, AP!AlertRows
      <4>2. \A i \in Unacked(checks[d].name) : alerts[i].ts <= run.started + MaxBusy
        BY <1>0, <4>1
      <4>3. d \in DOMAIN lastRun' /\ lastRun'[d] = run.started
        BY <1>0, <3>3
      <4>. QED
        BY <1>0, <1>1, <3>1, <3>2, <4>2, <4>3 DEF LastProbeCovers, WindowHasPassed
    <3>4. CASE d # run.cur
      BY <1>0, <1>1, <3>1, <3>2, <3>4 DEF LastProbeCovers, WindowHasPassed
    <3>. QED
      BY <3>3, <3>4
  <2>. QED
    BY <1>0, <2>1 DEF ProbesSpaced
<1>. QED
  BY <1>2, <1>3, <1>4, <1>5, <1>6, <1>7

\* The end of an iteration, whether a statement failed or not.
LEMMA EndMatches ==
    ASSUME MonitorTyped, MatchInv, Sleep \/ IterationFails
    PROVE  MatchInv'
<1>. USE UptimeAssumption DEF MatchInv
<1>0. /\ run \in Run /\ run.pc \in {"next", "history"} /\ run'.pc = "sleep"
      /\ UNCHANGED <<now, alerts, call, checks, lastRun, deleting>>
      /\ excused \subseteq excused' /\ call[Loop].pc = "idle"
      /\ run.pc = "history" /\ WasUp # IsUp => run.snap[run.cur].name \in excused'
  BY DEF MonitorTyped, RunTyped, CallTyped, Sleep, IterationFails, Asleep, apVars
<1>1. \A d : ~Pending(d)' /\ ~Reporting(d)' /\ ~Probing(d)'
  BY <1>0 DEF Pending, Reporting, Probing, Handling
<1>2. NamesOwned'
  BY <1>0, NamesStay
<1>3. SnapsKnown' /\ RowsFollowProbes' /\ CallsInTime'
  BY <1>0, <1>1 DEF SnapsKnown, RowsFollowProbes, CallsInTime, Handling
<1>4. AlertsFollowRows'
  <2>1. ASSUME NEW d \in Stored, checks[d].name \notin excused'
        PROVE  (AP!Ongoing(checks[d].name) <=> IF Reporting(d) THEN ~WasUp ELSE ~checks[d].up)'
    <3>1. AP!Ongoing(checks[d].name)' <=> AP!Ongoing(checks[d].name)
      BY <1>0 DEF AP!Ongoing, AP!AlertRows
    <3>2. AP!Ongoing(checks[d].name) <=> IF Reporting(d) THEN ~WasUp ELSE ~checks[d].up
      BY <1>0, <2>1 DEF AlertsFollowRows
    <3>3. CASE Reporting(d)
      <4>1. run.pc = "history" /\ d = run.cur /\ checks[d].up = IsUp
        BY <1>0, <2>1, <3>3 DEF Reporting, RowsFollowProbes, Handling
      <4>2. d \in DOMAIN run.snap
        BY <4>1 DEF MonitorTyped, RunTyped, Handling
      <4>3. run.snap[d].name = checks[d].name
        BY <1>0, <2>1, <4>1, <4>2 DEF SnapsKnown
      <4>4. WasUp = IsUp
        BY <1>0, <2>1, <4>1, <4>3
      <4>. QED
        BY <1>0, <1>1, <3>1, <3>2, <3>3, <4>1, <4>4
    <3>4. CASE ~Reporting(d)
      BY <1>0, <1>1, <3>1, <3>2, <3>4
    <3>. QED
      BY <3>3, <3>4
  <2>. QED
    BY <1>0, <2>1 DEF AlertsFollowRows, Stored
<1>5. ProbesSpaced'
  <2>1. ASSUME NEW d \in Checks, checks[d].state # "new", checks[d].name \notin excused'
        PROVE  (LastProbeCovers(d) /\ WindowHasPassed(d))'
    <3>1. Unacked(checks[d].name)' = Unacked(checks[d].name)
      BY <1>0 DEF Unacked, AP!AlertRows
    <3>2. LastProbeCovers(d)
      BY <1>0, <2>1 DEF ProbesSpaced
    <3>. QED
      BY <1>0, <1>1, <3>1, <3>2 DEF LastProbeCovers, WindowHasPassed
  <2>. QED
    BY <1>0, <2>1 DEF ProbesSpaced
<1>. QED
  BY <1>2, <1>3, <1>4, <1>5

-----------------------------------------------------------------------------
(* The pipeline.                                                           *)

\* The result that is being reported belongs to the only check of its name.
LEMMA CurrentName ==
    ASSUME MonitorTyped, MatchInv, run.pc \in Handling
    PROVE  /\ run.cur \in Checks /\ checks[run.cur].state # "new"
           /\ run.snap[run.cur].name \in excused \/ Known(run.snap[run.cur].name)
           /\ checks[run.cur].name \notin excused =>
                checks[run.cur].name = run.snap[run.cur].name
           /\ \A d \in Checks :
                /\ checks[d].state # "new" /\ checks[d].name \notin excused
                /\ checks[d].name = run.snap[run.cur].name
                => d = run.cur
<1>1. run.cur \in DOMAIN run.snap /\ run.cur \in Checks
  BY RunShape DEF MonitorTyped, RunTyped, Handling
<1>2. /\ checks[run.cur].state # "new"
      /\ \/ run.snap[run.cur].name = checks[run.cur].name
         \/ {run.snap[run.cur].name, checks[run.cur].name} \subseteq excused
  BY <1>1 DEF MatchInv, SnapsKnown, Handling
<1>. QED
  BY <1>1, <1>2 DEF MatchInv, NamesOwned, Known

\* A step that leaves the monitor and the alerts alone, but for time.
LEMMA WaitMatches ==
    ASSUME MonitorTyped, MatchInv, UNCHANGED uptimeVars, alerts' = alerts,
           now' \in Nat, now <= now',
           \/ call'[Loop] = call[Loop]
           \/ now' = now /\ call[Loop].pc \in {"fetch", "publish"}
                /\ call'[Loop].pc \in {"publish", "idle"}
    PROVE  MatchInv'
<1>. USE UptimeAssumption DEF MatchInv
<1>0. /\ UNCHANGED <<checks, lastRun, run, deleting, excused>> /\ now \in Nat
  BY LoopCall DEF uptimeVars, MonitorTyped
<1>1. \A d : /\ Pending(d)' <=> Pending(d)
             /\ Reporting(d)' <=> Reporting(d)
             /\ Probing(d)' <=> Probing(d)
  BY <1>0 DEF Pending, Reporting, Probing
<1>2. NamesOwned' /\ SnapsKnown'
  BY <1>0, NamesStay DEF SnapsKnown
<1>3. RowsFollowProbes'
  BY <1>0, <1>1 DEF RowsFollowProbes, Stored, IsUp
<1>4. AlertsFollowRows'
  <2>1. ASSUME NEW d \in Stored, checks[d].name \notin excused
        PROVE  (AP!Ongoing(checks[d].name) <=> IF Reporting(d) THEN ~WasUp ELSE ~checks[d].up)'
    <3>1. AP!Ongoing(checks[d].name)' <=> AP!Ongoing(checks[d].name)
      BY <1>0 DEF AP!Ongoing, AP!AlertRows
    <3>. QED
      BY <2>1, <3>1, <1>0, <1>1 DEF AlertsFollowRows, WasUp
  <2>. QED
    BY <1>0, <2>1 DEF AlertsFollowRows, Stored
<1>5. CallsInTime'
  <2>1. \A i \in DOMAIN alerts : alerts[i].ts \in Nat /\ alerts[i].ts <= now'
    <3>1. \A i \in DOMAIN alerts : alerts[i].ts \in Nat
      BY AlertsStay DEF MonitorTyped
    <3>2. \A i \in DOMAIN alerts : alerts[i].ts <= now
      BY DEF CallsInTime
    <3>. QED
      BY <1>0, <3>1, <3>2
  <2>2. call'[Loop].pc = "check" => call'[Loop].at >= run'.started
    BY <1>0 DEF CallsInTime
  <2>. QED
    BY <2>1, <2>2 DEF CallsInTime
<1>6. ProbesSpaced'
  <2>1. ASSUME NEW d \in Checks, checks[d].state # "new", checks[d].name \notin excused
        PROVE  (LastProbeCovers(d) /\ WindowHasPassed(d))'
    <3>1. Unacked(checks[d].name)' = Unacked(checks[d].name)
      BY <1>0 DEF Unacked, AP!AlertRows
    <3>2. \A i \in Unacked(checks[d].name) : alerts[i].ts \in Nat
      BY AlertsStay DEF Unacked, AP!AlertRows, MonitorTyped
    <3>3. \A t \in Nat : t + DupWindow <= now => t + DupWindow <= now'
      BY <1>0
    <3>4. LastProbeCovers(d) /\ WindowHasPassed(d)
      BY <2>1 DEF ProbesSpaced
    <3>5. LastProbeCovers(d)'
      BY <1>0, <3>1, <3>2, <3>3, <3>4 DEF LastProbeCovers
    <3>. QED
      BY <1>0, <1>1, <3>1, <3>4, <3>5 DEF WindowHasPassed
  <2>. QED
    BY <1>0, <2>1 DEF ProbesSpaced
<1>. QED
  BY <1>2, <1>3, <1>4, <1>5, <1>6

\* The duplicate check: a transition of a name that stands for one check passes it.
LEMMA DuplicateMatches ==
    ASSUME MonitorTyped, MatchInv, UNCHANGED uptimeVars, AP!IsDuplicate(Loop)
    PROVE  MatchInv'
<1>. USE UptimeAssumption DEF MatchInv
<1>0. /\ UNCHANGED <<checks, lastRun, run, deleting, excused>>
      /\ alerts' = alerts /\ now' = now /\ now \in Nat
      /\ call[Loop].pc = "check" /\ call[Loop].at \in Nat /\ call[Loop].key \in Names
      /\ IF AP!Similar(call[Loop].key, call[Loop].at) # {}
           THEN call'[Loop].pc = "idle"
           ELSE call'[Loop].pc = "insert" /\ call'[Loop].kind = call[Loop].kind
      /\ run.pc = "fire" /\ run.pc \in Handling /\ run.started \in Nat
      /\ call[Loop].key = run.snap[run.cur].name
  BY CallSteps, LoopCall, RunShape
     DEF uptimeVars, MonitorTyped, CallTyped, RunTyped, Handling
<1>1. /\ \A d : Pending(d)' <=> Pending(d)
      /\ \A d : Reporting(d) <=> d = run.cur
      /\ \A d : Reporting(d)' <=> d = run.cur /\ call'[Loop].pc = "insert"
      /\ \A d : Probing(d)' => Probing(d)
  BY <1>0 DEF Pending, Reporting, Probing
<1>2. checks[run.cur].name \notin excused => call'[Loop].pc = "insert"
  <2>1. SUFFICES ASSUME checks[run.cur].name \notin excused,
                        NEW i \in AP!Similar(call[Loop].key, call[Loop].at)
        PROVE  FALSE
    BY <1>0
  <2>2. /\ run.cur \in Checks /\ checks[run.cur].state # "new"
        /\ checks[run.cur].name = call[Loop].key
    BY <1>0, <2>1, CurrentName
  <2>3. Probing(run.cur)
    BY <1>0, <1>1 DEF Probing
  <2>4. \A j \in Unacked(call[Loop].key) : alerts[j].ts + DupWindow <= run.started
    BY <2>1, <2>2, <2>3 DEF ProbesSpaced, WindowHasPassed
  <2>5. /\ i \in Unacked(call[Loop].key) /\ alerts[i].ts + DupWindow > call[Loop].at
    BY <1>0, <2>1 DEF AP!Similar, Unacked
  <2>6. alerts[i].ts \in Nat /\ run.started <= call[Loop].at
    BY <1>0, <2>5, AlertsStay DEF CallsInTime, Unacked, AP!AlertRows, MonitorTyped
  <2>. QED
    BY <1>0, <2>4, <2>5, <2>6
<1>3. NamesOwned' /\ SnapsKnown'
  BY <1>0, NamesStay DEF SnapsKnown
<1>4. RowsFollowProbes'
  BY <1>0, <1>1 DEF RowsFollowProbes, Stored, IsUp
<1>5. AlertsFollowRows'
  <2>1. ASSUME NEW d \in Stored, checks[d].name \notin excused
        PROVE  (AP!Ongoing(checks[d].name) <=> IF Reporting(d) THEN ~WasUp ELSE ~checks[d].up)'
    <3>1. AP!Ongoing(checks[d].name)' <=> AP!Ongoing(checks[d].name)
      BY <1>0 DEF AP!Ongoing, AP!AlertRows
    <3>2. Reporting(d)' <=> Reporting(d)
      BY <1>1, <1>2, <2>1
    <3>. QED
      BY <2>1, <3>1, <3>2, <1>0 DEF AlertsFollowRows, WasUp
  <2>. QED
    BY <1>0, <2>1 DEF AlertsFollowRows, Stored
<1>6. CallsInTime'
  BY <1>0 DEF CallsInTime
<1>7. ProbesSpaced'
  <2>1. ASSUME NEW d \in Checks, checks[d].state # "new", checks[d].name \notin excused
        PROVE  (LastProbeCovers(d) /\ WindowHasPassed(d))'
    <3>1. Unacked(checks[d].name)' = Unacked(checks[d].name)
      BY <1>0 DEF Unacked, AP!AlertRows
    <3>2. LastProbeCovers(d) /\ WindowHasPassed(d)
      BY <2>1 DEF ProbesSpaced
    <3>. QED
      BY <1>0, <1>1, <3>1, <3>2 DEF LastProbeCovers, WindowHasPassed
  <2>. QED
    BY <1>0, <2>1 DEF ProbesSpaced
<1>. QED
  BY <1>3, <1>4, <1>5, <1>6, <1>7

\* The alert is stored: the last of its name, and of the kind that the row has.
LEMMA InsertMatches ==
    ASSUME MonitorTyped, MatchInv, UNCHANGED uptimeVars, AP!Insert(Loop)
    PROVE  MatchInv'
<1>. USE UptimeAssumption DEF MatchInv
<1>. DEFINE n == run.snap[run.cur].name
<1>0. /\ UNCHANGED <<checks, lastRun, run, deleting, excused>>
      /\ now' = now /\ now \in Nat
      /\ call[Loop].pc = "insert" /\ call'[Loop].pc = "fetch"
      /\ call[Loop].at \in Nat /\ call[Loop].key = n /\ n \in Names
      /\ call[Loop].kind \in AP!Kinds
      /\ run.pc = "fire" /\ run.pc \in Handling
  BY CallSteps, LoopCall DEF uptimeVars, MonitorTyped, CallTyped, Handling
<1>1. PICK ts \in call[Loop].at..now :
        alerts' = Append(alerts, [key |-> n, kind |-> call[Loop].kind,
                                  ts |-> ts, acked |-> FALSE, by |-> Loop])
  BY <1>0, CallSteps DEF MonitorTyped
<1>. DEFINE r == [key |-> n, kind |-> call[Loop].kind, ts |-> ts, acked |-> FALSE, by |-> Loop]
            new == Len(alerts) + 1
<1>2. /\ r \in AP!Alert /\ r.key = n /\ r.kind = call[Loop].kind
      /\ ts \in Nat /\ ts <= now /\ r.ts = ts
  <2>1. ts \in Nat /\ ts <= now /\ now <= MaxTime
    BY <1>0 DEF MonitorTyped, AP!TypeOK
  <2>. QED
    BY <1>0, <2>1 DEF AP!Alert
<1>3. /\ DOMAIN alerts' = DOMAIN alerts \cup {new}
      /\ \A j \in DOMAIN alerts : alerts'[j] = alerts[j]
      /\ alerts'[new] = r /\ DOMAIN alerts = 1..Len(alerts) /\ new \notin DOMAIN alerts
      /\ \A j \in DOMAIN alerts : j <= new
      /\ Len(alerts) \in Nat
  <2>1. Len(alerts) \in Nat /\ DOMAIN alerts = 1..Len(alerts)
    BY <1>2, AlertsStay DEF MonitorTyped
  <2>2. alerts' = Append(alerts, r)
    BY <1>1
  <2>3. /\ DOMAIN alerts' = DOMAIN alerts \cup {new}
        /\ \A j \in DOMAIN alerts : alerts'[j] = alerts[j]
        /\ alerts'[new] = r
    BY <1>2, <2>2, AlertsStay DEF MonitorTyped
  <2>. QED
    BY <2>1, <2>3
<1>. HIDE DEF r, new, n
<1>4. /\ run.cur \in Checks /\ checks[run.cur].state # "new"
      /\ n \in excused \/ Known(n)
      /\ checks[run.cur].name \notin excused => checks[run.cur].name = n
      /\ \A d \in Checks : /\ checks[d].state # "new" /\ checks[d].name \notin excused
                           /\ checks[d].name = n
                           => d = run.cur
  BY <1>0, CurrentName DEF n
<1>5. \A m : m # n => AP!AlertRows(m)' = AP!AlertRows(m)
  BY <1>2, <1>3 DEF AP!AlertRows
<1>6. AP!Ongoing(n)' <=> call[Loop].kind = "raise"
  <2>1. /\ new \in AP!AlertRows(n)' /\ alerts'[new].kind = call[Loop].kind
        /\ \A j \in AP!AlertRows(n)' : j <= new /\ (j # new => ~ (new <= j))
    <3>1. AP!AlertRows(n)' = {j \in DOMAIN alerts' : alerts'[j].key = n}
      <4>1. n' = n
        BY <1>0 DEF n
      <4>. QED
        BY <4>1 DEF AP!AlertRows
    <3>2. new \in AP!AlertRows(n)' /\ alerts'[new].kind = call[Loop].kind
      BY <1>2, <1>3, <3>1
    <3>3. \A j \in DOMAIN alerts' : j <= new /\ (j # new => ~ (new <= j))
      <4>1. \A j \in 1..Len(alerts) : j <= new /\ ~ (new <= j)
        BY <1>3 DEF new
      <4>2. new <= new
        BY <1>3 DEF new
      <4>. QED
        BY <1>3, <4>1, <4>2
    <3>. QED
      BY <3>1, <3>2, <3>3
  <2>. QED
    BY <2>1 DEF AP!Ongoing
<1>7. /\ \A d : Pending(d)' <=> Pending(d)
      /\ \A d : Reporting(d) <=> d = run.cur
      /\ \A d : ~Reporting(d)'
      /\ \A d : Probing(d)' => Probing(d) /\ d # run.cur
  <2>1. ~Pending(run.cur)
    BY <1>0 DEF Pending, MonitorTyped, RunTyped, Handling
  <2>. QED
    BY <1>0, <2>1 DEF Pending, Reporting, Probing
<1>8. NamesOwned'
  <2>1. \A m : Known(m)' <=> Known(m)
    BY <1>0 DEF Known
  <2>. QED
    BY <1>0, <1>2, <1>3, <1>4, <2>1 DEF NamesOwned
<1>9. SnapsKnown'
  BY <1>0 DEF SnapsKnown
<1>10. RowsFollowProbes'
  BY <1>0, <1>7 DEF RowsFollowProbes, Stored, IsUp
<1>11. AlertsFollowRows'
  <2>1. ASSUME NEW d \in Stored, checks[d].name \notin excused
        PROVE  (AP!Ongoing(checks[d].name) <=> IF Reporting(d) THEN ~WasUp ELSE ~checks[d].up)'
    <3>1. CASE d = run.cur
      <4>1. checks[d].name = n /\ checks[d].up = IsUp
        BY <1>0, <1>4, <2>1, <3>1 DEF RowsFollowProbes
      <4>2. AP!Ongoing(checks[d].name)' <=> call[Loop].kind = "raise"
        <5>1. checks'[d].name = n /\ n' = n
          BY <1>0, <4>1 DEF n
        <5>2. AP!Ongoing(checks[d].name)' <=> AP!Ongoing(n)'
          BY <5>1, <4>1
        <5>. QED
          BY <5>2, <1>6
      <4>3. call[Loop].kind = IF IsUp THEN "recover" ELSE "raise"
        BY <1>0 DEF RowsFollowProbes
      <4>4. call[Loop].kind = "raise" <=> ~IsUp
        BY <4>3
      <4>. QED
        BY <1>0, <1>7, <4>1, <4>2, <4>4
    <3>2. CASE d # run.cur
      <4>1. checks[d].name # n /\ d \in Checks
        BY <1>4, <2>1, <3>2 DEF Stored
      <4>2. AP!Ongoing(checks[d].name) <=> ~checks[d].up
        BY <1>7, <2>1, <3>2 DEF AlertsFollowRows
      <4>3. AP!AlertRows(checks[d].name)' = AP!AlertRows(checks[d].name)
        BY <1>0, <1>5, <4>1 DEF AP!AlertRows
      <4>4. AP!Ongoing(checks[d].name)' <=> AP!Ongoing(checks[d].name)
        <5>1. \A j \in AP!AlertRows(checks[d].name) : alerts'[j] = alerts[j]
          BY <1>3 DEF AP!AlertRows
        <5>. QED
          BY <4>3, <5>1, <1>0 DEF AP!Ongoing
      <4>. QED
        BY <1>0, <1>7, <4>2, <4>4
    <3>. QED
      BY <3>1, <3>2
  <2>. QED
    BY <1>0, <2>1 DEF AlertsFollowRows, Stored
<1>12. CallsInTime'
  BY <1>0, <1>2, <1>3 DEF CallsInTime
<1>13. ProbesSpaced'
  <2>1. ASSUME NEW d \in Checks, checks[d].state # "new", checks[d].name \notin excused
        PROVE  (LastProbeCovers(d) /\ WindowHasPassed(d))'
    <3>1. CASE d = run.cur
      BY <1>0, <1>7, <3>1 DEF LastProbeCovers, WindowHasPassed
    <3>2. CASE d # run.cur
      <4>1. checks[d].name # n
        BY <1>4, <2>1, <3>2
      <4>2. AP!AlertRows(checks[d].name)' = AP!AlertRows(checks[d].name)
        BY <1>0, <1>5, <4>1 DEF AP!AlertRows
      <4>3. \A j \in AP!AlertRows(checks[d].name) : alerts'[j] = alerts[j]
        BY <1>3 DEF AP!AlertRows
      <4>4. /\ Unacked(checks[d].name)' = Unacked(checks[d].name)
            /\ \A j \in Unacked(checks[d].name) : alerts'[j] = alerts[j]
        BY <1>0, <4>2, <4>3 DEF Unacked
      <4>5. LastProbeCovers(d) /\ WindowHasPassed(d)
        BY <2>1 DEF ProbesSpaced
      <4>. QED
        BY <1>0, <1>7, <4>4, <4>5 DEF LastProbeCovers, WindowHasPassed
    <3>. QED
      BY <3>1, <3>2
  <2>. QED
    BY <1>0, <2>1 DEF ProbesSpaced
<1>. QED
  BY <1>8, <1>9, <1>10, <1>11, <1>12, <1>13

\* An acknowledgement: alerts keep their name, kind and time, and fewer of them count.
LEMMA AcknowledgeMatches ==
    ASSUME MonitorTyped, MatchInv, UNCHANGED uptimeVars,
           NEW i \in DOMAIN alerts, AP!Acknowledge(i)
    PROVE  MatchInv'
<1>. USE UptimeAssumption DEF MatchInv
<1>0. /\ UNCHANGED <<checks, lastRun, run, deleting, excused>>
      /\ call' = call /\ now' = now
      /\ DOMAIN alerts' = DOMAIN alerts
      /\ \A j \in DOMAIN alerts : /\ alerts'[j].key = alerts[j].key
                                  /\ alerts'[j].kind = alerts[j].kind
                                  /\ alerts'[j].ts = alerts[j].ts
                                  /\ ~alerts'[j].acked => ~alerts[j].acked
  BY CallSteps, AlertsStay DEF uptimeVars, MonitorTyped
<1>1. \A d : /\ Pending(d)' <=> Pending(d)
             /\ Reporting(d)' <=> Reporting(d)
             /\ Probing(d)' <=> Probing(d)
  BY <1>0 DEF Pending, Reporting, Probing
<1>2. \A n : AP!AlertRows(n)' = AP!AlertRows(n)
  BY <1>0 DEF AP!AlertRows
<1>3. \A n : AP!Ongoing(n)' <=> AP!Ongoing(n)
  <2>1. \A n : \A j \in AP!AlertRows(n) : alerts'[j].kind = alerts[j].kind
    BY <1>0 DEF AP!AlertRows
  <2>. QED
    BY <1>2, <2>1 DEF AP!Ongoing
<1>4. \A n : \A j \in Unacked(n)' : j \in Unacked(n) /\ alerts'[j].ts = alerts[j].ts
  BY <1>0, <1>2 DEF Unacked, AP!AlertRows
<1>5. NamesOwned'
  <2>1. \A n : Known(n)' <=> Known(n)
    BY <1>0 DEF Known
  <2>. QED
    BY <1>0, <2>1 DEF NamesOwned
<1>6. SnapsKnown' /\ CallsInTime'
  BY <1>0 DEF SnapsKnown, CallsInTime
<1>7. RowsFollowProbes'
  BY <1>0, <1>1 DEF RowsFollowProbes, Stored, IsUp
<1>8. AlertsFollowRows'
  <2>1. ASSUME NEW d \in Stored, checks[d].name \notin excused
        PROVE  (AP!Ongoing(checks[d].name) <=> IF Reporting(d) THEN ~WasUp ELSE ~checks[d].up)'
    <3>1. checks'[d] = checks[d]
      BY <1>0
    <3>2. AP!Ongoing(checks[d].name)' <=> AP!Ongoing(checks[d].name)
      <4>1. PICK n : n = checks[d].name /\ n = checks'[d].name
        BY <3>1
      <4>2. AP!Ongoing(checks[d].name)' <=> AP!Ongoing(n)'
        BY <4>1 DEF AP!Ongoing, AP!AlertRows
      <4>. QED
        BY <4>1, <4>2, <1>3
    <3>. QED
      BY <2>1, <3>2, <1>0, <1>1 DEF AlertsFollowRows, WasUp
  <2>. QED
    BY <1>0, <2>1 DEF AlertsFollowRows, Stored
<1>9. ProbesSpaced'
  <2>1. ASSUME NEW d \in Checks, checks[d].state # "new", checks[d].name \notin excused
        PROVE  (LastProbeCovers(d) /\ WindowHasPassed(d))'
    <3>1. \A j \in Unacked(checks[d].name)' :
            j \in Unacked(checks[d].name) /\ alerts'[j].ts = alerts[j].ts
      BY <1>0, <1>4
    <3>2. LastProbeCovers(d) /\ WindowHasPassed(d)
      BY <2>1 DEF ProbesSpaced
    <3>. QED
      BY <1>0, <1>1, <3>1, <3>2 DEF LastProbeCovers, WindowHasPassed
  <2>. QED
    BY <1>0, <2>1 DEF ProbesSpaced
<1>. QED
  BY <1>5, <1>6, <1>7, <1>8, <1>9

\* fire_custom_alert ends in an error: the name is excused, and the result that was
\* being reported is no other check's.
LEMMA FailureMatches ==
    ASSUME MonitorTyped, MatchInv, AlertFails
    PROVE  MatchInv'
<1>. USE UptimeAssumption DEF MatchInv
<1>0. /\ UNCHANGED <<checks, lastRun, run, deleting>>
      /\ excused' = excused \cup {call[Loop].key}
      /\ alerts' = alerts /\ now' = now /\ now \in Nat
      /\ call[Loop].pc \in {"check", "insert", "fetch"} /\ call'[Loop].pc = "idle"
      /\ run.pc = "fire" /\ call[Loop].key = run.snap[run.cur].name
  BY CallSteps, LoopCall DEF AlertFails, MonitorTyped, CallTyped
<1>1. checks[run.cur].name \in excused'
  BY <1>0, CurrentName DEF Handling
<1>2. \A d \in Checks : checks[d].name \notin excused' =>
        d # run.cur /\ ~Reporting(d) /\ ~Reporting(d)'
  BY <1>0, <1>1 DEF Reporting
<1>3. \A d : (Pending(d)' <=> Pending(d)) /\ (Probing(d)' => Probing(d))
  BY <1>0 DEF Pending, Reporting, Probing
<1>4. NamesOwned'
  BY <1>0, NamesStay
<1>5. SnapsKnown' /\ CallsInTime'
  BY <1>0 DEF SnapsKnown, CallsInTime
<1>6. RowsFollowProbes'
  BY <1>0, <1>3 DEF RowsFollowProbes, Stored, IsUp
<1>7. AlertsFollowRows'
  <2>1. ASSUME NEW d \in Stored, checks[d].name \notin excused'
        PROVE  (AP!Ongoing(checks[d].name) <=> IF Reporting(d) THEN ~WasUp ELSE ~checks[d].up)'
    <3>1. AP!Ongoing(checks[d].name)' <=> AP!Ongoing(checks[d].name)
      BY <1>0 DEF AP!Ongoing, AP!AlertRows
    <3>2. d \in Checks /\ checks[d].name \notin excused
      BY <1>0, <2>1 DEF Stored
    <3>3. AP!Ongoing(checks[d].name) <=> ~checks[d].up
      BY <1>2, <2>1, <3>2 DEF AlertsFollowRows
    <3>. QED
      BY <1>0, <1>2, <2>1, <3>1, <3>2, <3>3
  <2>. QED
    BY <1>0, <2>1 DEF AlertsFollowRows, Stored
<1>8. ProbesSpaced'
  <2>1. ASSUME NEW d \in Checks, checks[d].state # "new", checks[d].name \notin excused'
        PROVE  (LastProbeCovers(d) /\ WindowHasPassed(d))'
    <3>1. Unacked(checks[d].name)' = Unacked(checks[d].name)
      BY <1>0 DEF Unacked, AP!AlertRows
    <3>2. LastProbeCovers(d) /\ WindowHasPassed(d)
      BY <1>0, <2>1 DEF ProbesSpaced
    <3>. QED
      BY <1>0, <1>3, <3>1, <3>2 DEF LastProbeCovers, WindowHasPassed
  <2>. QED
    BY <1>0, <2>1 DEF ProbesSpaced
<1>. QED
  BY <1>4, <1>5, <1>6, <1>7, <1>8

\* A crash excuses the name whose transition it loses and every name with an alert
\* that is still in its window; of the others, the alerts are what the rows say.
LEMMA CrashMatches ==
    ASSUME MonitorTyped, MatchInv, Crash
    PROVE  MatchInv'
<1>. USE UptimeAssumption DEF MatchInv
<1>0. /\ checks' = checks /\ DOMAIN lastRun' = {} /\ deleting' = {}
      /\ run'.pc = "sleep" /\ run.pc \in {"sleep", "probe", "next"} \cup Handling
      /\ alerts' = alerts /\ now' = now /\ now \in Nat /\ call'[Loop].pc = "idle"
      /\ excused \subseteq excused'
  BY CallSteps, LoopCall, RunShape DEF Crash, MonitorTyped, RunTyped, Asleep, NoRuns
<1>1. /\ run.pc \in Handling /\ WasUp # IsUp => run.snap[run.cur].name \in excused'
      /\ \A n \in Names : AP!Similar(n, now) # {} => n \in excused'
  BY DEF Crash, Handling
<1>2. \A d : ~Pending(d)' /\ ~Reporting(d)' /\ ~Probing(d)'
  BY <1>0 DEF Pending, Reporting, Probing, Handling
<1>3. NamesOwned'
  BY <1>0, NamesStay
<1>4. SnapsKnown' /\ RowsFollowProbes' /\ CallsInTime'
  BY <1>0, <1>2 DEF SnapsKnown, RowsFollowProbes, CallsInTime, Handling
<1>5. AlertsFollowRows'
  <2>1. ASSUME NEW d \in Stored, checks[d].name \notin excused'
        PROVE  (AP!Ongoing(checks[d].name) <=> IF Reporting(d) THEN ~WasUp ELSE ~checks[d].up)'
    <3>1. AP!Ongoing(checks[d].name)' <=> AP!Ongoing(checks[d].name)
      BY <1>0 DEF AP!Ongoing, AP!AlertRows
    <3>2. AP!Ongoing(checks[d].name) <=> IF Reporting(d) THEN ~WasUp ELSE ~checks[d].up
      BY <1>0, <2>1 DEF AlertsFollowRows
    <3>3. CASE Reporting(d)
      <4>1. run.pc \in Handling /\ d = run.cur /\ checks[d].up = IsUp
        BY <2>1, <3>3 DEF Reporting, RowsFollowProbes
      <4>2. run.snap[d].name = checks[d].name
        BY <1>0, <2>1, <4>1, CurrentName
      <4>3. WasUp = IsUp
        BY <1>1, <2>1, <4>1, <4>2
      <4>. QED
        BY <1>0, <1>2, <3>1, <3>2, <3>3, <4>1, <4>3
    <3>4. CASE ~Reporting(d)
      BY <1>0, <1>2, <3>1, <3>2, <3>4
    <3>. QED
      BY <3>3, <3>4
  <2>. QED
    BY <1>0, <2>1 DEF AlertsFollowRows, Stored
<1>6. ProbesSpaced'
  <2>1. ASSUME NEW d \in Checks, checks[d].state # "new", checks[d].name \notin excused'
        PROVE  (LastProbeCovers(d) /\ WindowHasPassed(d))'
    <3>. DEFINE n == checks[d].name
    <3>1. n \in Names
      BY DEF MonitorTyped, TablesTyped, Check
    <3>2. Unacked(n)' = Unacked(n)
      BY <1>0 DEF Unacked, AP!AlertRows
    <3>3. AP!Similar(n, now) = {}
      BY <1>1, <2>1, <3>1
    <3>4. \A i \in Unacked(n) : alerts[i].ts \in Nat
      BY AlertsStay DEF Unacked, AP!AlertRows, MonitorTyped
    <3>5. \A i \in Unacked(n) : alerts[i].ts + DupWindow <= now
      <4>1. \A i \in Unacked(n) : ~ (alerts[i].ts + DupWindow > now)
        BY <3>1, <3>3 DEF Unacked, AP!Similar
      <4>. QED
        BY <1>0, <3>4, <4>1
    <3>. QED
      BY <1>0, <1>2, <3>2, <3>5 DEF LastProbeCovers, WindowHasPassed
  <2>. QED
    BY <1>0, <2>1 DEF ProbesSpaced
<1>. QED
  BY <1>3, <1>4, <1>5, <1>6

-----------------------------------------------------------------------------
(* The incidents.                                                          *)

\* At the start every check is up and nothing was raised.
LEMMA MatchStart == Init => MatchInv
<1>. SUFFICES ASSUME Init PROVE MatchInv
  OBVIOUS
<1>1. /\ \A c \in Checks : checks[c].state = "new" /\ checks[c].up
      /\ alerts = <<>> /\ call[Loop].pc = "idle" /\ run.pc = "sleep" /\ deleting = {}
  BY DEF Init, Asleep, AP!Init, AP!Idle
<1>2. Stored = {} /\ DOMAIN alerts = {}
  BY <1>1 DEF Stored
<1>3. NamesOwned /\ SnapsKnown /\ CallsInTime
  BY <1>1, <1>2 DEF NamesOwned, SnapsKnown, CallsInTime
<1>4. RowsFollowProbes /\ AlertsFollowRows /\ ProbesSpaced
  BY <1>1, <1>2 DEF RowsFollowProbes, AlertsFollowRows, ProbesSpaced, Handling
<1>. QED
  BY <1>3, <1>4 DEF MatchInv

\* Every step keeps the invariant, if an interval is as long as a window and an
\* iteration together.
LEMMA MatchStep ==
    ASSUME DupWindow + MaxBusy <= Interval, MonitorTyped, MatchInv, [Next]_vars
    PROVE  MatchInv'
<1>0. /\ now \in Nat
      /\ call[Loop].pc \in {"idle", "check", "insert", "fetch", "publish"}
  BY LoopCall DEF MonitorTyped
<1>1. CASE \/ \E c \in Checks, n \in Names : AddCheck(c, n) \/ Rename(c, n)
           \/ \E c \in Checks : SetEnabled(c) \/ DeleteRow(c) \/ DeleteHistory(c)
  BY <1>1, HandlersMatch
<1>2. CASE LoopStep \/ IterationFails
  BY <1>2, PollMatches, LoopMatches, DetectMatches, RanMatches, EndMatches DEF LoopStep
<1>3. CASE Tick
  <2>1. /\ UNCHANGED uptimeVars /\ alerts' = alerts /\ now' = now + 1
        /\ call'[Loop] = call[Loop]
    BY <1>3, CallSteps DEF Tick, MonitorTyped
  <2>2. now' \in Nat /\ now <= now'
    BY <1>0, <2>1
  <2>. QED
    BY <2>1, <2>2, WaitMatches
<1>4. CASE AlertStep
  <2>1. UNCHANGED uptimeVars
    BY <1>4 DEF AlertStep
  <2>2. CASE AP!IsDuplicate(Loop)
    BY <2>1, <2>2, DuplicateMatches
  <2>3. CASE AP!Insert(Loop)
    BY <2>1, <2>3, InsertMatches
  <2>4. CASE AP!Fetch(Loop) \/ AP!Publish(Loop) \/ AP!HookStep \/ AP!HookFails
    <3>1. /\ alerts' = alerts /\ now' = now
          /\ \/ call'[Loop] = call[Loop]
             \/ /\ call[Loop].pc \in {"fetch", "publish"}
                /\ call'[Loop].pc \in {"publish", "idle"}
      BY <2>4, CallSteps DEF MonitorTyped
    <3>2. now' \in Nat /\ now <= now'
      BY <1>0, <3>1
    <3>. QED
      BY <2>1, <3>1, <3>2, WaitMatches
  <2>5. ASSUME NEW i \in DOMAIN alerts, AP!Acknowledge(i) PROVE MatchInv'
    BY <2>1, <2>5, AcknowledgeMatches
  <2>. QED
    BY <1>4, <2>2, <2>3, <2>4, <2>5 DEF AlertStep, AP!CallerStep
<1>5. CASE AlertFails \/ Crash
  BY <1>5, FailureMatches, CrashMatches
<1>6. CASE UNCHANGED vars
  <2>1. /\ UNCHANGED uptimeVars /\ alerts' = alerts /\ now' = now
        /\ call'[Loop] = call[Loop]
    BY <1>6 DEF vars, apVars
  <2>2. now' \in Nat /\ now <= now'
    BY <1>0, <2>1
  <2>. QED
    BY <2>1, <2>2, WaitMatches
<1>. QED
  BY <1>1, <1>2, <1>3, <1>4, <1>5, <1>6 DEF Next

\* uptime.py "tracks incidents (down->up transitions)": when nothing of a name is under
\* way and nothing of it was lost, its incident is open exactly when its check is
\* recorded as down.  The alert passes the duplicate filter of alerts.py, which does
\* not look at the severity, only if results of a check are further apart than the
\* filter's window.  last_run is the time of the poll and the alert is stored later in
\* the same iteration, so that an interval has to leave room for both.
THEOREM IncidentsMatchChecks ==
    ASSUME DupWindow + MaxBusy <= Interval
    PROVE  Spec => []IncidentMatchesCheck
<1>1. MonitorTyped /\ MatchInv /\ AP!TimelineTracksAlerts => IncidentMatchesCheck
  <2>. SUFFICES ASSUME MonitorTyped, MatchInv, AP!TimelineTracksAlerts,
                       NEW c \in Stored, Settled(checks[c].name)
                PROVE  AP!OpenRows(checks[c].name) # {} <=> ~checks[c].up
    BY DEF IncidentMatchesCheck
  <2>. DEFINE n == checks[c].name
  <2>1. /\ run.pc = "sleep" /\ n \notin excused /\ n \notin missed \cup AP!InFlight
        /\ c \in Checks
    BY DEF Settled, Stored
  <2>2. n \in Names
    BY <2>1 DEF MonitorTyped, TablesTyped, Check
  <2>3. ~AP!OrderMatters(n)
    BY <2>2 DEF AP!OrderMatters, AP!SoleRaiser
  <2>4. AP!OpenRows(n) # {} <=> AP!Ongoing(n)
    BY <2>1, <2>2, <2>3 DEF AP!TimelineTracksAlerts, AP!UpToDate
  <2>5. AP!Ongoing(n) <=> ~checks[c].up
    <3>1. ~Reporting(c)
      BY <2>1 DEF Reporting, Handling
    <3>. QED
      BY <2>1, <3>1 DEF MatchInv, AlertsFollowRows
  <2>. QED
    BY <2>4, <2>5
<1>2. MonitorTyped /\ MatchInv /\ [Next]_vars => MatchInv'
  BY MatchStep
<1>3. Spec => []AP!TimelineTracksAlerts
  BY MonitorRunsPipeline, PipelineTracks, PTL
<1>. QED
  BY <1>1, <1>2, <1>3, MonitorStart, MonitorStep, MatchStart, PTL DEF Spec
=============================================================================
