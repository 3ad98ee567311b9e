-------------------------- MODULE AlertPipelineProofs --------------------------
(***************************************************************************)
(* Theorems about AlertPipeline, for any number of callers, keys, alerts   *)
(* and crashes and any queue size.                                         *)
(***************************************************************************)
EXTENDS AlertPipeline, SequenceTheorems, TLAPS

\* Appending to a table keeps its rows and adds one id at the end.
LEMMA AppendRow ==
    ASSUME NEW S, NEW s \in Seq(S), NEW e \in S
    PROVE  /\ Append(s, e) \in Seq(S)
           /\ DOMAIN Append(s, e) = DOMAIN s \cup {Len(s) + 1}
           /\ Len(s) + 1 \notin DOMAIN s
           /\ \A i \in DOMAIN s : Append(s, e)[i] = s[i]
           /\ Append(s, e)[Len(s) + 1] = e
  OBVIOUS

\* Updating a row keeps the table's length.
LEMMA UpdateRow ==
    ASSUME NEW S, NEW s \in Seq(S), NEW i \in DOMAIN s, NEW e \in S
    PROVE  /\ [s EXCEPT ![i] = e] \in Seq(S)
           /\ DOMAIN [s EXCEPT ![i] = e] = DOMAIN s
  OBVIOUS

\* Every row of every table has its type.
LEMMA RowTypes ==
    ASSUME TypeOK
    PROVE  /\ \A i \in DOMAIN alerts : alerts[i] \in Alert /\ alerts[i].key \in Keys
           /\ \A i \in DOMAIN incidents : incidents[i] \in Incident
           /\ \A i \in DOMAIN queue : queue[i] \in DOMAIN alerts
<1>1. /\ \A i \in DOMAIN alerts : alerts[i] \in Alert
      /\ \A i \in DOMAIN incidents : incidents[i] \in Incident
      /\ \A i \in DOMAIN queue : queue[i] \in DOMAIN alerts
  BY DEF TypeOK
<1>2. \A a \in Alert : a.key \in Keys
  BY DEF Alert
<1>3. QED
  BY <1>1, <1>2

\* Setting one field of a row leaves the others alone.
LEMMA RowUpdate ==
    /\ \A a \in Alert : /\ [a EXCEPT !.acked = TRUE] \in Alert
                        /\ [a EXCEPT !.acked = TRUE].key = a.key
                        /\ [a EXCEPT !.acked = TRUE].kind = a.kind
                        /\ [a EXCEPT !.acked = TRUE].ts = a.ts
                        /\ [a EXCEPT !.acked = TRUE].by = a.by
                        /\ [a EXCEPT !.acked = TRUE].acked
    /\ \A r \in Incident : /\ [r EXCEPT !.open = FALSE] \in Incident
                           /\ [r EXCEPT !.open = FALSE].key = r.key
                           /\ ~[r EXCEPT !.open = FALSE].open
                           /\ [r EXCEPT !.noted = TRUE] \in Incident
                           /\ [r EXCEPT !.noted = TRUE].key = r.key
                           /\ [r EXCEPT !.noted = TRUE].open = r.open
  BY DEF Alert, Incident

\* The fields the hook's record (app._notify_hook) has at each of its places.
LEMMA HookShape ==
    ASSUME hook \in Hook
    PROVE  /\ hook.pc \in {"down", "get", "dispatch", "select", "insert", "update"}
           /\ hook.pc \in {"dispatch", "select", "insert"} =>
                hook = [pc |-> hook.pc, alert |-> hook.alert] /\ hook.alert \in Nat \ {0}
           /\ hook.pc = "update" =>
                /\ hook = [pc |-> "update", alert |-> hook.alert, todo |-> hook.todo]
                /\ hook.alert \in Nat \ {0} /\ hook.todo \in SUBSET (Nat \ {0})
  BY DEF Hook

\* The fields a caller's record (fire_custom_alert) has at each of its places.
LEMMA CallShape ==
    ASSUME call \in [Callers -> Call], NEW c \in Callers
    PROVE  /\ call[c].pc \in {"idle", "check", "insert", "fetch", "publish"}
           /\ call[c].pc \in {"check", "insert", "fetch"} =>
                /\ call[c] = [pc |-> call[c].pc, key |-> call[c].key,
                             kind |-> call[c].kind, at |-> call[c].at]
                /\ call[c].key \in Keys /\ call[c].kind \in Kinds /\ call[c].at \in 0..MaxTime
           /\ call[c].pc = "publish" =>
                call[c] = [pc |-> "publish", row |-> call[c].row] /\ call[c].row \in Nat \ {0}
  BY DEF Call

(***************************************************************************)
(* Type correctness.  Besides types, TypeOK says that every id held in     *)
(* memory (queue, hook, callers) is a row of its table: ids never dangle.  *)
(***************************************************************************)
\* The state at the start of on_startup is well typed.
LEMMA TypeInit == Init => TypeOK
  BY PipelineAssumption DEF Init, TypeOK, Idle, Call, Hook

\* Every step of callers, hook, operators and restarts keeps the state well typed.
LEMMA TypeStep == TypeOK /\ [Next]_vars => TypeOK'
<1> SUFFICES ASSUME TypeOK, [Next]_vars PROVE TypeOK'
  OBVIOUS
<1>1. CASE Tick
  BY <1>1, PipelineAssumption DEF TypeOK, Tick, Alert, Call
<1>2. ASSUME NEW c \in Callers, NEW k \in Keys, NEW kind \in Kinds, Raise(c, k, kind)
      PROVE  TypeOK'
  BY <1>2 DEF TypeOK, Raise, Call
<1>3. ASSUME NEW c \in Callers, IsDuplicate(c)
      PROVE  TypeOK'
  <2>1. PICK new \in Call : call' = [call EXCEPT ![c] = new] /\ new.pc # "publish"
    <3>1. Idle \in Call /\ Idle.pc # "publish"
      BY DEF Idle, Call
    <3>2. /\ call[c].pc = "check"
          /\ call[c] = [pc |-> call[c].pc, key |-> call[c].key,
                        kind |-> call[c].kind, at |-> call[c].at]
          /\ call[c].key \in Keys /\ call[c].kind \in Kinds
      BY <1>3, CallShape DEF TypeOK, IsDuplicate
    <3>3. [pc |-> "insert", key |-> call[c].key, kind |-> call[c].kind, at |-> now] \in Call
      BY <3>2 DEF Call, TypeOK
    <3>4. QED
      BY <1>3, <3>1, <3>3 DEF IsDuplicate, TypeOK
  <2>2. QED
    BY <1>3, <2>1 DEF TypeOK, IsDuplicate
<1>4. ASSUME NEW c \in Callers, Insert(c)
      PROVE  TypeOK'
  <2>1. PICK ts \in call[c].at..now :
             /\ alerts' = Append(alerts, [key |-> call[c].key, kind |-> call[c].kind,
                                          ts |-> ts, acked |-> FALSE, by |-> c])
             /\ call' = [call EXCEPT ![c] = [pc |-> "fetch", key |-> call[c].key,
                                             kind |-> call[c].kind, at |-> ts]]
    BY <1>4 DEF Insert, TypeOK
  <2>2. /\ call[c] = [pc |-> "insert", key |-> call[c].key,
                      kind |-> call[c].kind, at |-> call[c].at]
        /\ call[c].key \in Keys /\ call[c].kind \in Kinds /\ ts \in 0..MaxTime
    BY <1>4, CallShape, PipelineAssumption DEF TypeOK, Insert
  <2>3. /\ call' \in [Callers -> Call]
        /\ \A d \in Callers : call'[d].pc = "publish" => call'[d] = call[d]
    BY <2>1, <2>2 DEF TypeOK, Call
  <2>4. /\ alerts' \in Seq(Alert)
        /\ DOMAIN alerts \subseteq DOMAIN alerts'
    BY <2>1, <2>2, AppendRow DEF TypeOK, Alert
  <2>5. QED
    BY <1>4, <2>3, <2>4 DEF TypeOK, Insert
<1>5. ASSUME NEW c \in Callers, Fetch(c)
      PROVE  TypeOK'
  BY <1>5 DEF TypeOK, Fetch, Call, AlertRows
<1>6. ASSUME NEW c \in Callers, Publish(c)
      PROVE  TypeOK'
  <2>1. call[c].row \in DOMAIN alerts /\ alerts[call[c].row].key \in Keys
    BY <1>6, RowTypes DEF TypeOK, Publish
  <2>2. /\ call' \in [Callers -> Call]
        /\ \A d \in Callers : call'[d].pc = "publish" => call'[d] = call[d]
    BY <1>6 DEF TypeOK, Publish, Call, Idle
  <2>3. queue' \in Seq(DOMAIN alerts) /\ Len(queue') <= QueueSize
    <3>1. CASE queue' = queue
      BY <3>1 DEF TypeOK
    <3>2. CASE queue' = Append(queue, call[c].row) /\ Len(queue) < QueueSize
      <4>1. queue \in Seq(DOMAIN alerts) /\ Len(queue) \in Nat
        BY DEF TypeOK
      <4>2. queue' \in Seq(DOMAIN alerts) /\ Len(queue') = Len(queue) + 1
        BY <2>1, <3>2, <4>1, AppendProperties
      <4>3. QED
        BY <3>2, <4>1, <4>2, PipelineAssumption
    <3>3. QED
      BY <1>6, <3>1, <3>2 DEF Publish
  <2>4. missed' \subseteq Keys
    BY <1>6, <2>1 DEF TypeOK, Publish
  <2>5. QED
    BY <1>6, <2>2, <2>3, <2>4 DEF TypeOK, Publish
<1>7. ASSUME NEW c \in Callers, CallFails(c)
      PROVE  TypeOK'
  BY <1>7, CallShape DEF TypeOK, CallFails, Call, Idle
<1>8. ASSUME NEW i \in DOMAIN alerts, Acknowledge(i)
      PROVE  TypeOK'
  <2>1. [alerts[i] EXCEPT !.acked = TRUE] \in Alert
    BY <1>8, RowTypes, RowUpdate
  <2>2. alerts' \in Seq(Alert) /\ DOMAIN alerts' = DOMAIN alerts
    BY <1>8, <2>1, UpdateRow DEF TypeOK, Acknowledge
  <2>3. QED
    BY <1>8, <2>2 DEF TypeOK, Acknowledge
<1>9. CASE HookStep
  <2>1. CASE Subscribe
    BY <2>1 DEF TypeOK, Subscribe, Waiting, Hook
  <2>2. CASE Get
    BY <2>2, HeadTailProperties, PipelineAssumption DEF TypeOK, Get, Hook
  <2>3. CASE Dispatch
    BY <2>3, HookShape DEF TypeOK, Dispatch, Hook
  <2>4. CASE Select
    BY <2>4, HookShape DEF TypeOK, Select, Hook, Waiting, OpenRows
  <2>5. CASE OpenIncident
    <3>1. Held \in Alert
      BY <2>5, RowTypes DEF TypeOK, OpenIncident, Held
    <3>2. incidents' \in Seq(Incident)
      BY <2>5, <3>1, AppendRow DEF TypeOK, OpenIncident, Incident, Alert
    <3>3. QED
      BY <2>5, <3>2 DEF TypeOK, OpenIncident, Waiting, Hook
  <2>6. CASE CloseIncident
    <3>1. CASE hook.todo = {} /\ hook' = Waiting /\ UNCHANGED incidents
      BY <2>6, <3>1 DEF TypeOK, CloseIncident, Waiting, Hook
    <3>2. ASSUME NEW i \in hook.todo,
                 incidents' = [incidents EXCEPT ![i].open = FALSE],
                 hook' = [pc |-> "update", alert |-> hook.alert, todo |-> hook.todo \ {i}]
          PROVE  TypeOK'
      <4>1. i \in DOMAIN incidents
        BY <2>6 DEF TypeOK, CloseIncident
      <4>2. [incidents[i] EXCEPT !.open = FALSE] \in Incident
        BY <4>1, RowTypes, RowUpdate
      <4>3. incidents' \in Seq(Incident) /\ DOMAIN incidents' = DOMAIN incidents
        BY <3>2, <4>1, <4>2, UpdateRow DEF TypeOK
      <4>4. /\ hook' \in Hook /\ hook'.pc = "update" /\ hook'.alert = hook.alert
            /\ hook'.todo \subseteq hook.todo
        BY <2>6, <3>2, HookShape DEF TypeOK, CloseIncident, Hook
      <4>5. QED
        BY <2>6, <4>3, <4>4 DEF TypeOK, CloseIncident
    <3>3. QED
      BY <2>6, <3>1, <3>2 DEF CloseIncident
  <2>7. QED
    BY <1>9, <2>1, <2>2, <2>3, <2>4, <2>5, <2>6 DEF HookStep
<1>10. CASE HookFails
  <2>1. Held.key \in Keys
    BY <1>10, RowTypes DEF TypeOK, HookFails, Held
  <2>2. QED
    BY <1>10, <2>1 DEF TypeOK, HookFails, Hook, Waiting
<1>11. ASSUME NEW i \in DOMAIN incidents, Annotate(i)
       PROVE  TypeOK'
  <2>1. [incidents[i] EXCEPT !.noted = TRUE] \in Incident
    BY RowTypes, RowUpdate
  <2>2. incidents' \in Seq(Incident) /\ DOMAIN incidents' = DOMAIN incidents
    BY <1>11, <2>1, UpdateRow DEF TypeOK, Annotate
  <2>3. QED
    BY <1>11, <2>2 DEF TypeOK, Annotate
<1>12. CASE Crash
  <2>1. InFlight \subseteq Keys
    <3>1. \A i \in DOMAIN alerts : alerts[i].key \in Keys
      BY RowTypes
    <3>2. \A c \in Callers : call[c].pc = "fetch" => call[c].key \in Keys
      BY CallShape DEF TypeOK
    <3>3. \A i \in DOMAIN queue : queue[i] \in DOMAIN alerts
      BY RowTypes
    <3>4. hook.pc \notin {"down", "get"} => Held.key \in Keys
      BY <3>1 DEF TypeOK, Held
    <3>5. QED
      BY <3>1, <3>2, <3>3, <3>4 DEF InFlight, TypeOK
  <2>2. call' \in [Callers -> Call] /\ \A c \in Callers : call'[c].pc = "idle"
    BY <1>12 DEF Crash, Idle, Call
  <2>3. QED
    BY <1>12, <2>1, <2>2, PipelineAssumption DEF TypeOK, Crash, Hook
<1>13. CASE UNCHANGED vars
  BY <1>13 DEF TypeOK, vars
<1>14. QED
  BY <1>1, <1>2, <1>3, <1>4, <1>5, <1>6, <1>7, <1>8, <1>9, <1>10, <1>11, <1>12, <1>13
     DEF Next, CallerStep

\* Every reachable state of the pipeline is well typed, and no task ever holds
\* the id of a row that is not there.
THEOREM TypeCorrect == Spec => []TypeOK
  BY TypeInit, TypeStep, PTL DEF Spec

\* No step changes what an alert row says except its acknowledgement, and only
\* an INSERT adds one.
LEMMA AlertsKept ==
    ASSUME TypeOK, [Next]_vars
    PROVE  /\ \A i \in DOMAIN alerts : /\ i \in DOMAIN alerts'
                                       /\ alerts'[i].key = alerts[i].key
                                       /\ alerts'[i].kind = alerts[i].kind
                                       /\ alerts'[i].ts = alerts[i].ts
           /\ (\A c \in Callers : ~Insert(c)) =>
                DOMAIN alerts' = DOMAIN alerts /\ \A k : AlertRows(k)' = AlertRows(k)
<1> DEFINE Kept == \A i \in DOMAIN alerts : /\ i \in DOMAIN alerts'
                                            /\ alerts'[i].key = alerts[i].key
                                            /\ alerts'[i].kind = alerts[i].kind
                                            /\ alerts'[i].ts = alerts[i].ts
<1>1. ASSUME NEW c \in Callers, Insert(c) PROVE Kept
  BY <1>1, AppendProperties DEF Insert, TypeOK
<1>2. ASSUME NEW i \in DOMAIN alerts, Acknowledge(i)
      PROVE  Kept /\ DOMAIN alerts' = DOMAIN alerts
  <2>1. /\ DOMAIN alerts' = DOMAIN alerts
        /\ \A j \in DOMAIN alerts :
             alerts'[j] = IF j = i THEN [alerts[i] EXCEPT !.acked = TRUE] ELSE alerts[j]
    BY <1>2 DEF Acknowledge
  <2>2. /\ [alerts[i] EXCEPT !.acked = TRUE].key = alerts[i].key
        /\ [alerts[i] EXCEPT !.acked = TRUE].kind = alerts[i].kind
        /\ [alerts[i] EXCEPT !.acked = TRUE].ts = alerts[i].ts
    BY <1>2, RowTypes, RowUpdate
  <2>3. QED
    BY <2>1, <2>2
<1>3. ASSUME UNCHANGED alerts PROVE Kept /\ DOMAIN alerts' = DOMAIN alerts
  BY <1>3
<1>4. (\E c \in Callers : Insert(c)) \/ (\E i \in DOMAIN alerts : Acknowledge(i)) \/ UNCHANGED alerts
  BY DEF Next, vars, Tick, Raise, CallerStep, IsDuplicate, Fetch, Publish, CallFails, HookStep,
         Subscribe, Get, Dispatch, Select, OpenIncident, CloseIncident, HookFails, Annotate, Crash
<1>5. Kept
  BY <1>1, <1>2, <1>3, <1>4
<1>6. ASSUME \A c \in Callers : ~Insert(c)
      PROVE  DOMAIN alerts' = DOMAIN alerts /\ \A k : AlertRows(k)' = AlertRows(k)
  <2>1. DOMAIN alerts' = DOMAIN alerts
    BY <1>2, <1>3, <1>4, <1>6
  <2>2. QED
    BY <1>5, <2>1 DEF AlertRows
<1>7. QED
  BY <1>5, <1>6

(***************************************************************************)
(* One open incident per key.  handle_alert decides to insert in one       *)
(* statement and inserts in a later one; what makes the decision still     *)
(* valid is that nothing else opens incidents in between.  The inductive   *)
(* invariant says so: while the hook is about to insert, its key has no    *)
(* open incident.                                                          *)
(***************************************************************************)
InsertIsSafe == hook.pc = "insert" => OpenRows(Held.key) = {}

IncidentInv == TypeOK /\ OneOpenPerKey /\ InsertIsSafe

\* The actions that leave the incidents and the hook's decision alone.
LEMMA OtherStepsKeepIncidents ==
    ASSUME [Next]_vars, ~HookStep, ~HookFails, ~Crash,
           ~(\E i \in DOMAIN incidents : Annotate(i))
    PROVE  UNCHANGED <<incidents, hook>>
  BY DEF Next, vars, Tick, Raise, CallerStep, IsDuplicate, Insert, Fetch, Publish, CallFails,
         Acknowledge

\* Rows that keep their key and do not reopen cannot break OneOpenPerKey.
LEMMA NoNewOpenRow ==
    ASSUME OneOpenPerKey,
           \A i \in DOMAIN incidents' : /\ i \in DOMAIN incidents
                                        /\ incidents'[i].key = incidents[i].key
                                        /\ incidents'[i].open => incidents[i].open
    PROVE  OneOpenPerKey'
  BY DEF OneOpenPerKey

\* Between the hook's SELECT and its INSERT (incidents.open_incident) no other
\* step opens an incident, so the strengthened invariant survives every step.
LEMMA IncidentStep == IncidentInv /\ [Next]_vars => IncidentInv'
<1> SUFFICES ASSUME IncidentInv, [Next]_vars PROVE OneOpenPerKey' /\ InsertIsSafe'
  BY TypeStep DEF IncidentInv
<1> USE DEF IncidentInv
<1>1. CASE Subscribe \/ Get \/ Dispatch
  BY <1>1 DEF Subscribe, Get, Dispatch, Waiting, OneOpenPerKey, InsertIsSafe
<1>2. CASE Select
  BY <1>2 DEF Select, Waiting, OneOpenPerKey, InsertIsSafe, OpenRows, Held
<1>3. CASE OpenIncident
  <2>1. Held \in Alert /\ OpenRows(Held.key) = {}
    BY <1>3, RowTypes DEF OpenIncident, InsertIsSafe, Held, TypeOK
  <2>2. /\ DOMAIN incidents' = DOMAIN incidents \cup {Len(incidents) + 1}
        /\ \A i \in DOMAIN incidents : incidents'[i] = incidents[i]
        /\ incidents'[Len(incidents) + 1].key = Held.key
    <3>1. [key |-> Held.key, open |-> TRUE, noted |-> FALSE] \in Incident
      BY <2>1 DEF Incident, Alert
    <3>2. QED
      BY <1>3, <3>1, AppendRow DEF OpenIncident, TypeOK
  <2>3. OneOpenPerKey'
    BY <2>1, <2>2 DEF OneOpenPerKey, OpenRows
  <2>4. QED
    BY <1>3, <2>3 DEF OpenIncident, InsertIsSafe, Waiting
<1>4. CASE CloseIncident
  <2>1. \A i \in DOMAIN incidents' : /\ i \in DOMAIN incidents
                                     /\ incidents'[i].key = incidents[i].key
                                     /\ incidents'[i].open => incidents[i].open
    <3>1. CASE UNCHANGED incidents
      BY <3>1
    <3>2. ASSUME NEW i \in hook.todo, incidents' = [incidents EXCEPT ![i].open = FALSE]
          PROVE  \A j \in DOMAIN incidents' : /\ j \in DOMAIN incidents
                                              /\ incidents'[j].key = incidents[j].key
                                              /\ incidents'[j].open => incidents[j].open
      <4>1. i \in DOMAIN incidents
        BY <1>4, <3>2 DEF CloseIncident, TypeOK
      <4>2. /\ DOMAIN incidents' = DOMAIN incidents
            /\ \A j \in DOMAIN incidents : incidents'[j] =
                 IF j = i THEN [incidents[i] EXCEPT !.open = FALSE] ELSE incidents[j]
        BY <3>2, <4>1
      <4>3. /\ [incidents[i] EXCEPT !.open = FALSE].key = incidents[i].key
            /\ ~[incidents[i] EXCEPT !.open = FALSE].open
        BY <4>1, RowTypes, RowUpdate
      <4>4. QED
        BY <4>1, <4>2, <4>3
    <3>3. QED
      BY <1>4, <3>1, <3>2 DEF CloseIncident
  <2>2. OneOpenPerKey'
    BY <2>1, NoNewOpenRow
  <2>3. hook'.pc # "insert"
    BY <1>4 DEF CloseIncident, Waiting
  <2>4. QED
    BY <2>2, <2>3 DEF InsertIsSafe
<1>5. CASE HookFails \/ Crash
  BY <1>5 DEF HookFails, Crash, Waiting, OneOpenPerKey, InsertIsSafe
<1>6. ASSUME NEW i \in DOMAIN incidents, Annotate(i)
      PROVE  OneOpenPerKey' /\ InsertIsSafe'
  <2>1. /\ DOMAIN incidents' = DOMAIN incidents
        /\ \A j \in DOMAIN incidents : incidents'[j].key = incidents[j].key
                                      /\ incidents'[j].open = incidents[j].open
    <3>1. /\ DOMAIN incidents' = DOMAIN incidents
          /\ \A j \in DOMAIN incidents : incidents'[j] =
               IF j = i THEN [incidents[i] EXCEPT !.noted = TRUE] ELSE incidents[j]
      BY <1>6 DEF Annotate
    <3>2. /\ [incidents[i] EXCEPT !.noted = TRUE].key = incidents[i].key
          /\ [incidents[i] EXCEPT !.noted = TRUE].open = incidents[i].open
      BY <1>6, RowTypes, RowUpdate
    <3>3. QED
      BY <3>1, <3>2
  <2>2. UNCHANGED <<hook, alerts>>
    BY <1>6 DEF Annotate
  <2>3. QED
    BY <2>1, <2>2 DEF OneOpenPerKey, InsertIsSafe, OpenRows, Held
<1>7. CASE /\ ~HookStep /\ ~HookFails /\ ~Crash
           /\ ~(\E i \in DOMAIN incidents : Annotate(i))
  <2>1. /\ UNCHANGED <<incidents, hook>>
        /\ hook.pc = "insert" => Held'.key = Held.key
    BY <1>7, OtherStepsKeepIncidents, AlertsKept DEF TypeOK, Held
  <2>2. QED
    BY <2>1 DEF OneOpenPerKey, InsertIsSafe, OpenRows
<1>8. QED
  BY <1>1, <1>2, <1>3, <1>4, <1>5, <1>6, <1>7 DEF HookStep

\* No interleaving of alerts, failures, crashes and operators gives a key two
\* open incidents, although no index and no transaction forbids it.
THEOREM OneOpenIncident == Spec => []OneOpenPerKey
<1>1. Init => IncidentInv
  BY TypeInit DEF IncidentInv, Init, OneOpenPerKey, InsertIsSafe
<1>2. IncidentInv => OneOpenPerKey
  BY DEF IncidentInv
<1>3. QED
  BY <1>1, <1>2, IncidentStep, PTL DEF Spec

(***************************************************************************)
(* Duplicates.  _is_duplicate reads the table, the INSERT comes later.     *)
(* The inductive invariant keeps what the check found: while a caller is   *)
(* about to insert, the unacknowledged alerts of its key that it inserted  *)
(* itself are a window old, whatever the other tasks insert meanwhile.     *)
(***************************************************************************)
CheckedIsOld ==
    \A c \in Callers :
        call[c].pc \in {"check", "insert"} =>
            /\ call[c].at <= now
            /\ call[c].pc = "insert" =>
                 \A i \in AlertRows(call[c].key) :
                    alerts[i].by = c /\ ~alerts[i].acked
                        => alerts[i].ts + Window[call[c].key] <= call[c].at

DuplicateInv == TypeOK /\ DuplicatesSpaced /\ CheckedIsOld

\* Rows that keep id, key, ts and task and are not un-acknowledged stay spaced.
LEMMA SameRowsStaySpaced ==
    ASSUME DOMAIN alerts' = DOMAIN alerts,
           \A i \in DOMAIN alerts : /\ alerts'[i].key = alerts[i].key
                                    /\ alerts'[i].ts = alerts[i].ts
                                    /\ alerts'[i].by = alerts[i].by
                                    /\ ~alerts'[i].acked => ~alerts[i].acked
    PROVE  /\ DuplicatesSpaced => DuplicatesSpaced'
           /\ CheckedIsOld /\ UNCHANGED <<call, now>> => CheckedIsOld'
<1>1. ASSUME DuplicatesSpaced PROVE DuplicatesSpaced'
  BY <1>1 DEF DuplicatesSpaced
<1>2. ASSUME CheckedIsOld, UNCHANGED <<call, now>> PROVE CheckedIsOld'
  BY <1>2 DEF CheckedIsOld, AlertRows
<1>3. QED
  BY <1>1, <1>2

\* What a caller that passed _is_duplicate has inserted before is only added to by
\* itself, so the strengthened invariant survives every step.
LEMMA DuplicateStep == DuplicateInv /\ [Next]_vars => DuplicateInv'
<1> SUFFICES ASSUME DuplicateInv, [Next]_vars PROVE DuplicatesSpaced' /\ CheckedIsOld'
  BY TypeStep DEF DuplicateInv
<1> USE DEF DuplicateInv
<1>1. ASSUME NEW c \in Callers, NEW k \in Keys, NEW kind \in Kinds, Raise(c, k, kind)
      PROVE  DuplicatesSpaced' /\ CheckedIsOld'
  BY <1>1 DEF Raise, DuplicatesSpaced, CheckedIsOld, AlertRows, TypeOK
<1>2. ASSUME NEW c \in Callers, IsDuplicate(c)
      PROVE  DuplicatesSpaced' /\ CheckedIsOld'
  <2>1. /\ call[c].key \in Keys /\ call[c].at \in Nat /\ now \in Nat
        /\ Window[call[c].key] \in Nat
    BY <1>2, CallShape, PipelineAssumption DEF IsDuplicate, TypeOK
  <2>2. \A i \in AlertRows(call[c].key) : alerts[i].ts \in Nat
    BY RowTypes DEF AlertRows, Alert
  <2>3. DuplicatesSpaced'
    BY <1>2 DEF IsDuplicate, DuplicatesSpaced
  <2>4. /\ \A d \in Callers \ {c} : call'[d] = call[d]
        /\ call'[c] = IF Similar(call[c].key, call[c].at) # {} THEN Idle
                      ELSE [pc |-> "insert", key |-> call[c].key, kind |-> call[c].kind, at |-> now]
        /\ UNCHANGED <<alerts, now>> /\ call[c].at <= now
    BY <1>2 DEF IsDuplicate, CheckedIsOld, TypeOK
  <2>5. Similar(call[c].key, call[c].at) = {} =>
          \A i \in AlertRows(call[c].key) :
            ~alerts[i].acked => alerts[i].ts + Window[call[c].key] <= now
    BY <2>1, <2>2, <2>4 DEF Similar
  <2>6. CheckedIsOld'
    BY <2>1, <2>4, <2>5 DEF CheckedIsOld, AlertRows, Idle
  <2>7. QED
    BY <2>3, <2>6
<1>3. ASSUME NEW c \in Callers, Insert(c)
      PROVE  DuplicatesSpaced' /\ CheckedIsOld'
  <2>1. PICK ts \in call[c].at..now :
             /\ alerts' = Append(alerts, [key |-> call[c].key, kind |-> call[c].kind,
                                          ts |-> ts, acked |-> FALSE, by |-> c])
             /\ call' = [call EXCEPT ![c] = [pc |-> "fetch", key |-> call[c].key,
                                             kind |-> call[c].kind, at |-> ts]]
    BY <1>3 DEF Insert, TypeOK
  <2> DEFINE k == call[c].key
             n == Len(alerts) + 1
  <2>2. k \in Keys /\ call[c].pc = "insert" /\ call[c].at \in Nat /\ ts \in Nat
        /\ call[c].at <= ts /\ Window[k] \in Nat /\ n \in Nat
    BY <1>3, CallShape, PipelineAssumption DEF Insert, TypeOK
  <2>3. /\ DOMAIN alerts' = DOMAIN alerts \cup {n}
        /\ n \notin DOMAIN alerts
        /\ \A i \in DOMAIN alerts : alerts'[i] = alerts[i] /\ i \in Nat /\ i < n
        /\ alerts'[n].key = k /\ alerts'[n].ts = ts /\ alerts'[n].by = c
    BY <2>1, AppendProperties, LenProperties DEF TypeOK
  <2>4. \A i \in AlertRows(k) : alerts[i].by = c /\ ~alerts[i].acked =>
          alerts[i].ts \in Nat /\ alerts[i].ts + Window[k] <= ts
    BY <2>2, RowTypes DEF CheckedIsOld, AlertRows, Alert
  <2>5. ASSUME NEW i \in DOMAIN alerts', NEW j \in DOMAIN alerts',
               i < j, alerts'[i].key = alerts'[j].key, alerts'[i].by = alerts'[j].by,
               ~alerts'[i].acked, ~alerts'[j].acked
        PROVE  alerts'[i].ts + Window[alerts'[i].key] <= alerts'[j].ts
    <3>1. i \in DOMAIN alerts
      BY <2>2, <2>3, <2>5
    <3>2. CASE j \in DOMAIN alerts
      BY <2>3, <2>5, <3>1, <3>2 DEF DuplicatesSpaced
    <3>3. CASE j = n
      BY <2>3, <2>4, <2>5, <3>1, <3>3 DEF AlertRows
    <3>4. QED
      BY <2>3, <3>2, <3>3
  <2>6. ASSUME NEW d \in Callers, call'[d].pc \in {"check", "insert"}
        PROVE  /\ call'[d].at <= now'
               /\ call'[d].pc = "insert" =>
                    \A i \in {j \in DOMAIN alerts' : alerts'[j].key = call'[d].key} :
                      alerts'[i].by = d /\ ~alerts'[i].acked
                        => alerts'[i].ts + Window[call'[d].key] <= call'[d].at
    <3>1. d # c /\ call'[d] = call[d]
      BY <2>1, <2>6 DEF TypeOK
    <3>2. QED
      BY <1>3, <2>3, <2>6, <3>1 DEF CheckedIsOld, AlertRows, Insert
  <2>7. QED
    BY <2>5, <2>6 DEF CheckedIsOld, DuplicatesSpaced, AlertRows
<1>4. ASSUME NEW i \in DOMAIN alerts, Acknowledge(i)
      PROVE  DuplicatesSpaced' /\ CheckedIsOld'
  <2>1. /\ DOMAIN alerts' = DOMAIN alerts
        /\ \A j \in DOMAIN alerts : alerts'[j] =
             IF j = i THEN [alerts[i] EXCEPT !.acked = TRUE] ELSE alerts[j]
    BY <1>4 DEF Acknowledge
  <2>2. /\ [alerts[i] EXCEPT !.acked = TRUE].key = alerts[i].key
        /\ [alerts[i] EXCEPT !.acked = TRUE].ts = alerts[i].ts
        /\ [alerts[i] EXCEPT !.acked = TRUE].by = alerts[i].by
        /\ [alerts[i] EXCEPT !.acked = TRUE].acked
    BY <1>4, RowTypes, RowUpdate
  <2>3. \A j \in DOMAIN alerts : /\ alerts'[j].key = alerts[j].key
                                 /\ alerts'[j].ts = alerts[j].ts
                                 /\ alerts'[j].by = alerts[j].by
                                 /\ ~alerts'[j].acked => ~alerts[j].acked
    BY <2>1, <2>2
  <2>4. UNCHANGED <<call, now>>
    BY <1>4 DEF Acknowledge
  <2>5. QED
    BY <2>1, <2>3, <2>4, SameRowsStaySpaced
<1>5. ASSUME NEW c \in Callers, Fetch(c) \/ Publish(c) \/ CallFails(c)
      PROVE  DuplicatesSpaced' /\ CheckedIsOld'
  <2>1. UNCHANGED <<alerts, now>> /\ \A d \in Callers :
          call'[d].pc \in {"check", "insert"} => call'[d] = call[d]
    BY <1>5 DEF Fetch, Publish, CallFails, Idle, TypeOK
  <2>2. DuplicatesSpaced'
    BY <2>1 DEF DuplicatesSpaced
  <2>3. CheckedIsOld'
    BY <2>1 DEF CheckedIsOld, AlertRows
  <2>4. QED
    BY <2>2, <2>3
<1>6. CASE Crash
  BY <1>6 DEF Crash, Idle, DuplicatesSpaced, CheckedIsOld
<1>7. CASE UNCHANGED <<alerts, call>> /\ (now' = now \/ now' = now + 1)
  <2>1. DuplicatesSpaced'
    BY <1>7 DEF DuplicatesSpaced
  <2>2. \A c \in Callers : call[c].pc \in {"check", "insert"} => call[c].at <= now'
    BY <1>7, CallShape, PipelineAssumption DEF CheckedIsOld, TypeOK
  <2>3. CheckedIsOld'
    BY <1>7, <2>2 DEF CheckedIsOld, AlertRows
  <2>4. QED
    BY <2>1, <2>3
<1>8. QED
  BY <1>1, <1>2, <1>3, <1>4, <1>5, <1>6, <1>7
     DEF Next, vars, Tick, CallerStep, HookStep, Subscribe, Get, Dispatch, Select,
         OpenIncident, CloseIncident, HookFails, Annotate

\* Check-then-insert keeps two unacknowledged alerts of a key from one task a window
\* apart, whatever other tasks raise and insert in between.
THEOREM DuplicatesAreSpaced == Spec => []DuplicatesSpaced
<1>1. Init => DuplicateInv
  BY TypeInit DEF DuplicateInv, Init, DuplicatesSpaced, CheckedIsOld, Idle
<1>2. DuplicateInv => DuplicatesSpaced
  BY DEF DuplicateInv
<1>3. QED
  BY <1>1, <1>2, DuplicateStep, PTL DEF Spec

(***************************************************************************)
(* The timeline follows the alerts.  An alert of a key that one task       *)
(* raises goes from that task to the hook's queue to the hook.  The        *)
(* inductive invariant says where the alerts that are underway stand: the  *)
(* one a caller holds is the newest of its key, the queue holds older ones *)
(* in order, the hook an older one still, and every alert that is not      *)
(* underway is older than those; the timeline agrees with the last of      *)
(* these handled alerts, or the hook is closing what that leaves open.     *)
(***************************************************************************)
OnHook(i) == hook.pc \notin {"down", "get"} /\ hook.alert = i
OnQueue(i) == \E p \in DOMAIN queue : queue[p] = i
HasRow(c, k) ==
    \/ call[c].pc = "fetch" /\ call[c].key = k
    \/ call[c].pc = "publish" /\ alerts[call[c].row].key = k
Newest(k, i) == i \in AlertRows(k) /\ \A j \in AlertRows(k) : j <= i

Underway(k) ==
    {i \in AlertRows(k) : OnHook(i) \/ OnQueue(i)
                          \/ (Newest(k, i) /\ \E c \in Callers : HasRow(c, k))}
Handled(k) == AlertRows(k) \ Underway(k)

CallerHasNewest(k) ==
    \A c \in Callers : HasRow(c, k) =>
        \E i \in AlertRows(k) :
            /\ Newest(k, i) /\ ~OnQueue(i) /\ ~OnHook(i)
            /\ call[c].pc = "fetch" => alerts[i].ts = call[c].at
            /\ call[c].pc = "publish" => call[c].row = i

QueueInOrder(k) ==
    \A p, q \in DOMAIN queue :
        p < q /\ queue[p] \in AlertRows(k) /\ queue[q] \in AlertRows(k) => queue[p] < queue[q]

HookIsAhead(k) == \A i, j \in AlertRows(k) : OnHook(i) /\ OnQueue(j) => i < j

HandledFirst(k) == \A i \in Handled(k), j \in Underway(k) : i < j

LastHandledIsRaise(k) ==
    \E i \in Handled(k) : alerts[i].kind = "raise" /\ \A j \in Handled(k) : j <= i

Closing(k) == hook.pc = "update" /\ Held.key = k

TimelineIsCurrent(k) ==
    IF Closing(k) THEN OpenRows(k) \subseteq hook.todo
    ELSE (OpenRows(k) # {}) <=> LastHandledIsRaise(k)

InOrder(k) == CallerHasNewest(k) /\ QueueInOrder(k) /\ HookIsAhead(k) /\ HandledFirst(k)

Tracked(k) == k \in Keys \ missed /\ SoleRaiser(k)

RaisersOnly ==
    \A c \in Callers :
        /\ call[c].pc \in {"check", "insert", "fetch"} => c \in Raisers[call[c].key]
        /\ call[c].pc = "publish" => c \in Raisers[alerts[call[c].row].key]

HookDecision ==
    /\ hook.pc = "insert" => Held.kind = "raise"
    /\ hook.pc = "update" => /\ Held.kind = "recover"
                             /\ \A i \in hook.todo : incidents[i].key = Held.key

RoleInv == TypeOK /\ RaisersOnly /\ HookDecision

TrackInv ==
    /\ RoleInv /\ InsertIsSafe
    /\ \A k \in Keys : Tracked(k) => InOrder(k) /\ TimelineIsCurrent(k)

\* A row of a key is a row of the table, its id a number.
LEMMA RowIds ==
    ASSUME TypeOK
    PROVE  /\ DOMAIN alerts \subseteq Nat
           /\ \A k : AlertRows(k) \subseteq DOMAIN alerts
           /\ \A k : Handled(k) \subseteq AlertRows(k) /\ Underway(k) \subseteq AlertRows(k)
           /\ DOMAIN queue \subseteq Nat
<1>1. DOMAIN alerts \subseteq Nat /\ DOMAIN queue \subseteq Nat
  BY DEF TypeOK
<1>2. QED
  BY <1>1 DEF AlertRows, Handled, Underway

\* A step that leaves alone the alerts of a key, wherever they are, and its
\* incidents leaves the key's order and its timeline as they were.
LEMMA OtherKey ==
    ASSUME NEW k \in Keys, TypeOK, InOrder(k), TimelineIsCurrent(k),
           AlertRows(k)' = AlertRows(k),
           \A i \in AlertRows(k) : /\ alerts'[i].kind = alerts[i].kind
                                   /\ alerts'[i].ts = alerts[i].ts
                                   /\ OnHook(i)' <=> OnHook(i)
                                   /\ OnQueue(i)' <=> OnQueue(i),
           \A c \in Callers : /\ HasRow(c, k)' <=> HasRow(c, k)
                              /\ HasRow(c, k) => call'[c] = call[c],
           QueueInOrder(k)',
           OpenRows(k)' = OpenRows(k), Closing(k)' <=> Closing(k),
           Closing(k) => hook'.todo = hook.todo
    PROVE  (InOrder(k) /\ TimelineIsCurrent(k))'
<1>1. \A i : Newest(k, i)' <=> Newest(k, i)
  BY DEF Newest
<1>2. Underway(k)' = Underway(k)
  BY <1>1 DEF Underway
<1>3. Handled(k)' = Handled(k)
  BY <1>2 DEF Handled
<1>4. CallerHasNewest(k)'
  BY <1>1 DEF CallerHasNewest, InOrder
<1>5. HookIsAhead(k)' /\ HandledFirst(k)'
  BY <1>2, <1>3 DEF InOrder, HookIsAhead, HandledFirst
<1>6. LastHandledIsRaise(k)' <=> LastHandledIsRaise(k)
  BY <1>3, RowIds DEF LastHandledIsRaise
<1>7. TimelineIsCurrent(k)'
  BY <1>6 DEF TimelineIsCurrent
<1>8. QED
  BY <1>4, <1>5, <1>7 DEF InOrder

\* A caller only handles keys it raises; the hook inserts for a raise and
\* closes the rows of its alert's key for a recovery.
LEMMA RoleStep == RoleInv /\ [Next]_vars => RoleInv'
<1> SUFFICES ASSUME RoleInv, [Next]_vars PROVE RaisersOnly' /\ HookDecision'
  BY TypeStep DEF RoleInv
<1>0. TypeOK /\ RaisersOnly /\ HookDecision
  BY DEF RoleInv
<1>1. \A i \in DOMAIN alerts : /\ i \in DOMAIN alerts' /\ alerts'[i].key = alerts[i].key
                               /\ alerts'[i].kind = alerts[i].kind
  BY <1>0, AlertsKept
<1>2. RaisersOnly'
  <2>1. ASSUME NEW c \in Callers, call'[c] = call[c]
        PROVE  /\ call'[c].pc \in {"check", "insert", "fetch"} => c \in Raisers[call'[c].key]
               /\ call'[c].pc = "publish" => c \in Raisers[alerts'[call'[c].row].key]
    BY <1>0, <1>1, <2>1 DEF RaisersOnly, TypeOK
  <2>2. ASSUME NEW c \in Callers, call'[c] # call[c]
        PROVE  /\ call'[c].pc \in {"check", "insert", "fetch"} => c \in Raisers[call'[c].key]
               /\ call'[c].pc = "publish" => c \in Raisers[alerts'[call'[c].row].key]
    <3>1. \/ \E k \in Keys, kind \in Kinds : Raise(c, k, kind)
          \/ IsDuplicate(c) \/ Insert(c) \/ Fetch(c) \/ Publish(c) \/ CallFails(c) \/ Crash
      BY <1>0, <2>2 DEF Next, vars, Tick, Raise, CallerStep, IsDuplicate, Insert, Fetch, Publish,
           CallFails, Acknowledge, HookStep, Subscribe, Get, Dispatch, Select, OpenIncident,
           CloseIncident, HookFails, Annotate, TypeOK
    <3>2. CASE \E k \in Keys, kind \in Kinds : Raise(c, k, kind)
      BY <1>0, <3>2 DEF Raise, TypeOK
    <3>3. CASE IsDuplicate(c)
      BY <1>0, <3>3 DEF IsDuplicate, RaisersOnly, Idle, TypeOK
    <3>4. CASE Insert(c)
      BY <1>0, <3>4 DEF Insert, RaisersOnly, TypeOK
    <3>5. CASE Fetch(c)
      <4>1. PICK i \in AlertRows(call[c].key) : call'[c] = [pc |-> "publish", row |-> i]
        BY <1>0, <3>5 DEF Fetch, TypeOK
      <4>2. QED
        BY <1>0, <1>1, <3>5, <4>1 DEF Fetch, RaisersOnly, AlertRows
    <3>6. CASE Publish(c) \/ CallFails(c) \/ Crash
      BY <1>0, <3>6 DEF Publish, CallFails, Crash, Idle, TypeOK
    <3>7. QED
      BY <3>1, <3>2, <3>3, <3>4, <3>5, <3>6
  <2>3. QED
    BY <2>1, <2>2 DEF RaisersOnly
<1>3. HookDecision'
  <2>1. \A i \in DOMAIN incidents : i \in DOMAIN incidents' /\ incidents'[i].key = incidents[i].key
    <3>1. CASE OpenIncident
      <4>1. [key |-> Held.key, open |-> TRUE, noted |-> FALSE] \in Incident
        BY <1>0, <3>1, RowTypes DEF OpenIncident, Held, TypeOK, Incident, Alert
      <4>2. QED
        BY <1>0, <3>1, <4>1, AppendRow DEF OpenIncident, TypeOK
    <3>2. ASSUME NEW i \in DOMAIN incidents, NEW e \in {[incidents[i] EXCEPT !.open = FALSE],
                                                        [incidents[i] EXCEPT !.noted = TRUE]},
                 incidents' = [incidents EXCEPT ![i] = e]
          PROVE  \A j \in DOMAIN incidents : /\ j \in DOMAIN incidents'
                                             /\ incidents'[j].key = incidents[j].key
      <4>1. e.key = incidents[i].key
        BY <1>0, <3>2, RowTypes, RowUpdate
      <4>2. QED
        BY <3>2, <4>1
    <3>3. CASE CloseIncident
      <4>1. CASE UNCHANGED incidents
        BY <4>1
      <4>2. ASSUME NEW i \in hook.todo, incidents' = [incidents EXCEPT ![i].open = FALSE]
            PROVE  \A j \in DOMAIN incidents : /\ j \in DOMAIN incidents'
                                               /\ incidents'[j].key = incidents[j].key
        <5>1. i \in DOMAIN incidents
          BY <1>0, <3>3 DEF CloseIncident, TypeOK
        <5>2. QED
          BY <3>2, <4>2, <5>1
      <4>3. QED
        BY <3>3, <4>1, <4>2 DEF CloseIncident
    <3>4. CASE \E i \in DOMAIN incidents : Annotate(i)
      <4>1. PICK i \in DOMAIN incidents : Annotate(i)
        BY <3>4
      <4>2. QED
        BY <3>2, <4>1 DEF Annotate
    <3>5. CASE UNCHANGED incidents
      BY <3>5
    <3>6. QED
      BY <3>1, <3>3, <3>4, <3>5
         DEF Next, vars, Tick, Raise, CallerStep, IsDuplicate, Insert, Fetch, Publish, CallFails,
             Acknowledge, HookStep, Subscribe, Get, Dispatch, Select, HookFails, Crash
  <2>2. CASE UNCHANGED hook
    BY <1>0, <1>1, <2>1, <2>2 DEF HookDecision, Held, TypeOK
  <2>3. CASE Select
    <3>1. alerts' = alerts /\ incidents' = incidents /\ Held \in Alert
      BY <1>0, <2>3, RowTypes DEF Select, Held, TypeOK
    <3>2. Held.kind # "recover" => Held.kind = "raise"
      BY <3>1 DEF Alert, Kinds
    <3>3. QED
      BY <1>0, <2>3, <3>1, <3>2 DEF Select, HookDecision, Held, Waiting, OpenRows
  <2>4. CASE CloseIncident
    BY <1>0, <1>1, <2>1, <2>4 DEF CloseIncident, HookDecision, Held, Waiting, TypeOK
  <2>5. CASE Subscribe \/ Get \/ Dispatch \/ OpenIncident \/ HookFails \/ Crash
    BY <2>5 DEF Subscribe, Get, Dispatch, OpenIncident, HookFails, Crash, HookDecision, Waiting
  <2>6. QED
    BY <2>2, <2>3, <2>4, <2>5 DEF Next, vars, Tick, Raise, CallerStep, IsDuplicate, Insert, Fetch,
         Publish, CallFails, Acknowledge, HookStep, Annotate
<1>4. QED
  BY <1>2, <1>3

\* A step of a caller, a clock tick or an acknowledgement that moves no alert of
\* the key leaves the key's order and its timeline as they were.
LEMMA QuietStep ==
    ASSUME NEW k \in Keys, TypeOK, [Next]_vars, InOrder(k), TimelineIsCurrent(k),
           UNCHANGED <<queue, hook, incidents>>, AlertRows(k)' = AlertRows(k),
           \A c \in Callers : /\ HasRow(c, k)' <=> HasRow(c, k)
                              /\ HasRow(c, k) => call'[c] = call[c]
    PROVE  (InOrder(k) /\ TimelineIsCurrent(k))'
<1>1. \A i \in AlertRows(k) : alerts'[i].kind = alerts[i].kind /\ alerts'[i].ts = alerts[i].ts
  BY AlertsKept, RowIds
<1>2. \A i : (OnHook(i)' <=> OnHook(i)) /\ (OnQueue(i)' <=> OnQueue(i))
  BY DEF OnHook, OnQueue
<1>3. QueueInOrder(k)'
  BY DEF InOrder, QueueInOrder
<1>4. Closing(k)' <=> Closing(k)
  BY AlertsKept DEF Closing, Held, TypeOK
<1>5. OpenRows(k)' = OpenRows(k)
  BY DEF OpenRows
<1>6. QED
  BY <1>1, <1>2, <1>3, <1>4, <1>5, OtherKey

\* The hook, done with an alert of the key, makes it the last handled one.
LEMMA HookDone ==
    ASSUME NEW k \in Keys, TypeOK, InOrder(k), OnHook(hook.alert), Held.key = k,
           hook' = Waiting, UNCHANGED <<alerts, queue, call>>
    PROVE  /\ InOrder(k)' /\ ~Closing(k)'
           /\ LastHandledIsRaise(k)' <=> Held.kind = "raise"
<1> DEFINE h == hook.alert
<1>1. h \in AlertRows(k) /\ AlertRows(k)' = AlertRows(k) /\ AlertRows(k) \subseteq Nat
  BY RowIds DEF AlertRows, TypeOK, OnHook, Held
<1>2. \A i : ~OnHook(i)' /\ (OnQueue(i)' <=> OnQueue(i)) /\ (Newest(k, i)' <=> Newest(k, i))
  BY <1>1 DEF OnHook, OnQueue, Waiting, Newest
<1>3. \A c \in Callers : HasRow(c, k)' <=> HasRow(c, k)
  BY DEF HasRow
<1>4. ~OnQueue(h)
  BY <1>1 DEF InOrder, HookIsAhead
<1>5. ~(Newest(k, h) /\ \E c \in Callers : HasRow(c, k))
  BY <1>1 DEF InOrder, CallerHasNewest, Newest
<1>6. Underway(k)' = Underway(k) \ {h} /\ h \in Underway(k)
  BY <1>1, <1>2, <1>3, <1>4, <1>5 DEF Underway, OnHook
<1>7. Handled(k)' = Handled(k) \cup {h}
  BY <1>1, <1>6 DEF Handled
<1>8. CallerHasNewest(k)'
  BY <1>2, <1>3, <1>1 DEF InOrder, CallerHasNewest
<1>9. QueueInOrder(k)' /\ HookIsAhead(k)'
  BY <1>1, <1>2 DEF InOrder, QueueInOrder, HookIsAhead
<1>10. \A j \in Underway(k)' : h < j
  <2>1. ASSUME NEW j \in Underway(k)' PROVE h < j
    <3>1. j \in AlertRows(k) /\ j # h /\ (OnQueue(j) \/ (Newest(k, j) /\ \E c \in Callers : HasRow(c, k)))
      BY <1>1, <1>2, <1>3, <1>6, <2>1 DEF Underway
    <3>2. CASE OnQueue(j)
      BY <1>1, <3>1, <3>2 DEF InOrder, HookIsAhead
    <3>3. CASE Newest(k, j)
      BY <1>1, <3>1, <3>3 DEF Newest
    <3>4. QED
      BY <3>1, <3>2, <3>3
  <2>2. QED
    BY <2>1
<1>11. HandledFirst(k)'
  BY <1>6, <1>7, <1>10 DEF InOrder, HandledFirst
<1>12. \A i \in Handled(k) : i < h
  BY <1>6 DEF InOrder, HandledFirst
<1>13. LastHandledIsRaise(k)' <=> alerts[h].kind = "raise"
  <2>1. \A i \in Handled(k) : i \in Nat
    BY <1>1, RowIds
  <2>2. \A i \in Handled(k)' : (\A j \in Handled(k)' : j <= i) <=> i = h
    BY <1>1, <1>7, <1>12, <2>1
  <2>3. QED
    BY <1>7, <2>2 DEF LastHandledIsRaise
<1>14. QED
  BY <1>8, <1>9, <1>11, <1>13 DEF InOrder, Closing, Waiting, Held

\* What a caller's step does to a key that one task raises.
LEMMA CallerKeepsOrder ==
    ASSUME TrackInv, [Next]_vars, NEW k \in Keys, Tracked(k), Tracked(k)', NEW c \in Callers,
           CallerStep(c) \/ CallFails(c)
    PROVE  (InOrder(k) /\ TimelineIsCurrent(k))'
<1>0. /\ TypeOK /\ RaisersOnly /\ HookDecision /\ InOrder(k) /\ TimelineIsCurrent(k)
      /\ SoleRaiser(k) /\ AlertRows(k) \subseteq DOMAIN alerts /\ DOMAIN alerts \subseteq Nat
  BY RowIds DEF TrackInv, RoleInv, Tracked
<1>1. \A d \in Callers : HasRow(d, k) => d \in Raisers[k]
  BY <1>0 DEF HasRow, RaisersOnly
<1>2. CASE IsDuplicate(c)
  <2>1. \A d \in Callers : (HasRow(d, k)' <=> HasRow(d, k)) /\ (HasRow(d, k) => call'[d] = call[d])
    BY <1>0, <1>2 DEF IsDuplicate, HasRow, Idle, TypeOK
  <2>2. QED
    BY <1>0, <1>2, <2>1, QuietStep DEF IsDuplicate, AlertRows
<1>3. CASE CallFails(c)
  <2>1. \A d \in Callers : (HasRow(d, k)' <=> HasRow(d, k)) /\ (HasRow(d, k) => call'[d] = call[d])
    BY <1>0, <1>3 DEF CallFails, HasRow, Idle, TypeOK, Tracked
  <2>2. QED
    BY <1>0, <1>3, <2>1, QuietStep DEF CallFails, AlertRows
<1>4. CASE Insert(c)
  <2> DEFINE n == Len(alerts) + 1
  <2>1. PICK ts \in call[c].at..now :
             /\ alerts' = Append(alerts, [key |-> call[c].key, kind |-> call[c].kind,
                                          ts |-> ts, acked |-> FALSE, by |-> c])
             /\ call' = [call EXCEPT ![c] = [pc |-> "fetch", key |-> call[c].key,
                                             kind |-> call[c].kind, at |-> ts]]
    BY <1>0, <1>4 DEF Insert, TypeOK
  <2>2. /\ DOMAIN alerts' = DOMAIN alerts \cup {n}
        /\ n \notin DOMAIN alerts /\ n \in Nat
        /\ \A i \in DOMAIN alerts : alerts'[i] = alerts[i] /\ i < n
        /\ alerts'[n].key = call[c].key /\ alerts'[n].ts = ts
    BY <1>0, <2>1, AppendProperties, LenProperties DEF TypeOK
  <2>3. \A d \in Callers \ {c} : call'[d] = call[d] /\ (HasRow(d, k)' <=> HasRow(d, k))
    BY <1>0, <2>1, <2>2 DEF HasRow, TypeOK
  <2>4. call[c].pc = "insert" /\ ~HasRow(c, k) /\ (HasRow(c, k)' <=> call[c].key = k)
    BY <1>0, <1>4, <2>1 DEF Insert, HasRow, TypeOK
  <2>5. CASE call[c].key # k
    <3>1. AlertRows(k)' = AlertRows(k)
      BY <2>2, <2>5 DEF AlertRows
    <3>2. QED
      BY <1>0, <1>4, <2>3, <2>4, <2>5, <3>1, QuietStep DEF Insert
  <2>6. CASE call[c].key = k
    <3>1. AlertRows(k)' = AlertRows(k) \cup {n}
      BY <2>2, <2>6 DEF AlertRows
    <3>2. \A d \in Callers : ~HasRow(d, k) /\ (HasRow(d, k)' <=> d = c)
      BY <1>0, <1>1, <2>3, <2>4, <2>6 DEF SoleRaiser, RaisersOnly
    <3>3. \A i : Newest(k, i)' <=> i = n
      BY <1>0, <2>2, <3>1 DEF Newest
    <3>4. /\ \A i : (OnHook(i)' <=> OnHook(i)) /\ (OnQueue(i)' <=> OnQueue(i))
          /\ ~OnHook(n) /\ ~OnQueue(n)
      BY <1>0, <1>4, <2>2, RowTypes DEF Insert, OnHook, OnQueue, TypeOK
    <3>5. Underway(k)' = Underway(k) \cup {n}
      BY <3>1, <3>2, <3>3, <3>4 DEF Underway
    <3>6. Handled(k)' = Handled(k)
      BY <1>0, <2>2, <3>1, <3>5 DEF Handled
    <3>7. CallerHasNewest(k)'
      BY <2>1, <2>2, <3>1, <3>2, <3>3, <3>4, <1>0 DEF CallerHasNewest, TypeOK
    <3>8. QueueInOrder(k)' /\ HookIsAhead(k)'
      BY <1>0, <1>4, <2>2, <3>1, <3>4, RowTypes DEF InOrder, QueueInOrder, HookIsAhead, Insert
    <3>9. HandledFirst(k)'
      BY <1>0, <2>2, <3>5, <3>6, RowIds DEF InOrder, HandledFirst
    <3>10. LastHandledIsRaise(k)' <=> LastHandledIsRaise(k)
      BY <1>0, <2>2, <3>6, RowIds DEF LastHandledIsRaise
    <3>11. TimelineIsCurrent(k)'
      BY <1>0, <1>4, <2>2, <3>10 DEF TimelineIsCurrent, Insert, Closing, Held, OpenRows, TypeOK
    <3>12. QED
      BY <3>7, <3>8, <3>9, <3>11 DEF InOrder
  <2>7. QED
    BY <2>5, <2>6
<1>5. CASE Fetch(c)
  <2>1. PICK r \in AlertRows(call[c].key) :
             /\ alerts[r].ts = call[c].at
             /\ \A j \in AlertRows(call[c].key) : alerts[j].ts = call[c].at => j <= r
             /\ call' = [call EXCEPT ![c] = [pc |-> "publish", row |-> r]]
    BY <1>5 DEF Fetch
  <2>2. UNCHANGED <<alerts, queue, hook, incidents>> /\ call[c].pc = "fetch"
    BY <1>5 DEF Fetch
  <2>3. \A d \in Callers \ {c} : call'[d] = call[d] /\ (HasRow(d, k)' <=> HasRow(d, k))
    BY <1>0, <2>1, <2>2 DEF HasRow, TypeOK
  <2>4. call'[c] = [pc |-> "publish", row |-> r]
        /\ (HasRow(c, k)' <=> call[c].key = k) /\ (HasRow(c, k) <=> call[c].key = k)
    BY <1>0, <2>1, <2>2 DEF HasRow, AlertRows, TypeOK
  <2>5. CASE call[c].key # k
    BY <1>0, <2>2, <2>3, <2>4, <2>5, QuietStep DEF AlertRows
  <2>6. CASE call[c].key = k
    <3>1. \A d \in Callers : (HasRow(d, k)' <=> d = c) /\ (HasRow(d, k) <=> d = c)
      BY <1>0, <1>1, <2>3, <2>4, <2>6 DEF SoleRaiser
    <3>2. \A i : /\ Newest(k, i)' <=> Newest(k, i)
                 /\ (OnHook(i)' <=> OnHook(i)) /\ (OnQueue(i)' <=> OnQueue(i))
      BY <2>2 DEF Newest, AlertRows, OnHook, OnQueue
    <3>3. PICK i \in AlertRows(k) : Newest(k, i) /\ ~OnQueue(i) /\ ~OnHook(i)
                                    /\ alerts[i].ts = call[c].at
      BY <1>0, <2>2, <3>1 DEF InOrder, CallerHasNewest
    <3>4. i = r
      BY <1>0, <2>1, <2>6, <3>3 DEF Newest
    <3>5. AlertRows(k)' = AlertRows(k) /\ OpenRows(k)' = OpenRows(k)
          /\ (Closing(k)' <=> Closing(k))
      BY <2>2 DEF AlertRows, OpenRows, Closing, Held
    <3>6. Underway(k)' = Underway(k) /\ Handled(k)' = Handled(k)
      BY <3>1, <3>2, <3>5 DEF Underway, Handled
    <3>7. CallerHasNewest(k)'
      BY <2>4, <3>1, <3>2, <3>3, <3>4, <3>5 DEF CallerHasNewest
    <3>8. QueueInOrder(k)' /\ HookIsAhead(k)' /\ HandledFirst(k)'
      BY <1>0, <2>2, <3>2, <3>5, <3>6 DEF InOrder, QueueInOrder, HookIsAhead, HandledFirst
    <3>9. TimelineIsCurrent(k)'
      BY <1>0, <2>2, <3>5, <3>6 DEF TimelineIsCurrent, LastHandledIsRaise
    <3>10. QED
      BY <3>7, <3>8, <3>9 DEF InOrder
  <2>7. QED
    BY <2>5, <2>6
<1>6. CASE Publish(c)
  <2> DEFINE r == call[c].row
  <2>1. /\ UNCHANGED <<alerts, hook, incidents>> /\ call[c].pc = "publish"
        /\ call' = [call EXCEPT ![c] = Idle] /\ r \in DOMAIN alerts
        /\ \/ queue' = queue /\ alerts[r].key \in missed'
           \/ queue' = Append(queue, r)
    BY <1>0, <1>6 DEF Publish, TypeOK
  <2>2. \A d \in Callers \ {c} : call'[d] = call[d] /\ (HasRow(d, k)' <=> HasRow(d, k))
    BY <1>0, <2>1 DEF HasRow, TypeOK
  <2>3. ~HasRow(c, k)' /\ (HasRow(c, k) <=> alerts[r].key = k)
    BY <1>0, <2>1 DEF HasRow, TypeOK, Idle
  <2>4. AlertRows(k)' = AlertRows(k) /\ OpenRows(k)' = OpenRows(k) /\ (Closing(k)' <=> Closing(k))
        /\ \A i : (OnHook(i)' <=> OnHook(i)) /\ (Newest(k, i)' <=> Newest(k, i))
    BY <2>1 DEF AlertRows, OpenRows, Closing, Held, OnHook, Newest
  <2>5. CASE queue' = queue
    <3>1. alerts[r].key # k
      BY <2>1, <2>5 DEF Tracked, Publish
    <3>2. QED
      BY <1>0, <2>1, <2>2, <2>3, <2>4, <2>5, <3>1, QuietStep
  <2>6. CASE queue' = Append(queue, r)
    <3> DEFINE m == Len(queue) + 1
    <3>1. /\ DOMAIN queue' = DOMAIN queue \cup {m} /\ m \notin DOMAIN queue
          /\ \A p \in DOMAIN queue : queue'[p] = queue[p] /\ p < m /\ p \in Nat
          /\ queue'[m] = r /\ m \in Nat
      BY <1>0, <2>1, <2>6, AppendProperties, LenProperties DEF TypeOK
    <3>2. \A i : OnQueue(i)' <=> OnQueue(i) \/ i = r
      BY <3>1 DEF OnQueue
    <3>3. CASE alerts[r].key # k
      <4>1. r \notin AlertRows(k)
        BY <3>3 DEF AlertRows
      <4>2. \A i \in AlertRows(k) : OnQueue(i)' <=> OnQueue(i)
        BY <3>2, <4>1
      <4>3. QueueInOrder(k)'
        BY <1>0, <2>4, <3>1, <4>1 DEF InOrder, QueueInOrder
      <4>4. QED
        BY <1>0, <2>1, <2>2, <2>3, <2>4, <3>3, <4>2, <4>3, OtherKey
    <3>4. CASE alerts[r].key = k
      <4>1. \A d \in Callers : ~HasRow(d, k)' /\ (HasRow(d, k) <=> d = c)
        BY <1>0, <1>1, <2>2, <2>3, <3>4 DEF SoleRaiser
      <4>2. Newest(k, r) /\ ~OnQueue(r) /\ ~OnHook(r)
        BY <1>0, <2>1, <4>1 DEF InOrder, CallerHasNewest
      <4>3. \A i : Newest(k, i) <=> i = r
        BY <1>0, <4>2 DEF Newest
      <4>4. Underway(k)' = Underway(k) /\ Handled(k)' = Handled(k)
        BY <2>4, <3>2, <4>1, <4>2, <4>3 DEF Underway, Handled
      <4>5. \A i \in AlertRows(k) : OnQueue(i) \/ OnHook(i) => i < r
        BY <1>0, <4>2 DEF Newest
      <4>6. QueueInOrder(k)'
        BY <1>0, <2>4, <3>1, <4>5 DEF InOrder, QueueInOrder, OnQueue
      <4>7. HookIsAhead(k)'
        BY <1>0, <2>4, <3>2, <4>5 DEF InOrder, HookIsAhead
      <4>8. CallerHasNewest(k)' /\ HandledFirst(k)'
        BY <1>0, <4>1, <4>4 DEF InOrder, CallerHasNewest, HandledFirst
      <4>9. TimelineIsCurrent(k)'
        BY <1>0, <2>1, <2>4, <4>4 DEF TimelineIsCurrent, LastHandledIsRaise
      <4>10. QED
        BY <4>6, <4>7, <4>8, <4>9 DEF InOrder
    <3>5. QED
      BY <3>3, <3>4
  <2>7. QED
    BY <2>1, <2>5, <2>6
<1>7. QED
  BY <1>2, <1>3, <1>4, <1>5, <1>6 DEF CallerStep

\* What a step of the hook does to a key that one task raises.
LEMMA HookKeepsOrder ==
    ASSUME TrackInv, [Next]_vars, NEW k \in Keys, Tracked(k), Tracked(k)',
           HookStep \/ HookFails
    PROVE  (InOrder(k) /\ TimelineIsCurrent(k))'
<1>0. /\ TypeOK /\ RaisersOnly /\ HookDecision /\ InOrder(k) /\ TimelineIsCurrent(k) /\ InsertIsSafe
      /\ AlertRows(k) \subseteq DOMAIN alerts /\ DOMAIN alerts \subseteq Nat
  BY RowIds DEF TrackInv, RoleInv
<1>1. /\ UNCHANGED <<alerts, call>> /\ AlertRows(k)' = AlertRows(k)
      /\ \A c \in Callers : (HasRow(c, k)' <=> HasRow(c, k)) /\ call'[c] = call[c]
      /\ \A i : Newest(k, i)' <=> Newest(k, i)
  BY DEF HookStep, HookFails, Subscribe, Get, Dispatch, Select, OpenIncident, CloseIncident,
         AlertRows, HasRow, Newest
<1>2. ASSUME UNCHANGED <<queue, incidents>>, Closing(k)' <=> Closing(k),
             Closing(k) => hook'.todo = hook.todo,
             \A i \in AlertRows(k) : OnHook(i)' <=> OnHook(i)
      PROVE  (InOrder(k) /\ TimelineIsCurrent(k))'
  <2>1. QueueInOrder(k)' /\ OpenRows(k)' = OpenRows(k) /\ \A i : OnQueue(i)' <=> OnQueue(i)
    BY <1>0, <1>1, <1>2 DEF InOrder, QueueInOrder, OpenRows, OnQueue
  <2>2. QED
    BY <1>0, <1>1, <1>2, <2>1, OtherKey
<1>3. CASE Subscribe
  BY <1>2, <1>3 DEF Subscribe, Waiting, OnHook, Closing
<1>4. CASE Get
  <2> DEFINE h == Head(queue)
  <2>1. /\ h \in DOMAIN alerts /\ 1 \in DOMAIN queue /\ h = queue[1]
        /\ \A p \in DOMAIN queue' : p + 1 \in DOMAIN queue /\ queue'[p] = queue[p + 1]
        /\ \A p \in DOMAIN queue : p = 1 \/ (p - 1 \in DOMAIN queue' /\ queue'[p - 1] = queue[p])
        /\ DOMAIN queue \subseteq Nat \ {0} /\ DOMAIN queue' \subseteq Nat \ {0}
    BY <1>0, <1>4, HeadTailProperties, LenProperties DEF Get, TypeOK
  <2>2. /\ hook.pc = "get" /\ hook'.pc = "dispatch" /\ hook'.alert = h /\ incidents' = incidents
    BY <1>4 DEF Get
  <2>3. \A i : (OnQueue(i)' \/ i = h) <=> OnQueue(i)
    <3>1. ASSUME NEW i, OnQueue(i)' PROVE OnQueue(i)
      BY <2>1, <3>1 DEF OnQueue
    <3>2. ASSUME NEW i, OnQueue(i), i # h PROVE OnQueue(i)'
      <4>1. PICK p \in DOMAIN queue : queue[p] = i
        BY <3>2 DEF OnQueue
      <4>2. p - 1 \in DOMAIN queue' /\ queue'[p - 1] = i
        BY <2>1, <3>2, <4>1
      <4>3. QED
        BY <4>2 DEF OnQueue
    <3>3. OnQueue(h)
      BY <2>1 DEF OnQueue
    <3>4. QED
      BY <3>1, <3>2, <3>3
  <2>4. \A i : ~OnHook(i) /\ (OnHook(i)' <=> i = h)
    BY <2>2 DEF OnHook
  <2>5. ~Closing(k) /\ ~Closing(k)' /\ OpenRows(k)' = OpenRows(k)
    BY <2>2 DEF Closing, OpenRows
  <2>6. QueueInOrder(k)'
    <3>1. ASSUME NEW p \in DOMAIN queue', NEW q \in DOMAIN queue', p < q,
                 queue'[p] \in AlertRows(k), queue'[q] \in AlertRows(k)
          PROVE  queue'[p] < queue'[q]
      <4>1. p + 1 < q + 1 /\ p + 1 \in DOMAIN queue /\ q + 1 \in DOMAIN queue
            /\ queue'[p] = queue[p + 1] /\ queue'[q] = queue[q + 1]
        BY <2>1, <3>1
      <4>2. QED
        BY <1>0, <3>1, <4>1 DEF InOrder, QueueInOrder
    <3>2. QED
      BY <1>1, <3>1 DEF QueueInOrder
  <2>7. CASE h \notin AlertRows(k)
    <3>1. \A i \in AlertRows(k) : (OnHook(i)' <=> OnHook(i)) /\ (OnQueue(i)' <=> OnQueue(i))
      BY <2>3, <2>4, <2>7
    <3>2. QED
      BY <1>0, <1>1, <2>5, <2>6, <3>1, OtherKey
  <2>8. CASE h \in AlertRows(k)
    <3>1. \A i \in AlertRows(k) : OnQueue(i)' => h < i
      <4>1. ASSUME NEW i \in AlertRows(k), OnQueue(i)' PROVE h < i
        <5>1. PICK p \in DOMAIN queue' : queue'[p] = i
          BY <4>1 DEF OnQueue
        <5>2. p + 1 \in DOMAIN queue /\ queue[p + 1] = i /\ 1 < p + 1
          BY <2>1, <5>1
        <5>3. QED
          BY <1>0, <2>1, <2>8, <4>1, <5>2 DEF InOrder, QueueInOrder
      <4>2. QED
        BY <4>1
    <3>2. Underway(k)' = Underway(k) /\ Handled(k)' = Handled(k)
      BY <1>1, <2>3, <2>4 DEF Underway, Handled
    <3>3. CallerHasNewest(k)'
      BY <1>0, <1>1, <2>3, <2>4 DEF InOrder, CallerHasNewest
    <3>4. HookIsAhead(k)' /\ HandledFirst(k)'
      BY <1>0, <1>1, <2>4, <3>1, <3>2 DEF InOrder, HookIsAhead, HandledFirst
    <3>5. TimelineIsCurrent(k)'
      BY <1>0, <1>1, <2>5, <3>2 DEF TimelineIsCurrent, LastHandledIsRaise
    <3>6. QED
      BY <2>6, <3>3, <3>4, <3>5 DEF InOrder
  <2>9. QED
    BY <2>7, <2>8
<1>5. CASE Dispatch
  BY <1>2, <1>5 DEF Dispatch, OnHook, Closing
<1>6. CASE HookFails
  <2>1. Held.key # k
    BY <1>6 DEF HookFails, Tracked
  <2>2. \A i \in AlertRows(k) : ~OnHook(i) /\ ~OnHook(i)'
    BY <1>6, <2>1 DEF HookFails, OnHook, Waiting, AlertRows, Held
  <2>3. ~Closing(k) /\ ~Closing(k)'
    BY <1>6, <2>1 DEF HookFails, Closing, Waiting
  <2>4. QED
    BY <1>2, <1>6, <2>2, <2>3 DEF HookFails
<1>7. ASSUME Select \/ OpenIncident \/ CloseIncident, Held.key # k
      PROVE  (InOrder(k) /\ TimelineIsCurrent(k))'
  <2>1. hook'.pc \in {"get", "insert", "update"} /\ (hook'.pc # "get" => hook'.alert = hook.alert)
        /\ hook.pc \notin {"down", "get"}
    BY <1>7 DEF Select, OpenIncident, CloseIncident, Waiting
  <2>2. \A i \in AlertRows(k) : ~OnHook(i) /\ ~OnHook(i)'
    BY <1>7, <2>1 DEF OnHook, AlertRows, Held
  <2>3. ~Closing(k) /\ ~Closing(k)'
    BY <1>1, <1>7, <2>1 DEF Closing, Held
  <2>4. CASE Select
    BY <1>2, <2>2, <2>3, <2>4 DEF Select
  <2>5. queue' = queue
    BY <1>7 DEF Select, OpenIncident, CloseIncident
  <2>6. ASSUME OpenRows(k)' = OpenRows(k) PROVE (InOrder(k) /\ TimelineIsCurrent(k))'
    <3>1. QueueInOrder(k)' /\ \A i : OnQueue(i)' <=> OnQueue(i)
      BY <1>0, <1>1, <2>5 DEF InOrder, QueueInOrder, OnQueue
    <3>2. QED
      BY <1>0, <1>1, <2>2, <2>3, <2>6, <3>1, OtherKey
  <2>7. CASE OpenIncident
    <3>1. [key |-> Held.key, open |-> TRUE, noted |-> FALSE] \in Incident
      BY <1>0, <2>7, RowTypes DEF OpenIncident, Held, TypeOK, Incident, Alert
    <3>2. OpenRows(k)' = OpenRows(k)
      BY <1>0, <1>7, <2>7, <3>1, AppendRow DEF OpenIncident, TypeOK, OpenRows
    <3>3. QED
      BY <2>6, <3>2
  <2>8. CASE CloseIncident
    <3>1. CASE incidents' = incidents
      BY <2>6, <3>1 DEF OpenRows
    <3>2. ASSUME NEW i \in hook.todo, incidents' = [incidents EXCEPT ![i].open = FALSE]
          PROVE  OpenRows(k)' = OpenRows(k)
      <4>1. i \in DOMAIN incidents /\ incidents[i].key # k
        BY <1>0, <1>7, <2>8 DEF CloseIncident, TypeOK, HookDecision
      <4>2. /\ DOMAIN incidents' = DOMAIN incidents
            /\ \A j \in DOMAIN incidents : incidents'[j] =
                 IF j = i THEN [incidents[i] EXCEPT !.open = FALSE] ELSE incidents[j]
        BY <3>2, <4>1
      <4>3. [incidents[i] EXCEPT !.open = FALSE].key = incidents[i].key
        BY <1>0, <4>1, RowTypes, RowUpdate
      <4>4. QED
        BY <4>1, <4>2, <4>3 DEF OpenRows
    <3>3. QED
      BY <2>6, <2>8, <3>1, <3>2 DEF CloseIncident
  <2>9. QED
    BY <1>7, <2>4, <2>7, <2>8
<1>8. ASSUME Select \/ OpenIncident \/ CloseIncident, Held.key = k
      PROVE  (InOrder(k) /\ TimelineIsCurrent(k))'
  <2>1. OnHook(hook.alert) /\ hook.alert \in AlertRows(k) /\ queue' = queue
    BY <1>0, <1>8 DEF Select, OpenIncident, CloseIncident, OnHook, AlertRows, TypeOK, Held
  <2>2. Held.kind # "recover" => Held.kind = "raise"
    BY <1>0, <2>1, RowTypes DEF Held, Alert, Kinds
  <2>3. CASE hook' = Waiting
    <3>1. InOrder(k)' /\ ~Closing(k)' /\ (LastHandledIsRaise(k)' <=> Held.kind = "raise")
      BY <1>0, <1>1, <1>8, <2>1, <2>3, HookDone
    <3>2. OpenRows(k)' # {} <=> Held.kind = "raise"
      <4>1. CASE Select
        BY <1>8, <2>2, <2>3, <4>1 DEF Select, OpenRows, Waiting
      <4>2. CASE OpenIncident
        <5>1. [key |-> Held.key, open |-> TRUE, noted |-> FALSE] \in Incident
          BY <1>0, <4>2, RowTypes DEF OpenIncident, Held, TypeOK, Incident, Alert
        <5>2. Len(incidents) + 1 \in OpenRows(k)'
          BY <1>0, <1>8, <4>2, <5>1, AppendRow DEF OpenIncident, TypeOK, OpenRows
        <5>3. QED
          BY <1>0, <4>2, <5>2 DEF OpenIncident, HookDecision
      <4>3. CASE CloseIncident
        <5>1. hook.todo = {} /\ incidents' = incidents /\ hook.pc = "update"
          BY <2>3, <4>3 DEF CloseIncident, Waiting
        <5>2. OpenRows(k)' = {}
          BY <1>0, <1>8, <5>1 DEF TimelineIsCurrent, Closing, OpenRows
        <5>3. QED
          BY <1>0, <5>1, <5>2 DEF HookDecision
      <4>4. QED
        BY <1>8, <4>1, <4>2, <4>3
    <3>3. QED
      BY <3>1, <3>2 DEF TimelineIsCurrent
  <2>4. CASE hook' # Waiting
    <3>1. hook'.pc \in {"insert", "update"} /\ hook'.alert = hook.alert /\ hook.pc \in {"select", "update"}
      BY <1>8, <2>4 DEF Select, OpenIncident, CloseIncident
    <3>2. \A i : (OnHook(i)' <=> OnHook(i)) /\ (OnQueue(i)' <=> OnQueue(i))
      BY <2>1, <3>1 DEF OnHook, OnQueue
    <3>3. Underway(k)' = Underway(k) /\ Handled(k)' = Handled(k)
      BY <1>1, <3>2 DEF Underway, Handled
    <3>4. InOrder(k)'
      BY <1>0, <1>1, <2>1, <3>2, <3>3
         DEF InOrder, CallerHasNewest, QueueInOrder, HookIsAhead, HandledFirst
    <3>5. Closing(k)' <=> hook'.pc = "update"
      BY <1>1, <1>8, <3>1 DEF Closing, Held
    <3>6. LastHandledIsRaise(k)' <=> LastHandledIsRaise(k)
      BY <1>1, <3>3 DEF LastHandledIsRaise
    <3>7. TimelineIsCurrent(k)'
      <4>1. CASE Select /\ hook'.pc = "update"
        BY <1>8, <2>4, <3>5, <4>1 DEF Select, TimelineIsCurrent, OpenRows
      <4>2. CASE Select /\ hook'.pc = "insert"
        BY <1>0, <3>5, <3>6, <4>2 DEF Select, TimelineIsCurrent, OpenRows, Closing
      <4>3. CASE CloseIncident
        <5>1. PICK i \in hook.todo :
                 /\ incidents' = [incidents EXCEPT ![i].open = FALSE]
                 /\ hook' = [pc |-> "update", alert |-> hook.alert, todo |-> hook.todo \ {i}]
          BY <2>4, <4>3 DEF CloseIncident
        <5>2. i \in DOMAIN incidents /\ OpenRows(k) \subseteq hook.todo
          BY <1>0, <1>8, <4>3 DEF CloseIncident, TypeOK, TimelineIsCurrent, Closing
        <5>3. /\ DOMAIN incidents' = DOMAIN incidents
              /\ \A j \in DOMAIN incidents : incidents'[j] =
                   IF j = i THEN [incidents[i] EXCEPT !.open = FALSE] ELSE incidents[j]
          BY <5>1, <5>2
        <5>4. ~[incidents[i] EXCEPT !.open = FALSE].open
          BY <1>0, <5>2, RowTypes, RowUpdate
        <5>5. OpenRows(k)' \subseteq OpenRows(k) \ {i}
          BY <5>3, <5>4 DEF OpenRows
        <5>6. QED
          BY <3>5, <5>1, <5>2, <5>5 DEF TimelineIsCurrent
      <4>4. QED
        BY <1>8, <2>4, <3>1, <4>1, <4>2, <4>3 DEF OpenIncident
    <3>8. QED
      BY <3>4, <3>7
  <2>5. QED
    BY <2>3, <2>4
<1>9. QED
  BY <1>3, <1>4, <1>5, <1>6, <1>7, <1>8 DEF HookStep

\* Every other step: the clock, a new caller, operators, a restart.
LEMMA OtherKeepsOrder ==
    ASSUME TrackInv, [Next]_vars, NEW k \in Keys, Tracked(k), Tracked(k)',
           ~HookStep, ~HookFails, \A c \in Callers : ~CallerStep(c) /\ ~CallFails(c)
    PROVE  (InOrder(k) /\ TimelineIsCurrent(k))'
<1>0. TypeOK /\ InOrder(k) /\ TimelineIsCurrent(k)
  BY DEF TrackInv, RoleInv
<1>1. AlertRows(k)' = AlertRows(k)
      /\ \A i \in DOMAIN alerts : /\ alerts'[i].key = alerts[i].key /\ alerts'[i].kind = alerts[i].kind
                                  /\ alerts'[i].ts = alerts[i].ts
  BY <1>0, AlertsKept DEF CallerStep
<1>2. CASE UNCHANGED <<queue, hook, incidents, call>>
  <2>1. \A c \in Callers : HasRow(c, k)' <=> HasRow(c, k)
    BY <1>0, <1>1, <1>2 DEF HasRow, TypeOK
  <2>2. QED
    BY <1>0, <1>1, <1>2, <2>1, QuietStep
<1>3. ASSUME NEW c \in Callers, NEW k2 \in Keys, NEW kind \in Kinds, Raise(c, k2, kind)
      PROVE  (InOrder(k) /\ TimelineIsCurrent(k))'
  <2>1. \A d \in Callers : (HasRow(d, k)' <=> HasRow(d, k)) /\ (HasRow(d, k) => call'[d] = call[d])
    BY <1>0, <1>1, <1>3 DEF Raise, HasRow, TypeOK
  <2>2. QED
    BY <1>0, <1>1, <1>3, <2>1, QuietStep DEF Raise
<1>4. ASSUME NEW j \in DOMAIN incidents, Annotate(j)
      PROVE  (InOrder(k) /\ TimelineIsCurrent(k))'
  <2>1. /\ DOMAIN incidents' = DOMAIN incidents
        /\ \A i \in DOMAIN incidents : incidents'[i] =
             IF i = j THEN [incidents[j] EXCEPT !.noted = TRUE] ELSE incidents[i]
        /\ UNCHANGED <<alerts, call, queue, hook>>
    BY <1>4 DEF Annotate
  <2>2. /\ [incidents[j] EXCEPT !.noted = TRUE].key = incidents[j].key
        /\ [incidents[j] EXCEPT !.noted = TRUE].open = incidents[j].open
    BY <1>0, <1>4, RowTypes, RowUpdate
  <2>3. OpenRows(k)' = OpenRows(k)
    BY <2>1, <2>2 DEF OpenRows
  <2>4. /\ \A i : (OnHook(i)' <=> OnHook(i)) /\ (OnQueue(i)' <=> OnQueue(i))
        /\ \A c \in Callers : (HasRow(c, k)' <=> HasRow(c, k)) /\ call'[c] = call[c]
        /\ Closing(k)' <=> Closing(k)
    BY <2>1 DEF OnHook, OnQueue, HasRow, Closing, Held
  <2>5. QueueInOrder(k)'
    BY <1>0, <1>1, <2>1 DEF InOrder, QueueInOrder
  <2>6. QED
    BY <1>0, <1>1, <2>1, <2>3, <2>4, <2>5, OtherKey, RowIds
<1>5. CASE Crash
  <2>1. k \notin InFlight /\ UNCHANGED <<alerts, incidents>> /\ hook'.pc = "down"
        /\ queue' = <<>> /\ \A c \in Callers : call'[c].pc = "idle"
    BY <1>5 DEF Crash, Tracked, Idle
  <2>2. \A c \in Callers : ~HasRow(c, k) /\ ~HasRow(c, k)'
    BY <2>1 DEF InFlight, HasRow
  <2>3. \A i \in AlertRows(k) : ~OnQueue(i) /\ ~OnQueue(i)' /\ ~OnHook(i) /\ ~OnHook(i)'
    BY <2>1 DEF InFlight, OnQueue, OnHook, AlertRows, Held
  <2>4. ~Closing(k) /\ ~Closing(k)' /\ OpenRows(k)' = OpenRows(k) /\ QueueInOrder(k)'
    BY <2>1 DEF InFlight, Closing, OpenRows, QueueInOrder
  <2>5. QED
    BY <1>0, <1>1, <2>2, <2>3, <2>4, OtherKey, RowIds
<1>6. QED
  BY <1>2, <1>3, <1>4, <1>5 DEF Next, vars, Tick, Acknowledge

\* Every step keeps the order of a key's alerts and its timeline current.
LEMMA TrackStep == TrackInv /\ IncidentInv /\ [Next]_vars => TrackInv'
<1> SUFFICES ASSUME TrackInv, IncidentInv, [Next]_vars PROVE TrackInv'
  OBVIOUS
<1>1. RoleInv' /\ InsertIsSafe'
  BY RoleStep, IncidentStep DEF TrackInv, IncidentInv
<1>2. missed \subseteq missed'
  BY DEF Next, vars, Tick, Raise, CallerStep, IsDuplicate, Insert, Fetch, Publish, CallFails,
         Acknowledge, HookStep, Subscribe, Get, Dispatch, Select, OpenIncident, CloseIncident,
         HookFails, Annotate, Crash
<1>3. ASSUME NEW k \in Keys, Tracked(k)' PROVE (InOrder(k) /\ TimelineIsCurrent(k))'
  <2>1. Tracked(k)
    BY <1>2, <1>3 DEF Tracked, SoleRaiser
  <2>2. QED
    BY <1>3, <2>1, CallerKeepsOrder, HookKeepsOrder, OtherKeepsOrder
<1>4. QED
  BY <1>1, <1>3 DEF TrackInv

(***************************************************************************)
(* A key nobody reports a recovery of may have several raisers, which swap *)
(* their alerts; its incident, once open, stays open.  The inductive       *)
(* invariant says that all its alerts are raises, that an open incident    *)
(* comes from an alert, and that an alert not lost has either opened the   *)
(* incident or is still underway somewhere.                                *)
(***************************************************************************)
Pending(k) ==
    \/ \E c \in Callers : HasRow(c, k)
    \/ \E i \in AlertRows(k) : OnQueue(i) \/ OnHook(i)

OnlyRaises(k) ==
    /\ \A i \in AlertRows(k) : alerts[i].kind = "raise"
    /\ \A c \in Callers :
         call[c].pc \in {"check", "insert"} /\ call[c].key = k => call[c].kind = "raise"

RaisedIsOpen(k) ==
    /\ AlertRows(k) # {} => \E i : Newest(k, i)
    /\ OpenRows(k) # {} => AlertRows(k) # {}
    /\ AlertRows(k) # {} /\ k \notin missed => OpenRows(k) # {} \/ Pending(k)

RaiseInv == \A k \in Keys \ Recoverable : OnlyRaises(k) /\ RaisedIsOpen(k)

\* Nothing closes the incident of a key without recoveries.
LEMMA OpenStaysOpen ==
    ASSUME RoleInv, [Next]_vars, NEW k \in Keys, OnlyRaises(k), OpenRows(k) # {}
    PROVE  OpenRows(k)' # {}
<1>0. TypeOK /\ HookDecision
  BY DEF RoleInv
<1>1. PICK r \in DOMAIN incidents : incidents[r].key = k /\ incidents[r].open
  BY DEF OpenRows
<1>2. CASE UNCHANGED incidents
  BY <1>1, <1>2 DEF OpenRows
<1>3. CASE OpenIncident
  <2>1. [key |-> Held.key, open |-> TRUE, noted |-> FALSE] \in Incident
    BY <1>0, <1>3, RowTypes DEF OpenIncident, Held, TypeOK, Incident, Alert
  <2>2. QED
    BY <1>0, <1>1, <1>3, <2>1, AppendRow DEF OpenIncident, TypeOK, OpenRows
<1>4. CASE CloseIncident
  <2>1. CASE UNCHANGED incidents
    BY <1>2, <2>1
  <2>2. ASSUME NEW i \in hook.todo, incidents' = [incidents EXCEPT ![i].open = FALSE]
        PROVE  OpenRows(k)' # {}
    <3>1. hook.pc = "update" /\ i \in DOMAIN incidents /\ hook.alert \in DOMAIN alerts
      BY <1>0, <1>4 DEF CloseIncident, TypeOK
    <3>2. incidents[i].key = Held.key /\ Held.kind = "recover"
      BY <1>0, <3>1 DEF HookDecision
    <3>3. Held.key # k
      BY <3>1, <3>2 DEF OnlyRaises, AlertRows, Held
    <3>4. i # r
      BY <1>1, <3>2, <3>3
    <3>5. DOMAIN incidents' = DOMAIN incidents /\ incidents'[r] = incidents[r]
      BY <1>1, <2>2, <3>1, <3>4
    <3>6. QED
      BY <1>1, <3>5 DEF OpenRows
  <2>3. QED
    BY <1>4, <2>1, <2>2 DEF CloseIncident
<1>5. ASSUME NEW i \in DOMAIN incidents, Annotate(i) PROVE OpenRows(k)' # {}
  <2>1. /\ DOMAIN incidents' = DOMAIN incidents
        /\ \A j \in DOMAIN incidents : incidents'[j] =
             IF j = i THEN [incidents[i] EXCEPT !.noted = TRUE] ELSE incidents[j]
    BY <1>5 DEF Annotate
  <2>2. /\ [incidents[i] EXCEPT !.noted = TRUE].key = incidents[i].key
        /\ [incidents[i] EXCEPT !.noted = TRUE].open = incidents[i].open
    BY <1>0, <1>5, RowTypes, RowUpdate
  <2>3. QED
    BY <1>1, <2>1, <2>2 DEF OpenRows
<1>6. QED
  BY <1>2, <1>3, <1>4, <1>5
     DEF Next, vars, Tick, Raise, CallerStep, IsDuplicate, Insert, Fetch, Publish, CallFails,
         Acknowledge, HookStep, Subscribe, Get, Dispatch, Select, HookFails, Crash

\* Only the hook opens an incident, for the alert it holds.
LEMMA OpenHasAlert ==
    ASSUME RoleInv, [Next]_vars, NEW k \in Keys, OpenRows(k)' # {}, OpenRows(k) = {}
    PROVE  AlertRows(k) # {}
<1>0. TypeOK
  BY DEF RoleInv
<1>1. CASE OpenIncident
  <2>1. [key |-> Held.key, open |-> TRUE, noted |-> FALSE] \in Incident
    BY <1>0, <1>1, RowTypes DEF OpenIncident, Held, TypeOK, Incident, Alert
  <2>2. Held.key = k
    BY <1>0, <1>1, <2>1, AppendRow DEF OpenIncident, TypeOK, OpenRows
  <2>3. QED
    BY <1>0, <1>1, <2>2 DEF OpenIncident, Held, AlertRows, TypeOK
<1>2. ASSUME NEW i \in DOMAIN incidents, NEW e,
             e = [incidents[i] EXCEPT !.open = FALSE] \/ e = [incidents[i] EXCEPT !.noted = TRUE],
             incidents' = [incidents EXCEPT ![i] = e]
      PROVE  FALSE
  <2>1. e.key = incidents[i].key /\ (e.open => incidents[i].open)
    BY <1>0, <1>2, RowTypes, RowUpdate
  <2>2. DOMAIN incidents' = DOMAIN incidents
        /\ \A j \in DOMAIN incidents : incidents'[j] = IF j = i THEN e ELSE incidents[j]
    BY <1>2
  <2>3. QED
    BY <2>1, <2>2 DEF OpenRows
<1>3. CASE CloseIncident
  <2>1. CASE UNCHANGED incidents
    BY <2>1 DEF OpenRows
  <2>2. ASSUME NEW i \in hook.todo, incidents' = [incidents EXCEPT ![i].open = FALSE]
        PROVE  FALSE
    <3>1. i \in DOMAIN incidents
      BY <1>0, <1>3 DEF CloseIncident, TypeOK
    <3>2. QED
      BY <1>2, <2>2, <3>1
  <2>3. QED
    BY <1>3, <2>1, <2>2 DEF CloseIncident
<1>4. ASSUME NEW i \in DOMAIN incidents, Annotate(i) PROVE FALSE
  BY <1>2, <1>4 DEF Annotate
<1>5. CASE UNCHANGED incidents
  BY <1>5 DEF OpenRows
<1>6. QED
  BY <1>1, <1>3, <1>4, <1>5
     DEF Next, vars, Tick, Raise, CallerStep, IsDuplicate, Insert, Fetch, Publish, CallFails,
         Acknowledge, HookStep, Subscribe, Get, Dispatch, Select, HookFails, Crash

\* A caller of _insert_alert stores the alert of a key without recoveries as a
\* raise, as the newest row of its key.
LEMMA InsertRaises ==
    ASSUME RoleInv, [Next]_vars, NEW k \in Keys, OnlyRaises(k), NEW c \in Callers, Insert(c)
    PROVE  /\ \A i \in AlertRows(k)' : alerts'[i].kind = "raise"
           /\ call[c].key # k => AlertRows(k)' = AlertRows(k)
           /\ call[c].key = k => (\E i : Newest(k, i)') /\ HasRow(c, k)'
<1>0. TypeOK /\ DOMAIN alerts \subseteq Nat
  BY RowIds DEF RoleInv
<1>1. PICK ts \in call[c].at..now :
        /\ alerts' = Append(alerts, [key |-> call[c].key, kind |-> call[c].kind,
                                     ts |-> ts, acked |-> FALSE, by |-> c])
        /\ call'[c] = [pc |-> "fetch", key |-> call[c].key, kind |-> call[c].kind, at |-> ts]
  BY <1>0 DEF Insert, TypeOK
<1> DEFINE row == [key |-> call[c].key, kind |-> call[c].kind, ts |-> ts, acked |-> FALSE, by |-> c]
<1>2. call[c].pc = "insert" /\ call[c].key \in Keys /\ call[c].kind \in Kinds /\ ts \in 0..MaxTime
  BY <1>0, <1>1, CallShape, PipelineAssumption DEF Insert, TypeOK
<1>3. row \in Alert /\ row.key = call[c].key /\ row.kind = call[c].kind
  BY <1>2 DEF Alert
<1> HIDE DEF row
<1>4. /\ DOMAIN alerts' = DOMAIN alerts \cup {Len(alerts) + 1} /\ Len(alerts) + 1 \notin DOMAIN alerts
      /\ \A i \in DOMAIN alerts : alerts'[i] = alerts[i]
      /\ alerts'[Len(alerts) + 1] = row
  BY <1>0, <1>1, <1>3, AppendRow DEF row, TypeOK
<1>5. \A i \in AlertRows(k)' : alerts'[i].kind = "raise"
  BY <1>2, <1>3, <1>4 DEF AlertRows, OnlyRaises
<1>6. ASSUME call[c].key = k PROVE (\E i : Newest(k, i)') /\ HasRow(c, k)'
  <2>1. PICK n \in Nat : n = Len(alerts) + 1
    BY <1>0 DEF TypeOK
  <2>2. \A i \in DOMAIN alerts' : i <= n
    BY <1>0, <1>4, <2>1 DEF TypeOK
  <2>3. n \in AlertRows(k)'
    BY <1>3, <1>4, <1>6, <2>1 DEF AlertRows
  <2>4. Newest(k, n)'
    BY <2>2, <2>3 DEF Newest, AlertRows
  <2>5. QED
    BY <1>1, <1>6, <2>4 DEF HasRow
<1>7. call[c].key # k => AlertRows(k)' = AlertRows(k)
  BY <1>3, <1>4 DEF AlertRows
<1>8. QED
  BY <1>5, <1>6, <1>7

\* The alert a caller has stored stays underway, reaches the queue or is lost.
LEMMA CallerKeepsPending ==
    ASSUME TypeOK, [Next]_vars, NEW k \in Keys, NEW c \in Callers, HasRow(c, k), k \notin missed'
    PROVE  Pending(k)'
<1>1. \A i \in DOMAIN alerts : i \in DOMAIN alerts' /\ alerts'[i].key = alerts[i].key
  BY AlertsKept
<1>2. CASE call'[c] = call[c]
  BY <1>1, <1>2 DEF HasRow, Pending, TypeOK
<1>3. CASE Fetch(c)
  <2>1. PICK i \in AlertRows(call[c].key) : call'[c] = [pc |-> "publish", row |-> i]
    BY <1>3 DEF Fetch, TypeOK
  <2>2. call[c].key = k /\ alerts'[i].key = k
    BY <1>1, <1>3, <2>1 DEF Fetch, HasRow, AlertRows
  <2>3. QED
    BY <2>1, <2>2 DEF HasRow, Pending
<1>4. CASE Publish(c)
  <2>1. call[c].pc = "publish" /\ alerts[call[c].row].key = k /\ call[c].row \in DOMAIN alerts
    BY <1>4 DEF Publish, HasRow, TypeOK
  <2>2. queue' = Append(queue, call[c].row) /\ alerts' = alerts
    BY <1>4, <2>1 DEF Publish
  <2>3. PICK n : n = Len(queue) + 1
    OBVIOUS
  <2>4. n \in DOMAIN queue' /\ queue'[n] = call[c].row
    BY <2>1, <2>2, <2>3, AppendRow DEF TypeOK
  <2>5. PICK i : i = call[c].row
    OBVIOUS
  <2>6. OnQueue(i)' /\ i \in AlertRows(k)'
    BY <2>1, <2>2, <2>4, <2>5 DEF OnQueue, AlertRows
  <2>7. QED
    BY <2>6 DEF Pending
<1>5. CASE CallFails(c) \/ Crash
  BY <1>5 DEF CallFails, Crash, InFlight, HasRow
<1>6. QED
  BY <1>2, <1>3, <1>4, <1>5
     DEF Next, vars, Tick, Raise, CallerStep, IsDuplicate, Insert, Fetch, Publish, CallFails,
         Acknowledge, HookStep, Subscribe, Get, Dispatch, Select, OpenIncident, CloseIncident,
         HookFails, Annotate, Crash, HasRow, TypeOK

\* An alert on the hook's queue stays there until the hook takes it.
LEMMA QueueKeepsPending ==
    ASSUME TypeOK, [Next]_vars, NEW k \in Keys, NEW i \in AlertRows(k), OnQueue(i),
           k \notin missed'
    PROVE  Pending(k)'
<1>1. i \in AlertRows(k)'
  BY AlertsKept DEF AlertRows
<1>2. PICK p \in DOMAIN queue : queue[p] = i
  BY DEF OnQueue
<1>3. CASE queue' = queue
  BY <1>1, <1>2, <1>3 DEF OnQueue, Pending
<1>4. CASE Get
  <2>0. /\ Head(queue) = queue[1] /\ 1 \in DOMAIN queue
        /\ \A q \in DOMAIN queue : q = 1 \/ (q - 1 \in DOMAIN queue' /\ queue'[q - 1] = queue[q])
        /\ DOMAIN queue \subseteq Nat \ {0} /\ DOMAIN queue' \subseteq Nat \ {0}
    <3>1. /\ queue \in Seq(DOMAIN alerts) /\ queue # <<>> /\ queue' = Tail(queue)
      BY <1>4 DEF Get, TypeOK
    <3>2. QED
      BY <3>1, HeadTailProperties, LenProperties
  <2>1. \/ i = Head(queue)
        \/ p - 1 \in DOMAIN queue' /\ queue'[p - 1] = i
    BY <1>2, <2>0
  <2>2. hook' = [pc |-> "dispatch", alert |-> Head(queue)]
    BY <1>4 DEF Get
  <2>3. QED
    BY <1>1, <2>1, <2>2 DEF OnQueue, OnHook, Pending
<1>5. ASSUME NEW c \in Callers, Publish(c), queue' # queue PROVE Pending(k)'
  <2>1. queue' = Append(queue, call[c].row) /\ call[c].row \in DOMAIN alerts
    BY <1>5 DEF Publish, TypeOK
  <2>2. p \in DOMAIN queue' /\ queue'[p] = i
    BY <1>2, <2>1, AppendRow DEF TypeOK
  <2>3. QED
    BY <1>1, <2>2 DEF OnQueue, Pending
<1>6. CASE Crash
  BY <1>2, <1>6 DEF Crash, InFlight, AlertRows
<1>7. QED
  BY <1>3, <1>4, <1>5, <1>6
     DEF Next, vars, Tick, Raise, CallerStep, IsDuplicate, Insert, Fetch, CallFails,
         Acknowledge, HookStep, Subscribe, Dispatch, Select, OpenIncident, CloseIncident,
         HookFails, Annotate

\* A raise the hook holds stays with it, opens the incident or is lost.
LEMMA HookKeepsPending ==
    ASSUME RoleInv, [Next]_vars, NEW k \in Keys, OnlyRaises(k), OpenRows(k) = {},
           NEW i \in AlertRows(k), OnHook(i), k \notin missed'
    PROVE  Pending(k)' \/ OpenRows(k)' # {}
<1>0. TypeOK /\ HookDecision
  BY DEF RoleInv
<1>1. i \in AlertRows(k)'
  BY <1>0, AlertsKept DEF AlertRows
<1>2. hook.pc \notin {"down", "get"} /\ hook.alert = i /\ Held.key = k /\ Held.kind = "raise"
  BY DEF OnHook, AlertRows, OnlyRaises, Held
<1>3. CASE hook' = hook \/ Dispatch
  BY <1>1, <1>2, <1>3 DEF Dispatch, OnHook, Pending
<1>4. CASE Select
  BY <1>1, <1>2, <1>4 DEF Select, OnHook, Pending
<1>5. CASE OpenIncident
  <2>1. [key |-> Held.key, open |-> TRUE, noted |-> FALSE] \in Incident
    BY <1>2 DEF Incident
  <2>2. QED
    BY <1>0, <1>2, <1>5, <2>1, AppendRow DEF OpenIncident, TypeOK, OpenRows
<1>6. CASE CloseIncident
  BY <1>0, <1>2, <1>6 DEF CloseIncident, HookDecision
<1>7. CASE HookFails \/ Crash
  BY <1>2, <1>7 DEF HookFails, Crash, InFlight
<1>8. QED
  BY <1>2, <1>3, <1>4, <1>5, <1>6, <1>7
     DEF Next, vars, Tick, Raise, CallerStep, IsDuplicate, Insert, Fetch, Publish, CallFails,
         Acknowledge, HookStep, Subscribe, Get, Annotate

\* A key without recoveries is only ever raised.
LEMMA RaisesStayRaises ==
    ASSUME RoleInv, [Next]_vars, NEW k \in Keys \ Recoverable, OnlyRaises(k)
    PROVE  OnlyRaises(k)'
<1>0. TypeOK
  BY DEF RoleInv
<1>1. \A i \in AlertRows(k)' : alerts'[i].kind = "raise"
  <2>1. CASE \E c \in Callers : Insert(c)
    BY <2>1, InsertRaises
  <2>2. CASE \A c \in Callers : ~Insert(c)
    BY <1>0, <2>2, AlertsKept, RowIds DEF OnlyRaises
  <2>3. QED
    BY <2>1, <2>2
<1>2. ASSUME NEW c \in Callers, call'[c].pc \in {"check", "insert"}, call'[c].key = k
      PROVE  call'[c].kind = "raise"
  <2>1. CASE call'[c] = call[c]
    BY <1>2, <2>1 DEF OnlyRaises
  <2>2. CASE IsDuplicate(c)
    BY <1>0, <1>2, <2>2 DEF IsDuplicate, OnlyRaises, Idle, TypeOK
  <2>3. ASSUME NEW k2 \in Keys, NEW kind \in Kinds, Raise(c, k2, kind)
        PROVE  call'[c].kind = "raise"
    BY <1>0, <1>2, <2>3 DEF Raise, Kinds, TypeOK
  <2>4. CASE Insert(c) \/ Fetch(c) \/ Publish(c) \/ CallFails(c) \/ Crash
    <3>1. CASE Insert(c)
      BY <1>0, <1>2, <3>1 DEF Insert, TypeOK
    <3>2. CASE Fetch(c)
      BY <1>0, <1>2, <3>2 DEF Fetch, TypeOK
    <3>3. CASE Publish(c) \/ CallFails(c) \/ Crash
      BY <1>0, <1>2, <3>3 DEF Publish, CallFails, Crash, Idle, TypeOK
    <3>4. QED
      BY <2>4, <3>1, <3>2, <3>3
  <2>5. ASSUME call'[c] # call[c]
        PROVE  \/ \E k2 \in Keys, kind \in Kinds : Raise(c, k2, kind)
               \/ IsDuplicate(c) \/ Insert(c) \/ Fetch(c) \/ Publish(c) \/ CallFails(c) \/ Crash
    BY <1>0, <2>5 DEF Next, vars, Tick, Raise, CallerStep, IsDuplicate, Insert, Fetch, Publish,
         CallFails, Acknowledge, HookStep, Subscribe, Get, Dispatch, Select, OpenIncident,
         CloseIncident, HookFails, Annotate, TypeOK
  <2>6. QED
    BY <2>1, <2>2, <2>3, <2>4, <2>5
<1>3. QED
  BY <1>1, <1>2 DEF OnlyRaises

\* Every step keeps an alert that was not lost underway until its incident is open.
LEMMA RaiseStep == RoleInv /\ RaiseInv /\ [Next]_vars => RaiseInv'
<1> SUFFICES ASSUME RoleInv, RaiseInv, [Next]_vars, NEW k \in Keys \ Recoverable
             PROVE  OnlyRaises(k)' /\ RaisedIsOpen(k)'
  BY DEF RaiseInv
<1>0. TypeOK /\ OnlyRaises(k) /\ RaisedIsOpen(k) /\ k \in Keys
  BY DEF RoleInv, RaiseInv
<1>1. OnlyRaises(k)'
  BY <1>0, RaisesStayRaises
<1>2. AlertRows(k) \subseteq AlertRows(k)'
  BY <1>0, AlertsKept DEF AlertRows
<1>3. missed \subseteq missed'
  BY DEF Next, vars, Tick, Raise, CallerStep, IsDuplicate, Insert, Fetch, Publish, CallFails,
         Acknowledge, HookStep, Subscribe, Get, Dispatch, Select, OpenIncident, CloseIncident,
         HookFails, Annotate, Crash
<1>4. OpenRows(k)' # {} => AlertRows(k)' # {}
  BY <1>0, <1>2, OpenHasAlert DEF RaisedIsOpen
<1>5. CASE AlertRows(k)' = AlertRows(k)
  <2>1. \A i : Newest(k, i)' <=> Newest(k, i)
    BY <1>5 DEF Newest
  <2>2. ASSUME AlertRows(k) # {}, k \notin missed'
        PROVE  OpenRows(k)' # {} \/ Pending(k)'
    <3>1. CASE OpenRows(k) # {}
      BY <1>0, <3>1, OpenStaysOpen
    <3>2. CASE OpenRows(k) = {} /\ Pending(k)
      BY <1>0, <2>2, <3>2, CallerKeepsPending, QueueKeepsPending, HookKeepsPending DEF Pending
    <3>3. QED
      BY <1>0, <1>3, <2>2, <3>1, <3>2 DEF RaisedIsOpen
  <2>3. QED
    BY <1>0, <1>1, <1>4, <1>5, <2>1, <2>2 DEF RaisedIsOpen
<1>6. CASE AlertRows(k)' # AlertRows(k)
  <2>1. PICK c \in Callers : Insert(c)
    BY <1>0, <1>6, AlertsKept
  <2>2. (\E i : Newest(k, i)') /\ HasRow(c, k)'
    BY <1>0, <1>6, <2>1, InsertRaises
  <2>3. QED
    BY <1>1, <1>4, <2>2 DEF RaisedIsOpen, Pending
<1>7. QED
  BY <1>5, <1>6

\* When nothing of a key is underway and nothing was lost, all its alerts are
\* handled and the timeline agrees with the last of them.
LEMMA HandledIsTracked == TrackInv /\ RaiseInv => TimelineTracksAlerts
<1> SUFFICES ASSUME TrackInv, RaiseInv, NEW k \in Keys \ (missed \cup InFlight), ~OrderMatters(k)
             PROVE  UpToDate(k)
  BY DEF TimelineTracksAlerts
<1>1. \A c \in Callers : ~HasRow(c, k)
  BY DEF InFlight, HasRow
<1>2. \A i \in AlertRows(k) : ~OnQueue(i) /\ ~OnHook(i)
  BY DEF InFlight, OnQueue, OnHook, AlertRows, Held
<1>3. CASE SoleRaiser(k)
  <2>1. TypeOK /\ TimelineIsCurrent(k) /\ k \in Keys
    BY <1>3 DEF TrackInv, RoleInv, Tracked
  <2>2. Handled(k) = AlertRows(k)
    BY <1>1, <1>2 DEF Handled, Underway
  <2>3. ~Closing(k)
    BY DEF Closing, InFlight
  <2>4. QED
    BY <2>1, <2>2, <2>3 DEF TimelineIsCurrent, LastHandledIsRaise, UpToDate, Ongoing
<1>4. CASE k \notin Recoverable
  <2>1. OnlyRaises(k) /\ RaisedIsOpen(k) /\ ~Pending(k)
    BY <1>1, <1>2, <1>4 DEF RaiseInv, Pending
  <2>2. Ongoing(k) <=> AlertRows(k) # {}
    BY <2>1 DEF OnlyRaises, RaisedIsOpen, Newest, Ongoing
  <2>3. QED
    BY <2>1, <2>2 DEF RaisedIsOpen, UpToDate
<1>5. QED
  BY <1>3, <1>4 DEF OrderMatters

\* Once nothing about a key is in flight and none of its alerts was lost, its
\* incident is open exactly when its last alert was a raise, whatever the other
\* keys, failures, crashes and operators did in between.
THEOREM TimelineIsTracked == Spec => []TimelineTracksAlerts
<1>1. Init => TrackInv /\ IncidentInv
  <2> SUFFICES ASSUME Init PROVE TrackInv /\ IncidentInv
    OBVIOUS
  <2>1. TypeOK /\ IncidentInv /\ InsertIsSafe
    BY TypeInit DEF IncidentInv, Init, OneOpenPerKey, InsertIsSafe
  <2>2. RaisersOnly /\ HookDecision
    BY DEF Init, RaisersOnly, HookDecision, Idle
  <2>3. ASSUME NEW k \in Keys PROVE InOrder(k) /\ TimelineIsCurrent(k)
    <3>1. AlertRows(k) = {} /\ OpenRows(k) = {} /\ DOMAIN queue = {} /\ ~Closing(k)
          /\ \A c \in Callers : ~HasRow(c, k)
      BY DEF Init, AlertRows, OpenRows, Closing, HasRow, Idle
    <3>2. Handled(k) = {} /\ Underway(k) = {}
      BY <3>1 DEF Handled, Underway
    <3>3. QED
      BY <3>1, <3>2 DEF InOrder, CallerHasNewest, QueueInOrder, HookIsAhead, HandledFirst,
                        TimelineIsCurrent, LastHandledIsRaise
  <2>4. QED
    BY <2>1, <2>2, <2>3 DEF TrackInv, RoleInv
<1>2. Init => RaiseInv
  BY DEF Init, RaiseInv, OnlyRaises, RaisedIsOpen, AlertRows, OpenRows, Idle
<1>3. TrackInv => RoleInv
  BY DEF TrackInv
<1>4. QED
  BY <1>1, <1>2, <1>3, TrackStep, IncidentStep, RaiseStep, HandledIsTracked, PTL DEF Spec

(***************************************************************************)
(* The incidents table implements the abstract timeline: every step of the *)
(* pipeline opens one entry whose key had none open, resolves one entry,   *)
(* or leaves the timeline as it is.                                        *)
(***************************************************************************)
Timeline == [i \in DOMAIN incidents |->
                [key |-> incidents[i].key, open |-> incidents[i].open]]

\* A function on 1..n is a sequence.
LEMMA FunctionIsSeq ==
    ASSUME NEW S, NEW n \in Nat, NEW f \in [1..n -> S]
    PROVE  f \in Seq(S)
  OBVIOUS

\* The incidents table, read as a timeline, is a sequence of entries of its length.
LEMMA TimelineIsSeq ==
    ASSUME TypeOK
    PROVE  /\ Timeline \in Seq([key : Keys, open : BOOLEAN])
           /\ Len(Timeline) = Len(incidents)
           /\ DOMAIN Timeline = 1..Len(incidents)
           /\ DOMAIN incidents = 1..Len(incidents)
<1>1. DOMAIN incidents = 1..Len(incidents) /\ Len(incidents) \in Nat
  BY DEF TypeOK
<1>2. \A i \in 1..Len(incidents) : Timeline[i] \in [key : Keys, open : BOOLEAN]
  BY <1>1, RowTypes DEF Timeline, Incident
<1>3. Timeline = [i \in 1..Len(incidents) |-> Timeline[i]]
  BY <1>1 DEF Timeline
<1>4. Timeline \in [1..Len(incidents) -> [key : Keys, open : BOOLEAN]]
  BY <1>2, <1>3
<1>5. Timeline \in Seq([key : Keys, open : BOOLEAN])
  BY <1>1, <1>4, FunctionIsSeq
<1>6. DOMAIN Timeline = 1..Len(incidents)
  BY <1>1 DEF Timeline
<1>7. Len(Timeline) = Len(incidents)
  BY <1>1, <1>5, <1>6, LenProperties
<1>8. QED
  BY <1>1, <1>5, <1>6, <1>7

\* Every step of the pipeline opens one entry of the timeline, resolves one, or
\* leaves the timeline alone.
LEMMA LogStep == IncidentInv /\ [Next]_vars => [Log!Next]_Timeline
<1> SUFFICES ASSUME IncidentInv, [Next]_vars
             PROVE  Log!Next \/ UNCHANGED Timeline
  BY DEF Timeline
<1> USE DEF IncidentInv
<1>1. CASE OpenIncident
  <2> DEFINE row == [key |-> Held.key, open |-> TRUE, noted |-> FALSE]
             entry == [key |-> Held.key, open |-> TRUE]
             n == Len(incidents) + 1
  <2>1. Held \in Alert /\ Held.key \in Keys /\ OpenRows(Held.key) = {}
    BY <1>1, RowTypes DEF OpenIncident, InsertIsSafe, Held, TypeOK
  <2>2. row \in Incident
    BY <2>1 DEF Incident
  <2>3. /\ incidents' = Append(incidents, row) /\ n \notin DOMAIN incidents
        /\ DOMAIN incidents' = DOMAIN incidents \cup {n}
        /\ \A i \in DOMAIN incidents : incidents'[i] = incidents[i]
        /\ incidents'[n] = row
    BY <1>1, <2>2, AppendRow DEF OpenIncident, TypeOK
  <2>4. Log!OpenEntries(Held.key) = {}
    BY <2>1 DEF Log!OpenEntries, OpenRows
  <2>5. Timeline' = Append(Timeline, entry)
    <3>1. Timeline \in Seq([key : Keys, open : BOOLEAN]) /\ DOMAIN Timeline = DOMAIN incidents
          /\ Len(Timeline) = Len(incidents)
      BY TimelineIsSeq
    <3>2. entry \in [key : Keys, open : BOOLEAN]
      BY <2>1
    <3>3. /\ DOMAIN Append(Timeline, entry) = DOMAIN incidents \cup {n}
          /\ \A i \in DOMAIN incidents : Append(Timeline, entry)[i] = Timeline[i]
          /\ Append(Timeline, entry)[n] = entry
      BY <3>1, <3>2, AppendRow
    <3>4. Timeline' = [i \in DOMAIN incidents \cup {n} |->
                         IF i = n THEN entry ELSE Timeline[i]]
      <4>1. Timeline' = [i \in DOMAIN incidents \cup {n} |->
                           [key |-> incidents'[i].key, open |-> incidents'[i].open]]
        BY <2>3 DEF Timeline
      <4>2. \A i \in DOMAIN incidents : Timeline[i] =
              [key |-> incidents'[i].key, open |-> incidents'[i].open]
        BY <2>3 DEF Timeline
      <4>3. entry = [key |-> incidents'[n].key, open |-> incidents'[n].open]
        <5>1. incidents'[n].key = Held.key /\ incidents'[n].open = TRUE
          BY <2>3
        <5>2. QED
          BY <5>1
      <4>4. QED
        BY <2>3, <4>1, <4>2, <4>3
    <3>5. Append(Timeline, entry) = [i \in DOMAIN incidents \cup {n} |->
                                       IF i = n THEN entry ELSE Timeline[i]]
      <4>1. Append(Timeline, entry) = [i \in DOMAIN Append(Timeline, entry) |->
                                         Append(Timeline, entry)[i]]
        BY <3>1, <3>2, AppendProperties
      <4>2. QED
        BY <2>3, <3>3, <4>1
    <3>6. QED
      BY <3>4, <3>5
  <2>6. QED
    BY <2>1, <2>4, <2>5 DEF Log!Next, Log!Open, Timeline
<1>2. ASSUME CloseIncident, NEW i \in hook.todo,
             incidents' = [incidents EXCEPT ![i].open = FALSE]
      PROVE  Log!Next \/ UNCHANGED Timeline
  <2>1. i \in DOMAIN incidents
    BY <1>2 DEF CloseIncident, TypeOK
  <2>2. /\ [incidents[i] EXCEPT !.open = FALSE].key = incidents[i].key
        /\ ~[incidents[i] EXCEPT !.open = FALSE].open
        /\ [incidents[i] EXCEPT !.open = FALSE] \in Incident
    BY <2>1, RowTypes, RowUpdate
  <2>3. /\ DOMAIN incidents' = DOMAIN incidents
        /\ \A j \in DOMAIN incidents : incidents'[j] =
             IF j = i THEN [incidents[i] EXCEPT !.open = FALSE] ELSE incidents[j]
    BY <1>2, <2>1
  <2>4. [incidents[i] EXCEPT !.open = FALSE].open = FALSE
    BY <2>2 DEF Incident
  <2>5. Timeline' = [Timeline EXCEPT ![i].open = FALSE]
    BY <2>1, <2>2, <2>3, <2>4 DEF Timeline
  <2>6. CASE incidents[i].open
    BY <2>1, <2>5, <2>6 DEF Timeline, Log!Next, Log!Resolve
  <2>7. CASE ~incidents[i].open
    <3>1. incidents[i].open = FALSE
      BY <2>1, <2>7, RowTypes DEF Incident
    <3>2. QED
      BY <2>1, <2>5, <3>1 DEF Timeline
  <2>8. QED
    BY <2>6, <2>7
<1>3. ASSUME NEW i \in DOMAIN incidents, Annotate(i)
      PROVE  UNCHANGED Timeline
  <2>1. /\ [incidents[i] EXCEPT !.noted = TRUE].key = incidents[i].key
        /\ [incidents[i] EXCEPT !.noted = TRUE].open = incidents[i].open
    BY RowTypes, RowUpdate
  <2>2. /\ DOMAIN incidents' = DOMAIN incidents
        /\ \A j \in DOMAIN incidents : incidents'[j] =
             IF j = i THEN [incidents[i] EXCEPT !.noted = TRUE] ELSE incidents[j]
    BY <1>3 DEF Annotate
  <2>3. QED
    BY <2>1, <2>2 DEF Timeline
<1>4. CASE UNCHANGED incidents
  BY <1>4 DEF Timeline
<1>5. ASSUME ~OpenIncident, ~CloseIncident,
             ~(\E i \in DOMAIN incidents : Annotate(i))
      PROVE  UNCHANGED incidents
  BY <1>5 DEF Next, vars, Tick, Raise, CallerStep, IsDuplicate, Insert, Fetch, Publish,
              CallFails, Acknowledge, HookStep, Subscribe, Get, Dispatch, Select,
              HookFails, Crash
<1>6. CASE CloseIncident
  BY <1>2, <1>4, <1>6 DEF CloseIncident
<1>7. QED
  BY <1>1, <1>3, <1>4, <1>5, <1>6

\* The incidents table is a timeline: one open entry per key, entries resolve
\* at most once, and no entry reopens or disappears.
THEOREM PipelineImplementsLog == Spec => ImplementsIncidentLog
<1>1. Init => IncidentInv /\ Log!Init
  <2>1. Init => IncidentInv
    BY TypeInit DEF IncidentInv, Init, OneOpenPerKey, InsertIsSafe
  <2>2. Init => Log!Init
    BY DEF Init, Log!Init
  <2>3. QED
    BY <2>1, <2>2
<1>2. Spec => []IncidentInv
  BY <1>1, IncidentStep, PTL DEF Spec
<1>3. QED
  BY <1>1, <1>2, LogStep, PTL DEF Spec, ImplementsIncidentLog, Log!Spec, Timeline

=============================================================================
