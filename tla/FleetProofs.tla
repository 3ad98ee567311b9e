------------------------------- MODULE FleetProofs -------------------------------
(***************************************************************************)
(* Theorems about AgentStatus, for any number of agents and requests, and  *)
(* any timeout, window and lag the statements admit; about Servers, for    *)
(* any hosts, any number of servers, requests and rounds; about            *)
(* LiveStream, for any clients, sizes and entries; and about MCFleet,      *)
(* which runs them side by side.                                           *)
(***************************************************************************)
EXTENDS MCFleet, FiniteSetTheorems, SequenceTheorems, TLAPS

-----------------------------------------------------------------------------
(* AgentStatus.                                                            *)

\* The fields of the agents table's rows, of a request and of the loop.
LEMMA Shapes ==
    ASSUME TypeOK
    PROVE  /\ \A a \in Agents :
                /\ agents[a] = [row |-> agents[a].row, status |-> agents[a].status, beat |-> agents[a].beat]
                /\ agents[a].row \in {"absent", "present", "deleted"}
                /\ agents[a].status \in {"online", "offline"}
                /\ agents[a].beat \in 0..Cap
           /\ \A h \in Handlers :
                \/ handler[h] = Idle
                \/ /\ handler[h] = [pc |-> "update", agent |-> handler[h].agent, age |-> handler[h].age]
                   /\ handler[h].agent \in Agents /\ handler[h].age \in 0..MaxLag
           /\ \/ loop = Asleep
              \/ /\ loop = [pc |-> "select", age |-> loop.age]
                 /\ loop.age \in 0..MaxLag
              \/ /\ loop = [pc |-> "mark", age |-> loop.age, todo |-> loop.todo]
                 /\ loop.age \in 0..MaxLag /\ loop.todo \in SUBSET Agents
              \/ /\ loop = [pc |-> "fire", age |-> loop.age, todo |-> loop.todo, cur |-> loop.cur]
                 /\ loop.age \in 0..MaxLag /\ loop.todo \in SUBSET Agents /\ loop.cur \in Agents
  BY DEF TypeOK, Row, Handler, Loop, Idle, Asleep

\* What a tick of the clock does to ages, requests and the loop.
LEMMA TickShape ==
    ASSUME TypeOK, Tick
    PROVE  /\ \A a \in Agents :
                agents'[a] = [row |-> agents[a].row, status |-> agents[a].status,
                              beat |-> Older(agents[a].beat)]
           /\ \A h \in Handlers :
                \/ handler'[h] = Idle
                \/ handler[h].age + 1 \in 0..MaxLag /\ handler[h].agent \in Agents
                   /\ handler'[h] = [pc |-> "update", agent |-> handler[h].agent, age |-> handler[h].age + 1]
           /\ \/ loop = Asleep /\ loop' = Asleep
              \/ /\ loop.pc = "select" /\ loop.age + 1 \in 0..MaxLag
                 /\ loop' = [pc |-> "select", age |-> loop.age + 1]
              \/ /\ loop.pc = "mark" /\ loop.age + 1 \in 0..MaxLag /\ loop.todo \in SUBSET Agents
                 /\ loop' = [pc |-> "mark", age |-> loop.age + 1, todo |-> loop.todo]
              \/ /\ loop.pc = "fire" /\ loop.age + 1 \in 0..MaxLag
                 /\ loop.todo \in SUBSET Agents /\ loop.cur \in Agents
                 /\ loop' = [pc |-> "fire", age |-> loop.age + 1, todo |-> loop.todo, cur |-> loop.cur]
           /\ \A a \in Agents : Older(agents[a].beat) \in 0..Cap
<1>1. \A a \in Agents :
        agents'[a] = [row |-> agents[a].row, status |-> agents[a].status, beat |-> Older(agents[a].beat)]
  <2> SUFFICES ASSUME NEW a \in Agents
               PROVE agents'[a] = [row |-> agents[a].row, status |-> agents[a].status,
                                   beat |-> Older(agents[a].beat)]
    OBVIOUS
  <2>1. agents'[a] = [agents[a] EXCEPT !.beat = Older(agents[a].beat)]
    BY DEF Tick
  <2>2. agents[a] = [row |-> agents[a].row, status |-> agents[a].status, beat |-> agents[a].beat]
    BY Shapes
  <2>3. QED
    BY <2>1, <2>2
<1>2. ASSUME NEW h \in Handlers
      PROVE  \/ handler'[h] = Idle
             \/ handler[h].age + 1 \in 0..MaxLag /\ handler[h].agent \in Agents
                /\ handler'[h] = [pc |-> "update", agent |-> handler[h].agent, age |-> handler[h].age + 1]
  <2>1. CASE handler[h] = Idle
    BY <2>1 DEF Tick, Idle
  <2>2. CASE /\ handler[h] = [pc |-> "update", agent |-> handler[h].agent, age |-> handler[h].age]
             /\ handler[h].agent \in Agents /\ handler[h].age \in 0..MaxLag
    <3>1. handler[h].pc = "update"
      BY <2>2
    <3>2. handler'[h] = [handler[h] EXCEPT !.age = handler[h].age + 1]
      BY <3>1 DEF Tick
    <3>3. handler[h].age < MaxLag
      BY <3>1 DEF Tick
    <3>4. handler[h].age + 1 \in 0..MaxLag
      BY <2>2, <3>3, StatusAssumption
    <3>5. QED
      BY <2>2, <3>2, <3>4
  <2>3. QED
    BY <2>1, <2>2, Shapes
<1>3. \/ loop = Asleep /\ loop' = Asleep
      \/ /\ loop.pc = "select" /\ loop.age + 1 \in 0..MaxLag
         /\ loop' = [pc |-> "select", age |-> loop.age + 1]
      \/ /\ loop.pc = "mark" /\ loop.age + 1 \in 0..MaxLag /\ loop.todo \in SUBSET Agents
         /\ loop' = [pc |-> "mark", age |-> loop.age + 1, todo |-> loop.todo]
      \/ /\ loop.pc = "fire" /\ loop.age + 1 \in 0..MaxLag
         /\ loop.todo \in SUBSET Agents /\ loop.cur \in Agents
         /\ loop' = [pc |-> "fire", age |-> loop.age + 1, todo |-> loop.todo, cur |-> loop.cur]
  <2>1. CASE loop = Asleep
    BY <2>1 DEF Tick, Asleep
  <2>2. ASSUME loop.pc # "sleep", loop.age \in 0..MaxLag
        PROVE  loop.age + 1 \in 0..MaxLag /\ loop' = [loop EXCEPT !.age = loop.age + 1]
    BY <2>2, StatusAssumption DEF Tick
  <2>3. CASE loop = [pc |-> "select", age |-> loop.age] /\ loop.age \in 0..MaxLag
    <3>1. loop.pc = "select"
      BY <2>3
    <3>2. QED
      BY <2>2, <2>3, <3>1
  <2>4. CASE /\ loop = [pc |-> "mark", age |-> loop.age, todo |-> loop.todo]
             /\ loop.age \in 0..MaxLag /\ loop.todo \in SUBSET Agents
    <3>1. loop.pc = "mark"
      BY <2>4
    <3>2. QED
      BY <2>2, <2>4, <3>1
  <2>5. CASE /\ loop = [pc |-> "fire", age |-> loop.age, todo |-> loop.todo, cur |-> loop.cur]
             /\ loop.age \in 0..MaxLag /\ loop.todo \in SUBSET Agents /\ loop.cur \in Agents
    <3>1. loop.pc = "fire"
      BY <2>5
    <3>2. QED
      BY <2>2, <2>5, <3>1
  <2>6. QED
    BY <2>1, <2>3, <2>4, <2>5, Shapes
<1>4. ASSUME NEW a \in Agents PROVE Older(agents[a].beat) \in 0..Cap
  <2>1. agents[a].beat \in 0..Cap
    BY Shapes
  <2>2. Cap \in Nat
    BY StatusAssumption DEF Cap
  <2>3. QED
    BY <2>1, <2>2 DEF Older
<1>5. QED
  BY <1>1, <1>2, <1>3, <1>4

-----------------------------------------------------------------------------
(* Type correctness.                                                       *)

\* Every step of requests, loop, operators and restarts keeps the state well typed.
LEMMA TypeStep == TypeOK /\ [Next]_vars => TypeOK'
<1> SUFFICES ASSUME TypeOK, [Next]_vars PROVE TypeOK'
  OBVIOUS
<1>c. Cap \in Nat /\ 0 \in 0..Cap /\ 0 \in 0..MaxLag /\ \A n \in 0..MaxLag : n \in 0..Cap
  BY StatusAssumption DEF Cap
<1>1. CASE Tick
  <2>1. agents' \in [Agents -> Row]
    <3>1. agents' = [a \in Agents |-> agents'[a]]
      BY <1>1 DEF Tick
    <3>2. ASSUME NEW a \in Agents PROVE agents'[a] \in Row
      <4>1. /\ agents'[a] = [row |-> agents[a].row, status |-> agents[a].status,
                             beat |-> Older(agents[a].beat)]
            /\ Older(agents[a].beat) \in 0..Cap
        BY <1>1, TickShape
      <4>2. agents[a].row \in {"absent", "present", "deleted"} /\ agents[a].status \in {"online", "offline"}
        BY Shapes
      <4>3. QED
        BY <4>1, <4>2 DEF Row
    <3>3. QED
      BY <3>1, <3>2
  <2>2. handler' \in [Handlers -> Handler]
    <3>1. handler' = [h \in Handlers |-> handler'[h]]
      BY <1>1 DEF Tick
    <3>2. ASSUME NEW h \in Handlers PROVE handler'[h] \in Handler
      <4>1. \/ handler'[h] = Idle
            \/ handler[h].age + 1 \in 0..MaxLag /\ handler[h].agent \in Agents
               /\ handler'[h] = [pc |-> "update", agent |-> handler[h].agent, age |-> handler[h].age + 1]
        BY <1>1, TickShape
      <4>2. QED
        BY <4>1 DEF Handler, Idle
    <3>3. QED
      BY <3>1, <3>2
  <2>3. loop' \in Loop
    BY <1>1, TickShape DEF Loop, Asleep
  <2>4. \A n \in 0..Cap : Older(n) \in 0..Cap
    BY <1>c DEF Older
  <2>5. alertAge' \in [Agents -> 0..Cap] /\ contact' \in [Agents -> 0..Cap]
    BY <1>1, <2>4 DEF Tick, TypeOK
  <2>6. QED
    BY <1>1, <2>1, <2>2, <2>3, <2>5 DEF Tick, TypeOK
<1>2. ASSUME NEW a \in Agents, Register(a) PROVE TypeOK'
  BY <1>2, <1>c DEF TypeOK, Register, Row
<1>3. ASSUME NEW h \in Handlers, NEW a \in Agents, Arrive(h, a) PROVE TypeOK'
  BY <1>3, <1>c DEF TypeOK, Arrive, Handler
<1>4. ASSUME NEW h \in Handlers, Beat(h) PROVE TypeOK'
  <2>1. handler[h].agent \in Agents /\ handler[h].age \in 0..MaxLag /\ handler[h].age \in 0..Cap
    <3>1. handler[h].pc = "update"
      BY <1>4 DEF Beat
    <3>2. handler[h] # Idle
      BY <3>1 DEF Idle
    <3>3. handler[h].agent \in Agents /\ handler[h].age \in 0..MaxLag
      BY <3>2, Shapes
    <3>4. QED
      BY <3>3, <1>c
  <2>2. handler' \in [Handlers -> Handler]
    BY <1>4 DEF Beat, TypeOK, Handler, Idle
  <2>3. agents' \in [Agents -> Row] /\ contact' \in [Agents -> 0..Cap]
    BY <1>4, <2>1 DEF Beat, TypeOK, Row
  <2>4. QED
    BY <1>4, <2>2, <2>3 DEF Beat, TypeOK
<1>5. ASSUME NEW h \in Handlers, RequestFails(h) PROVE TypeOK'
  BY <1>5 DEF TypeOK, RequestFails, Handler, Idle
<1>6. ASSUME NEW a \in Agents, Delete(a) PROVE TypeOK'
  <2>1. agents' \in [Agents -> Row]
    BY <1>6 DEF Delete, TypeOK, Row
  <2>2. QED
    BY <1>6, <2>1 DEF Delete, TypeOK
<1>7. ASSUME NEW a \in Agents, Acknowledge(a) PROVE TypeOK'
  BY <1>7, <1>c DEF TypeOK, Acknowledge
<1>8. CASE StartScan
  BY <1>8, <1>c DEF TypeOK, StartScan, Loop
<1>9. CASE SelectStale
  <2>1. loop.age \in 0..MaxLag
    BY <1>9, Shapes DEF SelectStale, Asleep
  <2>2. loop' \in Loop
    BY <1>9, <2>1 DEF SelectStale, Loop
  <2>3. QED
    BY <1>9, <2>2 DEF SelectStale, TypeOK
<1>10. ASSUME NEW a \in Agents, MarkOffline(a) PROVE TypeOK'
  <2>1. loop.age \in 0..MaxLag /\ loop.todo \in SUBSET Agents
    BY <1>10, Shapes DEF MarkOffline, Asleep
  <2>2. loop' \in Loop
    BY <1>10, <2>1 DEF MarkOffline, Loop
  <2>3. agents' \in [Agents -> Row]
    BY <1>10 DEF MarkOffline, TypeOK, Row
  <2>4. QED
    BY <1>10, <2>2, <2>3 DEF MarkOffline, TypeOK
<1>11. ASSUME Fire \/ FireFails PROVE TypeOK'
  <2>1. loop.age \in 0..MaxLag /\ loop.todo \in SUBSET Agents /\ loop.cur \in Agents
    BY <1>11, Shapes DEF Fire, FireFails, Asleep
  <2>2. loop' \in Loop
    BY <1>11, <2>1 DEF Fire, FireFails, AfterFire, Loop
  <2>3. QED
    BY <1>11, <1>c, <2>1, <2>2 DEF Fire, FireFails, TypeOK
<1>12. CASE EndScan \/ ScanFails
  BY <1>12 DEF TypeOK, EndScan, ScanFails, Loop, Asleep
<1>13. CASE Crash
  <2>1. loop.pc = "fire" => loop.cur \in Agents
    BY Shapes DEF Asleep
  <2>2. QED
    BY <1>13, <2>1 DEF TypeOK, Crash, Loop, Asleep, Handler, Idle
<1>14. CASE UNCHANGED vars
  BY <1>14 DEF TypeOK, vars
<1>15. QED
  BY <1>1, <1>2, <1>3, <1>4, <1>5, <1>6, <1>7, <1>8, <1>9, <1>10, <1>11, <1>12, <1>13, <1>14
  DEF Next, LoopStep, Failure

\* Before the first request and the first scan everything is well typed.
LEMMA TypeInit == Init => TypeOK
  BY StatusAssumption DEF Init, TypeOK, Row, Handler, Loop, Idle, Asleep, Cap

\* The agents table, the requests, the loop and the ages stay well typed.
THEOREM TypeCorrect == Spec => []TypeOK
<1>1. Init => TypeOK
  BY TypeInit
<1>2. TypeOK /\ [Next]_vars => TypeOK'
  BY TypeStep
<1>3. QED
  BY <1>1, <1>2, PTL DEF Spec

-----------------------------------------------------------------------------
(* The recorded heartbeat is never younger than the newest request that    *)
(* named the agent.                                                        *)

RecordedIsOlder == \A a \in Agents : contact[a] <= agents[a].beat

\* A request writes the time it arrived into the row it names, so the recorded age is
\* not below that of the newest request.
LEMMA RecordedStep == TypeOK /\ RecordedIsOlder /\ [Next]_vars => RecordedIsOlder'
<1> SUFFICES ASSUME TypeOK, RecordedIsOlder, [Next]_vars PROVE RecordedIsOlder'
  OBVIOUS
<1>t. \A a \in Agents : contact[a] \in 0..Cap /\ agents[a].beat \in 0..Cap /\ contact[a] <= agents[a].beat
  BY Shapes DEF TypeOK, RecordedIsOlder
<1>c. Cap \in Nat
  BY StatusAssumption DEF Cap
<1>1. CASE Tick
  <2> SUFFICES ASSUME NEW a \in Agents PROVE contact'[a] <= agents'[a].beat
    BY DEF RecordedIsOlder
  <2>1. contact'[a] = Older(contact[a]) /\ agents'[a].beat = Older(agents[a].beat)
    <3>1. agents'[a] = [row |-> agents[a].row, status |-> agents[a].status,
                        beat |-> Older(agents[a].beat)]
      BY <1>1, TickShape
    <3>2. QED
      BY <1>1, <3>1 DEF Tick
  <2>2. contact[a] \in 0..Cap /\ agents[a].beat \in 0..Cap /\ contact[a] <= agents[a].beat
    BY <1>t
  <2>3. QED
    BY <2>1, <2>2, <1>c DEF Older
<1>2. ASSUME NEW a \in Agents, Register(a) PROVE RecordedIsOlder'
  BY <1>2 DEF Register, RecordedIsOlder, TypeOK
<1>3. ASSUME NEW h \in Handlers, Beat(h) PROVE RecordedIsOlder'
  <2>1. CASE handler[h].agent \in Present
    <3>1. handler[h].agent \in Agents /\ handler[h].age \in 0..MaxLag
      <4>1. handler[h] # Idle
        BY <1>3 DEF Beat, Idle
      <4>2. QED
        BY <4>1, Shapes
    <3>2. /\ agents'[handler[h].agent].beat = handler[h].age
          /\ contact'[handler[h].agent] = IF handler[h].age < contact[handler[h].agent]
                                            THEN handler[h].age ELSE contact[handler[h].agent]
          /\ \A a \in Agents \ {handler[h].agent} : agents'[a] = agents[a] /\ contact'[a] = contact[a]
      BY <1>3, <2>1, <3>1 DEF Beat, TypeOK
    <3>3. contact'[handler[h].agent] <= agents'[handler[h].agent].beat
      BY <1>t, <3>1, <3>2
    <3>4. QED
      BY <3>2, <3>3 DEF RecordedIsOlder
  <2>2. CASE handler[h].agent \notin Present
    BY <1>3, <2>2 DEF Beat, RecordedIsOlder
  <2>3. QED
    BY <2>1, <2>2
<1>4. ASSUME NEW a \in Agents, Delete(a) \/ MarkOffline(a) PROVE RecordedIsOlder'
  <2>1. \A b \in Agents : agents'[b].beat = agents[b].beat /\ contact'[b] = contact[b]
    BY <1>4, Shapes DEF Delete, MarkOffline, TypeOK, Row
  <2>2. QED
    BY <2>1 DEF RecordedIsOlder
<1>5. ASSUME agents' = agents, contact' = contact PROVE RecordedIsOlder'
  BY <1>5 DEF RecordedIsOlder
<1>6. QED
  BY <1>1, <1>2, <1>3, <1>4, <1>5
  DEF Next, LoopStep, Failure, Arrive, RequestFails, Acknowledge, StartScan, SelectStale,
      Fire, FireFails, EndScan, ScanFails, Crash, vars

\* An agent shown online was named by a request within the timeout, as its row is never
\* younger than the newest of them.
LEMMA RecordedMeansRecent == TypeOK /\ RecordedIsOlder => OnlineIsRecent
<1> SUFFICES ASSUME TypeOK, RecordedIsOlder, NEW a \in Present, Shown(a) = "online"
             PROVE  contact[a] <= Timeout
  BY DEF OnlineIsRecent
<1>1. a \in Agents /\ contact[a] \in 0..Cap /\ agents[a].beat \in 0..Cap
  BY Shapes DEF Present, TypeOK
<1>2. contact[a] <= agents[a].beat
  BY <1>1 DEF RecordedIsOlder
<1>3. ~(agents[a].beat > Timeout)
  BY DEF Shown
<1>4. Cap \in Nat
  BY StatusAssumption DEF Cap
<1>5. QED
  BY <1>1, <1>2, <1>3, <1>4, StatusAssumption

\* An agent shown online was named by a request received within the timeout, its own
\* heartbeat or push or another agent's push with its id, however slow the requests and
\* the loop are.
THEOREM OnlineMeansRecent == Spec => []OnlineIsRecent
<1>1. Init => TypeOK /\ RecordedIsOlder
  BY TypeInit, StatusAssumption DEF Init, RecordedIsOlder, Cap
<1>2. TypeOK /\ RecordedIsOlder /\ [Next]_vars => (TypeOK /\ RecordedIsOlder)'
  BY TypeStep, RecordedStep
<1>3. QED
  BY <1>1, <1>2, RecordedMeansRecent, PTL DEF Spec

-----------------------------------------------------------------------------
(* Every outage stores an alert of its own.  An alert is at most two lags  *)
(* younger than the heartbeat that brought the agent back; so if timeout   *)
(* minus two lags covers the duplicate window, the next marking finds the  *)
(* alert out of the window.                                                *)

OldAlert(a) == alertAge[a] >= AlertWindow

AlertFollowsBeat ==
    \A a \in Present : agents[a].status = "online" => agents[a].beat <= alertAge[a] + 2 * MaxLag

CurrentBeatIsFresh ==
    loop.pc = "fire" /\ loop.cur \in Present /\ agents[loop.cur].status = "online"
        => agents[loop.cur].beat <= loop.age + MaxLag

MarkedHaveOldAlerts ==
    /\ loop.pc \in {"mark", "fire"} => \A a \in loop.todo : OldAlert(a)
    /\ loop.pc = "fire" => OldAlert(loop.cur) /\ loop.cur \notin loop.todo

OutageInv ==
    TypeOK /\ AlertFollowsBeat /\ CurrentBeatIsFresh /\ MarkedHaveOldAlerts /\ OutageIsAlerted

\* A tick keeps rows and statuses and ages the heartbeats and the alerts.
LEMMA TickAges ==
    ASSUME TypeOK, Tick, NEW a \in Agents
    PROVE  /\ agents'[a].row = agents[a].row /\ agents'[a].status = agents[a].status
           /\ agents'[a].beat \in {agents[a].beat, agents[a].beat + 1}
           /\ agents[a].beat \in 0..Cap /\ agents'[a].beat \in 0..Cap
           /\ alertAge[a] \in 0..Cap /\ alertAge'[a] \in 0..Cap
           /\ alertAge'[a] >= alertAge[a]
           /\ agents'[a].beat = agents[a].beat + 1 => alertAge'[a] = alertAge[a] + 1 \/ alertAge'[a] = Cap
<1>1. /\ agents'[a] = [row |-> agents[a].row, status |-> agents[a].status,
                       beat |-> Older(agents[a].beat)]
      /\ Older(agents[a].beat) \in 0..Cap
  BY TickShape
<1>2. alertAge'[a] = Older(alertAge[a]) /\ alertAge[a] \in 0..Cap
  BY DEF Tick, TypeOK
<1>3. agents[a].beat \in 0..Cap
  BY Shapes
<1>4. Cap \in Nat
  BY StatusAssumption DEF Cap
<1>5. QED
  BY <1>1, <1>2, <1>3, <1>4 DEF Older

\* What Beat does to a row that is there.
LEMMA BeatShape ==
    ASSUME TypeOK, NEW h \in Handlers, Beat(h)
    PROVE  /\ handler[h].agent \in Agents /\ handler[h].age \in 0..MaxLag
           /\ \A a \in Agents :
                \/ agents'[a] = agents[a]
                \/ agents'[a] = [row |-> "present", status |-> "online", beat |-> handler[h].age]
           /\ UNCHANGED <<loop, alertAge, alerted, lost>>
<1>1. handler[h] # Idle
  BY DEF Beat, Idle
<1>2. handler[h].agent \in Agents /\ handler[h].age \in 0..MaxLag
  BY <1>1, Shapes
<1>3. QED
  BY <1>2 DEF Beat, TypeOK

\* The bounds the alert ages and the heartbeat ages of well-typed states obey.
LEMMA AgesTyped ==
    ASSUME TypeOK
    PROVE  /\ Cap \in Nat /\ MaxLag \in Nat /\ AlertWindow \in Nat /\ Timeout \in Nat
           /\ Cap = Timeout + MaxLag + 1
           /\ \A a \in Agents : alertAge[a] \in 0..Cap /\ agents[a].beat \in 0..Cap
           /\ loop.pc # "sleep" => loop.age \in 0..MaxLag
<1>1. \A a \in Agents : alertAge[a] \in 0..Cap /\ agents[a].beat \in 0..Cap
  BY Shapes DEF TypeOK
<1>2. loop.pc # "sleep" => loop.age \in 0..MaxLag
  BY Shapes DEF Asleep
<1>3. QED
  BY <1>1, <1>2, StatusAssumption DEF Cap

\* The newest alert of an online agent is at most two lags younger than its heartbeat.
LEMMA FollowsStep ==
    ASSUME TypeOK, AlertFollowsBeat, CurrentBeatIsFresh, [Next]_vars
    PROVE  AlertFollowsBeat'
<1>a. /\ Cap \in Nat /\ MaxLag \in Nat
      /\ \A a \in Agents : alertAge[a] \in 0..Cap /\ agents[a].beat \in 0..Cap
      /\ loop.pc # "sleep" => loop.age \in 0..MaxLag
  BY AgesTyped
<1>1. CASE Tick
  <2> SUFFICES ASSUME NEW a \in Agents, agents'[a].row = "present", agents'[a].status = "online"
               PROVE  agents'[a].beat <= alertAge'[a] + 2 * MaxLag
    BY DEF AlertFollowsBeat, Present
  <2>1. /\ agents[a].row = "present" /\ agents[a].status = "online"
        /\ agents'[a].beat \in {agents[a].beat, agents[a].beat + 1}
        /\ agents[a].beat \in 0..Cap /\ agents'[a].beat \in 0..Cap
        /\ alertAge[a] \in 0..Cap /\ alertAge'[a] \in 0..Cap
        /\ alertAge'[a] >= alertAge[a]
        /\ agents'[a].beat = agents[a].beat + 1 => alertAge'[a] = alertAge[a] + 1 \/ alertAge'[a] = Cap
    BY <1>1, TickAges
  <2>2. agents[a].beat <= alertAge[a] + 2 * MaxLag
    BY <2>1 DEF AlertFollowsBeat, Present
  <2>3. QED
    BY <2>1, <2>2, <1>a
<1>2. ASSUME NEW b \in Agents, Register(b) PROVE AlertFollowsBeat'
  BY <1>2, <1>a DEF Register, AlertFollowsBeat, Present, TypeOK
<1>3. ASSUME NEW h \in Handlers, Beat(h) PROVE AlertFollowsBeat'
  <2> SUFFICES ASSUME NEW a \in Agents, agents'[a].row = "present", agents'[a].status = "online"
               PROVE  agents'[a].beat <= alertAge[a] + 2 * MaxLag
    BY <1>3, BeatShape DEF AlertFollowsBeat, Present
  <2>1. CASE agents'[a] = agents[a]
    BY <2>1 DEF AlertFollowsBeat, Present
  <2>2. CASE agents'[a] = [row |-> "present", status |-> "online", beat |-> handler[h].age]
    <3>1. agents'[a].beat \in 0..MaxLag
      BY <1>3, <2>2, BeatShape
    <3>2. QED
      BY <3>1, <1>a
  <2>3. QED
    BY <1>3, <2>1, <2>2, BeatShape
<1>4. ASSUME NEW b \in Agents, Delete(b) \/ MarkOffline(b) PROVE AlertFollowsBeat'
  <2>1. \A a \in Agents :
          /\ agents'[a].beat = agents[a].beat /\ alertAge'[a] = alertAge[a]
          /\ agents'[a].row = "present" => agents[a].row = "present"
          /\ agents'[a].status = "online" => agents[a].status = "online"
    BY <1>4, Shapes DEF Delete, MarkOffline, TypeOK, Row, Present
  <2>2. QED
    BY <2>1 DEF AlertFollowsBeat, Present
<1>5. ASSUME NEW b \in Agents, Acknowledge(b) PROVE AlertFollowsBeat'
  <2>1. /\ agents' = agents
        /\ \A a \in Agents : alertAge'[a] = IF a = b THEN Cap ELSE alertAge[a]
    BY <1>5 DEF Acknowledge, TypeOK
  <2>2. QED
    BY <2>1, <1>a DEF AlertFollowsBeat, Present
<1>6. CASE Fire
  <2>1. /\ agents' = agents /\ loop.age \in 0..MaxLag
        /\ \A a \in Agents : alertAge'[a] = alertAge[a] \/ (a = loop.cur /\ alertAge'[a] = 0)
    BY <1>6, <1>a DEF Fire, TypeOK
  <2>2. loop.cur \in Present /\ agents[loop.cur].status = "online"
            => agents[loop.cur].beat <= 2 * MaxLag
    BY <1>6, <1>a, <2>1 DEF Fire, CurrentBeatIsFresh, Present
  <2>3. ASSUME NEW a \in Agents, agents[a].row = "present", agents[a].status = "online"
        PROVE  agents[a].beat <= alertAge'[a] + 2 * MaxLag
    <3>1. CASE alertAge'[a] = alertAge[a]
      BY <2>3, <3>1 DEF AlertFollowsBeat, Present
    <3>2. CASE a = loop.cur /\ alertAge'[a] = 0
      BY <2>2, <2>3, <3>2, <1>a DEF Present
    <3>3. QED
      BY <2>1, <3>1, <3>2
  <2>4. QED
    BY <2>1, <2>3 DEF AlertFollowsBeat, Present
<1>7. ASSUME agents' = agents, alertAge' = alertAge PROVE AlertFollowsBeat'
  BY <1>7 DEF AlertFollowsBeat, Present
<1>8. QED
  BY <1>1, <1>2, <1>3, <1>4, <1>5, <1>6, <1>7
  DEF Next, LoopStep, Failure, Arrive, RequestFails, StartScan, SelectStale, FireFails,
      EndScan, ScanFails, Crash, vars

\* An agent that came back while its alert is being fired came back with a fresh heartbeat.
LEMMA FreshStep ==
    ASSUME TypeOK, CurrentBeatIsFresh, [Next]_vars
    PROVE  CurrentBeatIsFresh'
<1>a. /\ Cap \in Nat /\ MaxLag \in Nat
      /\ loop.pc # "sleep" => loop.age \in 0..MaxLag
  BY AgesTyped
<1>1. CASE Tick
  <2> SUFFICES ASSUME loop'.pc = "fire", loop'.cur \in Agents, agents'[loop'.cur].row = "present",
                      agents'[loop'.cur].status = "online"
               PROVE  agents'[loop'.cur].beat <= loop'.age + MaxLag
    BY DEF CurrentBeatIsFresh, Present
  <2>1. /\ loop.pc = "fire" /\ loop'.cur = loop.cur /\ loop'.age = loop.age + 1
    BY <1>1, TickShape DEF Asleep
  <2>2. /\ agents[loop.cur].row = "present" /\ agents[loop.cur].status = "online"
        /\ agents'[loop.cur].beat \in {agents[loop.cur].beat, agents[loop.cur].beat + 1}
        /\ agents[loop.cur].beat \in 0..Cap
    BY <1>1, <2>1, TickAges
  <2>3. agents[loop.cur].beat <= loop.age + MaxLag /\ loop.age \in 0..MaxLag
    BY <2>1, <2>2, <1>a DEF CurrentBeatIsFresh, Present
  <2>4. QED
    BY <2>1, <2>2, <2>3, <1>a
<1>2. ASSUME NEW b \in Agents, Register(b) PROVE CurrentBeatIsFresh'
  BY <1>2, <1>a DEF Register, CurrentBeatIsFresh, Present, TypeOK
<1>3. ASSUME NEW h \in Handlers, Beat(h) PROVE CurrentBeatIsFresh'
  <2> SUFFICES ASSUME loop.pc = "fire", loop.cur \in Agents, agents'[loop.cur].row = "present",
                      agents'[loop.cur].status = "online"
               PROVE  agents'[loop.cur].beat <= loop.age + MaxLag
    BY <1>3, BeatShape DEF CurrentBeatIsFresh, Present
  <2>1. CASE agents'[loop.cur] = agents[loop.cur]
    BY <2>1 DEF CurrentBeatIsFresh, Present
  <2>2. CASE agents'[loop.cur] = [row |-> "present", status |-> "online", beat |-> handler[h].age]
    <3>1. agents'[loop.cur].beat \in 0..MaxLag
      BY <1>3, <2>2, BeatShape
    <3>2. QED
      BY <3>1, <1>a
  <2>3. QED
    BY <1>3, <2>1, <2>2, BeatShape
<1>4. ASSUME NEW b \in Agents, Delete(b) PROVE CurrentBeatIsFresh'
  <2>1. loop' = loop /\ \A a \in Agents :
          /\ agents'[a].beat = agents[a].beat
          /\ agents'[a].row = "present" => agents[a].row = "present"
          /\ agents'[a].status = agents[a].status
    BY <1>4, Shapes DEF Delete, TypeOK, Row
  <2>2. QED
    BY <2>1 DEF CurrentBeatIsFresh, Present
<1>5. ASSUME NEW b \in Agents, MarkOffline(b) PROVE CurrentBeatIsFresh'
  <2>1. loop'.cur = b /\ (agents'[b].row = "present" => agents'[b].status = "offline")
    BY <1>5, Shapes DEF MarkOffline, TypeOK, Row, Present
  <2>2. QED
    BY <2>1 DEF CurrentBeatIsFresh, Present
<1>6. ASSUME loop'.pc # "fire" PROVE CurrentBeatIsFresh'
  BY <1>6 DEF CurrentBeatIsFresh
<1>7. ASSUME agents' = agents, loop' = loop PROVE CurrentBeatIsFresh'
  BY <1>7 DEF CurrentBeatIsFresh, Present
<1>8. QED
  BY <1>1, <1>2, <1>3, <1>4, <1>5, <1>6, <1>7
  DEF Next, LoopStep, Failure, Arrive, RequestFails, Acknowledge, StartScan, SelectStale,
      Fire, FireFails, AfterFire, EndScan, ScanFails, Crash, vars, Asleep

\* An agent the scan selects has no alert within the window.
LEMMA MarkedStep ==
    ASSUME AlertWindow + 2 * MaxLag <= Timeout,
           TypeOK, AlertFollowsBeat, MarkedHaveOldAlerts, [Next]_vars
    PROVE  MarkedHaveOldAlerts'
<1>a. /\ Cap \in Nat /\ MaxLag \in Nat /\ AlertWindow \in Nat /\ Timeout \in Nat
      /\ Cap = Timeout + MaxLag + 1
      /\ \A a \in Agents : alertAge[a] \in 0..Cap /\ agents[a].beat \in 0..Cap
      /\ loop.pc # "sleep" => loop.age \in 0..MaxLag
  BY AgesTyped
<1>b. /\ loop.pc \in {"mark", "fire"} => loop.todo \in SUBSET Agents
      /\ loop.pc = "fire" => loop.cur \in Agents
  BY Shapes DEF Asleep
<1>1. CASE Tick
  <2>1. \A a \in Agents : OldAlert(a) => OldAlert(a)'
    <3> SUFFICES ASSUME NEW a \in Agents, alertAge[a] >= AlertWindow
                 PROVE  alertAge'[a] >= AlertWindow
      BY DEF OldAlert
    <3>1. alertAge'[a] >= alertAge[a] /\ alertAge'[a] \in 0..Cap /\ alertAge[a] \in 0..Cap
      BY <1>1, TickAges
    <3>2. QED
      BY <3>1, <1>a
  <2>2. \/ loop'.pc \in {"sleep", "select"}
        \/ loop.pc = "mark" /\ loop'.pc = "mark" /\ loop'.todo = loop.todo
        \/ /\ loop.pc = "fire" /\ loop'.pc = "fire" /\ loop'.todo = loop.todo
           /\ loop'.cur = loop.cur
    BY <1>1, TickShape DEF Asleep
  <2>3. QED
    BY <2>1, <2>2, <1>b DEF MarkedHaveOldAlerts
<1>2. CASE SelectStale
  <2> SUFFICES ASSUME NEW a \in Agents, Stale(a) PROVE alertAge[a] >= AlertWindow
    BY <1>2 DEF SelectStale, MarkedHaveOldAlerts, OldAlert
  <2>1. agents[a].beat > loop.age + Timeout /\ agents[a].beat <= alertAge[a] + 2 * MaxLag
    BY DEF Stale, AlertFollowsBeat
  <2>2. loop.age \in 0..MaxLag
    BY <1>2, <1>a DEF SelectStale
  <2>3. QED
    BY <2>1, <2>2, <1>a
<1>3. ASSUME NEW b \in Agents, MarkOffline(b) PROVE MarkedHaveOldAlerts'
  BY <1>3 DEF MarkOffline, MarkedHaveOldAlerts, OldAlert
<1>4. CASE Fire \/ FireFails
  <2>1. /\ loop'.pc = "mark" /\ loop'.todo = loop.todo /\ loop.pc = "fire"
        /\ \A a \in Agents \ {loop.cur} : alertAge'[a] = alertAge[a]
    BY <1>4 DEF Fire, FireFails, AfterFire, TypeOK
  <2>2. QED
    BY <2>1, <1>b DEF MarkedHaveOldAlerts, OldAlert
<1>5. ASSUME NEW b \in Agents, Acknowledge(b) PROVE MarkedHaveOldAlerts'
  <2>1. /\ loop' = loop
        /\ \A a \in Agents : OldAlert(a) => OldAlert(a)'
    BY <1>5, <1>a DEF Acknowledge, TypeOK, OldAlert
  <2>2. QED
    BY <2>1, <1>b DEF MarkedHaveOldAlerts
<1>6. ASSUME loop'.pc \in {"sleep", "select"} PROVE MarkedHaveOldAlerts'
  BY <1>6 DEF MarkedHaveOldAlerts
<1>7. ASSUME alertAge' = alertAge, loop' = loop PROVE MarkedHaveOldAlerts'
  BY <1>7 DEF MarkedHaveOldAlerts, OldAlert
<1>8. ASSUME NEW h \in Handlers, Beat(h) PROVE MarkedHaveOldAlerts'
  BY <1>7, <1>8, BeatShape
<1>9. QED
  BY <1>1, <1>2, <1>3, <1>4, <1>5, <1>6, <1>7, <1>8
  DEF Next, LoopStep, Failure, Register, Arrive, RequestFails, Delete, StartScan,
      EndScan, ScanFails, Crash, vars, Asleep

\* A row that is offline has its alert, or lost it, or is having it fired.
LEMMA AlertedStep ==
    ASSUME TypeOK, MarkedHaveOldAlerts, OutageIsAlerted, [Next]_vars
    PROVE  OutageIsAlerted'
<1>b. loop.pc = "fire" => loop.cur \in Agents
  BY Shapes DEF Asleep
<1>1. CASE Tick
  <2>1. \A a \in Agents : agents'[a].row = agents[a].row /\ agents'[a].status = agents[a].status
    BY <1>1, TickAges
  <2>2. loop'.pc = loop.pc /\ (loop.pc = "fire" => loop'.cur = loop.cur)
    BY <1>1, TickShape DEF Asleep
  <2>3. QED
    BY <1>1, <2>1, <2>2 DEF OutageIsAlerted, Present, Tick
<1>2. ASSUME NEW b \in Agents, Register(b) PROVE OutageIsAlerted'
  BY <1>2 DEF Register, OutageIsAlerted, Present, TypeOK
<1>3. ASSUME NEW h \in Handlers, Beat(h) PROVE OutageIsAlerted'
  <2>1. UNCHANGED <<loop, alerted, lost>>
    BY <1>3, BeatShape
  <2>2. ASSUME NEW a \in Agents PROVE agents'[a] = agents[a] \/ agents'[a].status = "online"
    <3>1. \/ agents'[a] = agents[a]
          \/ agents'[a] = [row |-> "present", status |-> "online", beat |-> handler[h].age]
      BY <1>3, BeatShape
    <3>2. QED
      BY <3>1
  <2>3. QED
    BY <2>1, <2>2 DEF OutageIsAlerted, Present
<1>4. ASSUME NEW b \in Agents, Delete(b) PROVE OutageIsAlerted'
  <2>1. \A a \in Agents :
          /\ agents'[a].row = "present" => agents[a].row = "present"
          /\ agents'[a].status = agents[a].status
    BY <1>4, Shapes DEF Delete, TypeOK, Row
  <2>2. QED
    BY <1>4, <2>1 DEF OutageIsAlerted, Present, Delete
<1>5. ASSUME NEW b \in Agents, MarkOffline(b) PROVE OutageIsAlerted'
  <2>1. /\ loop'.pc = "fire" /\ loop'.cur = b /\ loop.pc = "mark"
        /\ \A a \in Agents \ {b} : agents'[a] = agents[a]
        /\ alerted' = alerted \ {b} /\ lost' = lost \ {b}
    BY <1>5 DEF MarkOffline, TypeOK
  <2>2. QED
    BY <2>1 DEF OutageIsAlerted, Present
<1>6. CASE Fire
  <2>1. /\ agents' = agents /\ lost' = lost
        /\ alerted' = alerted \cup {loop.cur}
    <3>1. alertAge[loop.cur] >= AlertWindow /\ alertAge[loop.cur] \in 0..Cap /\ Cap \in Nat
      BY <1>6, <1>b, AgesTyped DEF Fire, MarkedHaveOldAlerts, OldAlert
    <3>2. ~(alertAge[loop.cur] < AlertWindow)
      BY <3>1, AgesTyped
    <3>3. QED
      BY <1>6, <3>2 DEF Fire
  <2>2. QED
    BY <1>6, <2>1 DEF OutageIsAlerted, Present, Fire, AfterFire
<1>7. CASE FireFails \/ Crash
  BY <1>7 DEF FireFails, Crash, OutageIsAlerted, Present, AfterFire, Asleep
<1>8. CASE StartScan \/ SelectStale \/ EndScan \/ ScanFails
  BY <1>8 DEF StartScan, SelectStale, EndScan, ScanFails, OutageIsAlerted, Present, Asleep
<1>9. ASSUME agents' = agents, loop' = loop, alerted' = alerted, lost' = lost PROVE OutageIsAlerted'
  BY <1>9 DEF OutageIsAlerted, Present
<1>10. QED
  BY <1>1, <1>2, <1>3, <1>4, <1>5, <1>6, <1>7, <1>8, <1>9
  DEF Next, LoopStep, Failure, Arrive, RequestFails, Acknowledge, vars

\* With 120 s of timeout and a window of 60 s, no alert of an outage is taken for
\* a duplicate as long as requests and scans take at most 30 s each.
THEOREM OutagesAreAlerted ==
    ASSUME AlertWindow + 2 * MaxLag <= Timeout
    PROVE  Spec => []OutageIsAlerted
<1>1. Init => OutageInv
  <2> SUFFICES ASSUME Init PROVE OutageInv
    OBVIOUS
  <2>1. TypeOK
    BY TypeInit
  <2>2. /\ Present = {} /\ loop.pc = "sleep"
    BY DEF Init, Present, Asleep
  <2>3. QED
    BY <2>1, <2>2 DEF OutageInv, AlertFollowsBeat, CurrentBeatIsFresh, MarkedHaveOldAlerts, OutageIsAlerted
<1>2. OutageInv /\ [Next]_vars => OutageInv'
  BY TypeStep, FollowsStep, FreshStep, MarkedStep, AlertedStep DEF OutageInv
<1>3. OutageInv => OutageIsAlerted
  BY DEF OutageInv
<1>4. QED
  BY <1>1, <1>2, <1>3, PTL DEF Spec

-----------------------------------------------------------------------------
(* Servers.                                                                *)

\* A probe that can be sent goes to a host its server had, and a server it was started
\* for is listed, being removed, or was removed while the probe ran.
ProbesAreOwn ==
    /\ \A s \in Listed : servers[s].host \in hadHosts[s] \cup OddHosts
    /\ \A t \in DOMAIN probing :
         /\ probing[t].host \in hadHosts[probing[t].id] \cup OddHosts
         /\ probing[t].id \in Listed \cup removing \cup raced

ServersInv == ServersTypeOK /\ ProbesAreOwn /\ ReadingIsOwn /\ OrphansWereInFlight

LEMMA EmptyIsEmpty == /\ DOMAIN Empty = {}
                       /\ \A S : Empty \in [{} -> S]
  BY DEF Empty

LEMMA ServersInvInit == ASSUME ServersInit PROVE ServersInv
  <1>. USE ServersAssumption, TableAssumption
  <1>1. ServersTypeOK
    <2>1. /\ servers \in [Listed -> ServerRow] /\ Listed = {}
          /\ latest \in [DOMAIN latest -> Hosts] /\ DOMAIN latest = {}
          /\ DOMAIN status = {} /\ DOMAIN probing = {}
          /\ status \in [DOMAIN status -> [online : BOOLEAN, host : Hosts]]
          /\ probing \in [DOMAIN probing -> Probe]
      BY EmptyIsEmpty DEF ServersInit, TableInit, Listed
    <2>2. hadHosts \in [ServerIds -> SUBSET Hosts]
      BY DEF ServersInit
    <2>3. /\ lastId = 0 /\ lastId \in 0..MaxServers
          /\ removing = {} /\ raced = {}
      BY DEF ServersInit, TableInit
    <2>4. round \in BOOLEAN
      BY DEF ServersInit
    <2>. QED
      BY <2>1, <2>2, <2>3, <2>4 DEF ServersTypeOK
  <1>. QED
    BY <1>1, EmptyIsEmpty DEF ServersInit, TableInit, ServersInv, ProbesAreOwn, ReadingIsOwn,
                              OrphansWereInFlight, Listed

-----------------------------------------------------------------------------
(* What the operator does to the table.                                    *)

LEMMA AddKeeps == ASSUME ServersInv, NEW h \in Hosts, Add(h) PROVE ServersInv'
  <1>. USE TableAssumption DEF ServersInv
  <1>. DEFINE new == lastId + 1
  <1>1. /\ lastId \in Nat /\ new \in ServerIds /\ lastId' = new
        /\ new \notin Listed /\ 1..lastId \subseteq 1..new /\ new \in 1..new
    BY DEF Add, AddServer, ServersTypeOK, ServerIds
  <1>2. /\ Listed' = Listed \cup {new}
        /\ \A s \in Listed : servers'[s] = servers[s]
        /\ servers'[new] = [host |-> h, enabled |-> TRUE]
        /\ servers' = [x \in Listed \cup {new} |-> servers'[x]]
    BY <1>1 DEF Add, AddServer, Put, Listed
  <1>3. /\ hadHosts' \in [ServerIds -> SUBSET Hosts]
        /\ hadHosts'[new] = {h}
        /\ \A s \in 1..lastId : hadHosts'[s] = hadHosts[s]
    BY <1>1 DEF Add, ServersTypeOK, ServerIds
  <1>4. UNCHANGED <<latest, status, probing, round, removing, raced>>
    BY DEF Add
  <1>5. ServersTypeOK'
    <2>1. servers' \in [Listed' -> ServerRow]
      <3>1. \A s \in Listed \cup {new} : servers'[s] \in ServerRow
        <4>1. [host |-> h, enabled |-> TRUE] \in ServerRow
          BY DEF ServerRow
        <4>2. \A s \in Listed : servers[s] \in ServerRow
          BY DEF ServersTypeOK
        <4>. QED
          BY <1>2, <4>1, <4>2
      <3>. QED
        BY <1>2, <3>1
    <2>2. Listed' \subseteq 1..new
      BY <1>1, <1>2 DEF ServersTypeOK
    <2>. QED
      BY <1>1, <1>3, <1>4, <2>1, <2>2 DEF ServersTypeOK, ServerIds
  <1>6. ProbesAreOwn'
    BY <1>1, <1>2, <1>3, <1>4 DEF ServersTypeOK, ProbesAreOwn
  <1>7. ReadingIsOwn'
    BY <1>3, <1>4 DEF ServersTypeOK, ReadingIsOwn
  <1>8. OrphansWereInFlight'
    BY <1>2, <1>4 DEF OrphansWereInFlight
  <1>. QED
    BY <1>5, <1>6, <1>7, <1>8

LEMMA UpdateKeeps ==
    ASSUME ServersInv, NEW s \in ServerIds, NEW row \in ServerRow, Update(s, row)
    PROVE  ServersInv'
  <1>. USE TableAssumption DEF ServersInv
  <1>1. /\ s \in Listed /\ Listed' = Listed /\ lastId' = lastId
        /\ servers' = [x \in Listed |-> IF x = s THEN row ELSE servers[x]]
    BY DEF Update, UpdateServer, Put, Listed
  <1>2. /\ hadHosts' \in [ServerIds -> SUBSET Hosts]
        /\ row.host \in hadHosts'[s] \cup OddHosts
        /\ \A x \in ServerIds : hadHosts[x] \subseteq hadHosts'[x]
    BY DEF Update, ServersTypeOK, ServerRow
  <1>3. UNCHANGED <<latest, status, probing, round, removing, raced>>
    BY DEF Update
  <1>4. 1..lastId \subseteq ServerIds
    BY DEF ServersTypeOK, ServerIds
  <1>5. ServersTypeOK'
    BY <1>1, <1>2, <1>3 DEF ServersTypeOK
  <1>6. ProbesAreOwn'
    BY <1>1, <1>2, <1>3, <1>4 DEF ServersTypeOK, ProbesAreOwn
  <1>7. ReadingIsOwn'
    BY <1>2, <1>3, <1>4 DEF ServersTypeOK, ReadingIsOwn
  <1>8. OrphansWereInFlight'
    BY <1>1, <1>3 DEF OrphansWereInFlight
  <1>. QED
    BY <1>5, <1>6, <1>7, <1>8

\* Between the DELETE and the pops an id counts as being removed; the pops leave it
\* only to the probes that are still running.
LEMMA RemoveKeeps ==
    ASSUME ServersInv, NEW s \in ServerIds, RemoveServer(s) \/ Forget(s)
    PROVE  ServersInv'
  <1>. USE DEF ServersInv
  <1>1. CASE RemoveServer(s)
    <2>1. /\ s \in Listed /\ Listed' = Listed \ {s} /\ lastId' = lastId
          /\ servers' = [x \in Listed \ {s} |-> servers[x]]
          /\ removing' = removing \cup {s}
          /\ UNCHANGED <<latest, status, probing, round, hadHosts, raced>>
      BY <1>1 DEF RemoveServer, DeleteServer, Pop, Listed
    <2>2. ServersTypeOK'
      BY <2>1 DEF ServersTypeOK
    <2>. QED
      BY <2>1, <2>2 DEF ServersTypeOK, ProbesAreOwn, ReadingIsOwn, OrphansWereInFlight
  <1>2. CASE Forget(s)
    <2>1. /\ Listed' = Listed /\ s \in removing
          /\ removing' = removing \ {s}
          /\ latest' = [x \in (DOMAIN latest) \ {s} |-> latest[x]]
          /\ status' = [x \in (DOMAIN status) \ {s} |-> status[x]]
          /\ UNCHANGED <<servers, lastId, probing, round, hadHosts>>
      BY <1>2 DEF Forget, Pop, Listed, tableVars
    <2>2. /\ raced \subseteq raced' /\ raced' \subseteq raced \cup {s}
          /\ InFlight(s) => s \in raced'
      BY <1>2 DEF Forget
    <2>3. ServersTypeOK'
      BY <2>1, <2>2 DEF ServersTypeOK
    <2>4. ProbesAreOwn'
      BY <2>1, <2>2 DEF ProbesAreOwn, InFlight
    <2>. QED
      BY <2>1, <2>2, <2>3, <2>4 DEF ReadingIsOwn, OrphansWereInFlight
  <1>. QED
    BY <1>1, <1>2

-----------------------------------------------------------------------------
(* Probes.                                                                 *)

\* A probe that starts is told the host of a listed server.
LEMMA StartKeeps ==
    ASSUME ServersInv,
           StartRound \/ \E m \in Manual, s \in ServerIds : StartManual(m, s)
    PROVE  ServersInv'
  <1>. USE DEF ServersInv
  <1>1. /\ UNCHANGED <<tableVars, latest, status, removing, hadHosts, raced>>
        /\ round' \in BOOLEAN
    BY DEF StartRound, StartManual, ServersTypeOK
  <1>2. /\ DOMAIN probing' \subseteq Tasks
        /\ probing' = [t \in DOMAIN probing' |-> probing'[t]]
        /\ \A t \in DOMAIN probing' :
             \/ t \in DOMAIN probing /\ probing'[t] = probing[t]
             \/ \E s \in Listed : probing'[t] = [id |-> s, host |-> servers[s].host]
    <2>1. CASE StartRound
      <3>1. /\ DOMAIN probing' = (DOMAIN probing) \cup Enabled
            /\ probing' = [t \in (DOMAIN probing) \cup Enabled |->
                             IF t \in Enabled THEN [id |-> t, host |-> servers[t].host]
                             ELSE probing[t]]
        BY <2>1 DEF StartRound
      <3>2. Enabled \subseteq Listed /\ Enabled \subseteq Tasks
        BY TableAssumption DEF Enabled, ServersTypeOK, Tasks, ServerIds
      <3>3. DOMAIN probing' \subseteq Tasks
        BY <3>1, <3>2 DEF ServersTypeOK
      <3>4. ASSUME NEW t \in DOMAIN probing'
            PROVE  \/ t \in DOMAIN probing /\ probing'[t] = probing[t]
                   \/ \E s \in Listed : probing'[t] = [id |-> s, host |-> servers[s].host]
        <4>1. CASE t \in Enabled
          BY <3>1, <3>2, <4>1
        <4>2. CASE t \notin Enabled
          BY <3>1, <4>2
        <4>. QED
          BY <4>1, <4>2
      <3>. QED
        BY <3>1, <3>3, <3>4
    <2>2. CASE \E m \in Manual, s \in ServerIds : StartManual(m, s)
      BY <2>2 DEF StartManual, Put, ServersTypeOK, Tasks
    <2>. QED
      BY <2>1, <2>2
  <1>3. ASSUME NEW t \in DOMAIN probing'
        PROVE  /\ probing'[t] \in Probe
               /\ probing'[t].id \in 1..lastId
               /\ probing'[t].host \in hadHosts[probing'[t].id] \cup OddHosts
               /\ probing'[t].id \in Listed \cup removing \cup raced
    <2>1. CASE t \in DOMAIN probing /\ probing'[t] = probing[t]
      BY <2>1 DEF ServersTypeOK, ProbesAreOwn
    <2>2. CASE \E s \in Listed : probing'[t] = [id |-> s, host |-> servers[s].host]
      <3>1. PICK s \in Listed : probing'[t] = [id |-> s, host |-> servers[s].host]
        BY <2>2
      <3>2. s \in 1..lastId /\ s \in ServerIds /\ servers[s].host \in Hosts
        BY TableAssumption DEF ServersTypeOK, ServerRow, ServerIds
      <3>. QED
        BY <3>1, <3>2 DEF Probe, ProbesAreOwn
    <2>. QED
      BY <1>2, <2>1, <2>2
  <1>4. ServersTypeOK'
    BY <1>1, <1>2, <1>3 DEF ServersTypeOK, tableVars, Listed
  <1>. QED
    BY <1>1, <1>3, <1>4 DEF ProbesAreOwn, ReadingIsOwn, OrphansWereInFlight, tableVars, Listed

\* What a probe writes goes under the id it was started for.
LEMMA AnswerKeeps ==
    ASSUME ServersInv, NEW t \in Tasks, Answer(t) \/ NoAnswer(t)
    PROVE  ServersInv'
  <1>. USE DEF ServersInv
  <1>. DEFINE p == probing[t]
  <1>1. /\ t \in DOMAIN probing
        /\ p.id \in 1..lastId /\ p.host \in Hosts /\ p.host \in hadHosts[p.id]
        /\ p.id \in Listed \cup removing \cup raced
    BY DEF Answer, NoAnswer, ServersTypeOK, Probe, ProbesAreOwn
  <1>2. /\ probing' = [x \in (DOMAIN probing) \ {t} |-> probing[x]]
        /\ UNCHANGED <<tableVars, round, removing, hadHosts, raced>>
        /\ Listed' = Listed
    BY DEF Answer, NoAnswer, Pop, tableVars, Listed
  <1>3. /\ DOMAIN latest' \subseteq (DOMAIN latest) \cup {p.id}
        /\ latest' = [s \in DOMAIN latest' |-> latest'[s]]
        /\ \A s \in DOMAIN latest' :
             \/ s \in DOMAIN latest /\ latest'[s] = latest[s]
             \/ s = p.id /\ latest'[s] = p.host
    BY DEF Answer, NoAnswer, Put, ServersTypeOK
  <1>4. \E st \in [online : BOOLEAN, host : {p.host}] :
           status' = Put(status, p.id, st)
    <2>1. CASE Answer(t)
      <3>. DEFINE st == [online |-> TRUE, host |-> p.host]
      <3>1. st \in [online : BOOLEAN, host : {p.host}]
        OBVIOUS
      <3>2. status' = Put(status, p.id, st)
        BY <2>1 DEF Answer
      <3>. QED
        BY <3>1, <3>2
    <2>2. CASE NoAnswer(t)
      <3>. DEFINE st == [online |-> FALSE, host |-> p.host]
      <3>1. st \in [online : BOOLEAN, host : {p.host}]
        OBVIOUS
      <3>2. status' = Put(status, p.id, st)
        BY <2>2 DEF NoAnswer
      <3>. QED
        BY <3>1, <3>2
    <2>. QED
      BY <2>1, <2>2
  <1>5. /\ DOMAIN status' = (DOMAIN status) \cup {p.id}
        /\ status' = [s \in DOMAIN status' |-> status'[s]]
        /\ \A s \in DOMAIN status' :
             \/ s \in DOMAIN status /\ status'[s] = status[s]
             \/ s = p.id /\ status'[s] \in [online : BOOLEAN, host : {p.host}]
    BY <1>4 DEF Put
  <1>6. ServersTypeOK'
    <2>1. DOMAIN latest' \subseteq 1..lastId /\ latest' \in [DOMAIN latest' -> Hosts]
      BY <1>1, <1>3 DEF ServersTypeOK
    <2>2. \A s \in DOMAIN status' : status'[s] \in [online : BOOLEAN, host : Hosts]
      BY <1>1, <1>5 DEF ServersTypeOK
    <2>3. DOMAIN status' \subseteq 1..lastId
      BY <1>1, <1>5 DEF ServersTypeOK
    <2>4. /\ DOMAIN probing' \subseteq Tasks /\ probing' \in [DOMAIN probing' -> Probe]
          /\ \A x \in DOMAIN probing' : probing'[x].id \in 1..lastId
      BY <1>2 DEF ServersTypeOK
    <2>. QED
      BY <1>2, <1>5, <2>1, <2>2, <2>3, <2>4 DEF ServersTypeOK, tableVars
  <1>7. ProbesAreOwn'
    BY <1>2 DEF ProbesAreOwn, tableVars
  <1>8. ReadingIsOwn'
    <2>1. \A s \in DOMAIN latest' : latest'[s] \in hadHosts[s]
      BY <1>1, <1>3 DEF ReadingIsOwn
    <2>2. \A s \in DOMAIN status' : status'[s].host \in hadHosts[s]
      BY <1>1, <1>5 DEF ReadingIsOwn
    <2>. QED
      BY <1>2, <2>1, <2>2 DEF ReadingIsOwn
  <1>9. OrphansWereInFlight'
    BY <1>1, <1>2, <1>3, <1>5 DEF OrphansWereInFlight
  <1>. QED
    BY <1>6, <1>7, <1>8, <1>9

\* A probe that raises writes nothing.
LEMMA RaisedKeeps ==
    ASSUME ServersInv, NEW t \in Tasks, ProbeRaises(t)
    PROVE  ServersInv'
  <1>. USE DEF ServersInv
  <1>1. /\ probing' = [x \in (DOMAIN probing) \ {t} |-> probing[x]]
        /\ UNCHANGED <<tableVars, latest, status, round, removing, hadHosts, raced>>
        /\ Listed' = Listed
    BY DEF ProbeRaises, Pop, tableVars, Listed
  <1>2. ServersTypeOK'
    BY <1>1 DEF ServersTypeOK, tableVars
  <1>. QED
    BY <1>1, <1>2 DEF ProbesAreOwn, ReadingIsOwn, OrphansWereInFlight, tableVars

LEMMA OtherKeeps ==
    ASSUME ServersInv, EndRound \/ Restart
    PROVE  ServersInv'
  <1>. USE DEF ServersInv
  <1>1. CASE EndRound
    BY <1>1 DEF EndRound, tableVars, ServersTypeOK, ProbesAreOwn, ReadingIsOwn,
                OrphansWereInFlight, Listed
  <1>2. CASE Restart
    <2>1. ServersTypeOK'
      <3>1. /\ latest' \in [DOMAIN latest' -> Hosts] /\ DOMAIN latest' = {}
            /\ DOMAIN status' = {} /\ DOMAIN probing' = {}
            /\ status' \in [DOMAIN status' -> [online : BOOLEAN, host : Hosts]]
            /\ probing' \in [DOMAIN probing' -> Probe]
        BY <1>2, EmptyIsEmpty DEF Restart
      <3>2. /\ UNCHANGED <<servers, lastId, hadHosts, raced>>
            /\ Listed' = Listed
            /\ removing' = {}
        BY <1>2 DEF Restart, tableVars, ServersTypeOK, Listed
      <3>3. round' \in BOOLEAN
        BY <1>2 DEF Restart
      <3>. QED
        BY <3>1, <3>2, <3>3 DEF ServersTypeOK
    <2>. QED
      BY <1>2, <2>1, EmptyIsEmpty DEF Restart, tableVars, ProbesAreOwn, ReadingIsOwn,
                                      OrphansWereInFlight, Listed
  <1>. QED
    BY <1>1, <1>2

-----------------------------------------------------------------------------

LEMMA ServersInvNext == ASSUME ServersInv, [ServersNext]_serversVars PROVE ServersInv'
  <1>1. CASE UNCHANGED serversVars
    BY <1>1 DEF serversVars, tableVars, cacheVars, ServersInv, ServersTypeOK, ProbesAreOwn,
                ReadingIsOwn, OrphansWereInFlight, Listed
  <1>2. CASE ServersNext
    BY <1>2, AddKeeps, UpdateKeeps, RemoveKeeps, StartKeeps, AnswerKeeps, RaisedKeeps,
       OtherKeeps
    DEF ServersNext, ProbeStep
  <1>. QED
    BY <1>1, <1>2

\* Every state of Servers is well typed, and the caches hold ids that were handed out.
THEOREM ServersAreTyped == ServersSpec => []ServersTypeOK
  <1>1. ServersInv => ServersTypeOK
    BY DEF ServersInv
  <1>. QED
    BY <1>1, ServersInvInit, ServersInvNext, PTL DEF ServersSpec

\* What is shown under an id was measured on a host that very server had.
THEOREM ReadingsAreOwn == ServersSpec => []ReadingIsOwn
  <1>1. ServersInv => ReadingIsOwn
    BY DEF ServersInv
  <1>. QED
    BY <1>1, ServersInvInit, ServersInvNext, PTL DEF ServersSpec

\* A removed server comes back only by a probe that was running when it was removed.
THEOREM OrphansAreRaces == ServersSpec => []OrphansWereInFlight
  <1>1. ServersInv => OrphansWereInFlight
    BY DEF ServersInv
  <1>. QED
    BY <1>1, ServersInvInit, ServersInvNext, PTL DEF ServersSpec

-----------------------------------------------------------------------------
(* LiveStream.  What a push task has taken and not sent is lost when it is  *)
(* cancelled; between two gets it holds nothing, so that a get replaces     *)
(* nothing, and an entry goes from the queue to the socket or stays.        *)

\* Exactly a task that is sending holds an entry; a connection that is open and not
\* subscribed has no task; histories start with an entry.
TasksHoldNothing ==
    \A c \in Clients : /\ client[c].task = "sending" <=> client[c].cur # 0
                       /\ client[c].conn \in {"new", "open"} /\ ~client[c].subscribed => client[c].task = "none"
                       /\ client[c].from > 0

StreamInv == StreamTypeOK /\ TasksHoldNothing /\ NoSilentGap

\* What the handler and the push task do to a connection's record.
LEMMA ClientUpdates ==
    ASSUME NEW s \in Client
    PROVE  /\ \A x \in {"new", "open", "closed", "gone"} :
                /\ [s EXCEPT !.conn = x] \in Client
                /\ [s EXCEPT !.conn = x, !.subscribed = FALSE] \in Client
           /\ [s EXCEPT !.subscribed = FALSE, !.task = "none", !.cur = 0] \in Client
           /\ [s EXCEPT !.task = "none"] \in Client
           /\ \A q \in Seq(1..MaxEntries) : [s EXCEPT !.queue = q] \in Client
           /\ \A e \in 1..MaxEntries, q \in Seq(1..MaxEntries) :
                [s EXCEPT !.task = "sending", !.cur = e, !.queue = q] \in Client
           /\ \A x \in SUBSET (1..MaxEntries) :
                /\ [s EXCEPT !.dropped = x] \in Client
                /\ [s EXCEPT !.task = "idle", !.cur = 0, !.sent = x] \in Client
           /\ \A x \in SUBSET (1..MaxEntries), f \in Nat, n \in 0..MaxSubs :
                [s EXCEPT !.subscribed = TRUE, !.task = "idle", !.subs = n,
                          !.from = f, !.sent = x, !.dropped = {}] \in Client
<1>1. \A x \in {"new", "open", "closed", "gone"} :
        /\ [s EXCEPT !.conn = x] \in Client
        /\ [s EXCEPT !.conn = x, !.subscribed = FALSE] \in Client
  BY DEF Client
<1>2. 0 \in 0..MaxEntries
  BY StreamAssumption
<1>3. /\ [s EXCEPT !.subscribed = FALSE, !.task = "none", !.cur = 0] \in Client
      /\ [s EXCEPT !.task = "none"] \in Client
  BY <1>2 DEF Client
<1>4. /\ \A q \in Seq(1..MaxEntries) : [s EXCEPT !.queue = q] \in Client
      /\ \A e \in 1..MaxEntries, q \in Seq(1..MaxEntries) :
           [s EXCEPT !.task = "sending", !.cur = e, !.queue = q] \in Client
  <2>1. \A e \in 1..MaxEntries : e \in 0..MaxEntries
    OBVIOUS
  <2>2. QED
    BY <2>1 DEF Client
<1>5. \A x \in SUBSET (1..MaxEntries) :
        /\ [s EXCEPT !.dropped = x] \in Client
        /\ [s EXCEPT !.task = "idle", !.cur = 0, !.sent = x] \in Client
  BY <1>2 DEF Client
<1>6. \A x \in SUBSET (1..MaxEntries), f \in Nat, n \in 0..MaxSubs :
        [s EXCEPT !.subscribed = TRUE, !.task = "idle", !.subs = n,
                  !.from = f, !.sent = x, !.dropped = {}] \in Client
  BY DEF Client
<1>7. QED
  BY <1>1, <1>3, <1>4, <1>5, <1>6

\* The history a new subscriber is sent ends with the last entry read.
LEMMA HistoryRange ==
    ASSUME NEW n \in Nat
    PROVE  First(n) \in Nat /\ First(n) > 0 /\ Recent(n) = First(n)..n
  BY StreamAssumption DEF First, Recent, Least

\* Appending to a queue adds one entry to what it holds, a get takes the head.
LEMMA QueueContents ==
    ASSUME NEW S, NEW q \in Seq(S)
    PROVE  /\ \A e \in S : Append(q, e) \in Seq(S) /\ ToSet(Append(q, e)) = ToSet(q) \cup {e}
           /\ q # <<>> => /\ Head(q) \in S /\ Tail(q) \in Seq(S)
                          /\ ToSet(q) = {Head(q)} \cup ToSet(Tail(q))
<1>1. ASSUME NEW e \in S
      PROVE  Append(q, e) \in Seq(S) /\ ToSet(Append(q, e)) = ToSet(q) \cup {e}
  BY <1>1, AppendProperties, LenProperties DEF ToSet
<1>2. ASSUME q # <<>>
      PROVE  Head(q) \in S /\ Tail(q) \in Seq(S) /\ ToSet(q) = {Head(q)} \cup ToSet(Tail(q))
  <2>1. Head(q) \in S /\ Tail(q) \in Seq(S) /\ Len(Tail(q)) = Len(q) - 1 /\ Len(q) \in Nat
        /\ Len(q) > 0 /\ DOMAIN q = 1..Len(q) /\ DOMAIN Tail(q) = 1..Len(Tail(q))
    BY <1>2, HeadTailProperties, LenProperties, EmptySeq
  <2>2. Head(q) = q[1] /\ \A i \in 1..Len(Tail(q)) : Tail(q)[i] = q[i + 1]
    BY <1>2, <2>1, HeadTailProperties
  <2>3. ASSUME NEW i \in 1..Len(q), i # 1 PROVE i - 1 \in 1..Len(Tail(q)) /\ q[i] = Tail(q)[i - 1]
    BY <2>1, <2>2, <2>3
  <2>4. ASSUME NEW i \in 1..Len(q) PROVE q[i] \in {Head(q)} \cup ToSet(Tail(q))
    BY <2>1, <2>2, <2>3 DEF ToSet
  <2>5. {Head(q)} \cup ToSet(Tail(q)) \subseteq ToSet(q)
    BY <2>1, <2>2 DEF ToSet
  <2>6. QED
    BY <2>1, <2>4, <2>5 DEF ToSet
<1>3. QED
  BY <1>1, <1>2

\* What Whole reads of a connection's record.
SameWindow(s, t) ==
    /\ t.conn = s.conn /\ t.subscribed = s.subscribed /\ t.task = s.task /\ t.cur = s.cur
    /\ t.from = s.from /\ t.sent = s.sent

\* An entry that a collector offers to a connection's queue is in it or dropped.
LEMMA OfferKeeps ==
    ASSUME NEW s \in Client, NEW e \in 1..MaxEntries
    PROVE  /\ Offered(s, e) \in Client
           /\ SameWindow(s, Offered(s, e))
           /\ s.dropped \subseteq Offered(s, e).dropped
           /\ ToSet(s.queue) \subseteq ToSet(Offered(s, e).queue)
           /\ s.subscribed => e \in Offered(s, e).dropped \cup ToSet(Offered(s, e).queue)
<1> DEFINE S == 1..MaxEntries
           q == s.queue
<1>0. q \in Seq(S) /\ s.dropped \in SUBSET S
  BY DEF Client
<1>1. CASE ~s.subscribed
  BY <1>1 DEF Offered, SameWindow
<1>2. CASE s.subscribed /\ Len(q) < QueueSize
  <2>1. Append(q, e) \in Seq(S) /\ ToSet(Append(q, e)) = ToSet(q) \cup {e}
    <3> HIDE DEF S, q
    <3>1. e \in S
      BY DEF S
    <3>2. QED
      BY <1>0, <3>1, QueueContents
  <2>2. Offered(s, e) = [s EXCEPT !.queue = Append(q, e)]
    BY <1>2 DEF Offered
  <2>3. [s EXCEPT !.queue = Append(q, e)] \in Client
    BY <2>1, ClientUpdates
  <2>4. /\ [s EXCEPT !.queue = Append(q, e)].queue = Append(q, e)
        /\ [s EXCEPT !.queue = Append(q, e)].dropped = s.dropped
        /\ SameWindow(s, [s EXCEPT !.queue = Append(q, e)])
    BY DEF Client, SameWindow
  <2>5. QED
    BY <2>1, <2>2, <2>3, <2>4
<1>3. CASE s.subscribed /\ ~(Len(q) < QueueSize)
  <2>1. Offered(s, e) = [s EXCEPT !.dropped = s.dropped \cup {e}]
    BY <1>3 DEF Offered
  <2>2. [s EXCEPT !.dropped = s.dropped \cup {e}] \in Client
    BY <1>0, ClientUpdates
  <2>3. /\ [s EXCEPT !.dropped = s.dropped \cup {e}].dropped = s.dropped \cup {e}
        /\ [s EXCEPT !.dropped = s.dropped \cup {e}].queue = q
        /\ SameWindow(s, [s EXCEPT !.dropped = s.dropped \cup {e}])
    BY DEF Client, SameWindow
  <2>4. QED
    BY <2>1, <2>2, <2>3
<1>4. QED
  BY <1>1, <1>2, <1>3

\* What holds of a connection after n entries.
Whole(s, n) ==
    /\ s.task = "sending" <=> s.cur # 0
    /\ s.conn \in {"new", "open"} /\ ~s.subscribed => s.task = "none"
    /\ s.from > 0
    /\ s.subscribed => \A e \in s.from..n : e \in s.sent \cup s.dropped \cup {s.cur} \cup ToSet(s.queue)

\* Every step of the collector, a handler or a push task keeps all connections whole.
LEMMA StreamStep == StreamInv /\ [StreamNext]_streamVars => StreamInv'
<1> SUFFICES ASSUME StreamInv, [StreamNext]_streamVars PROVE StreamInv'
  OBVIOUS
<1>0. /\ client \in [Clients -> Client] /\ entries \in Nat /\ entries \in 0..MaxEntries
      /\ \A c \in Clients : client[c] \in Client /\ Whole(client[c], entries)
  BY StreamAssumption DEF StreamInv, StreamTypeOK, TasksHoldNothing, NoSilentGap, Whole
<1>1. ASSUME entries' \in 0..MaxEntries, client' \in [Clients -> Client],
             \A c \in Clients : Whole(client'[c], entries')
      PROVE  StreamInv'
  BY <1>1 DEF StreamInv, StreamTypeOK, TasksHoldNothing, NoSilentGap, Whole
<1>2. ASSUME NEW c \in Clients, NEW t \in Client, Whole(t, entries), entries' = entries,
             client' = [client EXCEPT ![c] = t]
      PROVE  StreamInv'
  <2>1. \A d \in Clients : client'[d] = IF d = c THEN t ELSE client[d]
    BY <1>0, <1>2
  <2>2. \A d \in Clients : client'[d] \in Client /\ Whole(client'[d], entries')
    BY <1>0, <1>2, <2>1
  <2>3. client' \in [Clients -> Client]
    BY <1>0, <1>2
  <2>4. QED
    BY <1>0, <1>1, <1>2, <2>2, <2>3
<1>3. CASE Read
  <2>1. entries + 1 \in 1..MaxEntries /\ entries' = entries + 1 /\ entries' \in 0..MaxEntries
    BY <1>0, <1>3, StreamAssumption DEF Read
  <2>2. \A c \in Clients : client'[c] = Offered(client[c], entries + 1)
    BY <1>3 DEF Read
  <2>3. client' \in [Clients -> Client]
    BY <1>0, <1>3, <2>1, OfferKeeps DEF Read
  <2>4. ASSUME NEW c \in Clients PROVE Whole(client'[c], entries')
    <3> DEFINE s == client[c]
               t == Offered(s, entries + 1)
    <3>1. /\ SameWindow(s, t)
          /\ s.dropped \subseteq t.dropped /\ ToSet(s.queue) \subseteq ToSet(t.queue)
          /\ s.subscribed => entries + 1 \in t.dropped \cup ToSet(t.queue)
      BY <1>0, <2>1, OfferKeeps
    <3>2. s.from \in Nat /\ Whole(s, entries)
      BY <1>0 DEF Client
    <3>3. \A e \in s.from..(entries + 1) : e = entries + 1 \/ e \in s.from..entries
      BY <1>0, <3>2
    <3> HIDE DEF t, s
    <3>4. Whole(t, entries + 1)
      BY <3>1, <3>2, <3>3 DEF Whole, SameWindow
    <3>5. QED
      BY <2>1, <2>2, <3>4 DEF t, s
  <2>5. QED
    BY <1>1, <2>1, <2>3, <2>4
<1>4. ASSUME NEW c \in Clients, NEW x \in {"open", "closed", "gone"},
             client[c].conn \in {"new", "open", "closed"}, entries' = entries,
             \/ /\ client' = [client EXCEPT ![c] = [client[c] EXCEPT !.conn = x]]
                /\ x = "open" => client[c].conn = "new"
             \/ /\ client' = [client EXCEPT ![c] = [client[c] EXCEPT !.conn = x, !.subscribed = FALSE]]
                /\ x = "gone"
      PROVE  StreamInv'
  <2>1. CASE client' = [client EXCEPT ![c] = [client[c] EXCEPT !.conn = x]]
    <3> DEFINE t == [client[c] EXCEPT !.conn = x]
    <3>1. t \in Client
      BY <1>0, ClientUpdates
    <3>2. /\ t.conn = x /\ t.subscribed = client[c].subscribed /\ t.task = client[c].task
          /\ t.cur = client[c].cur /\ t.from = client[c].from /\ t.sent = client[c].sent
          /\ t.dropped = client[c].dropped /\ t.queue = client[c].queue
      BY <1>0 DEF Client
    <3>3. x \in {"new", "open"} => client[c].conn \in {"new", "open"}
      BY <1>4
    <3>4. Whole(t, entries)
      BY <1>0, <3>2, <3>3 DEF Whole
    <3>5. QED
      BY <1>2, <1>4, <2>1, <3>1, <3>4
  <2>2. CASE x = "gone" /\ client' = [client EXCEPT ![c] = [client[c] EXCEPT !.conn = x, !.subscribed = FALSE]]
    <3> DEFINE t == [client[c] EXCEPT !.conn = x, !.subscribed = FALSE]
    <3>1. t \in Client
      BY <1>0, ClientUpdates
    <3>2. /\ t.conn = x /\ t.subscribed = FALSE /\ t.task = client[c].task
          /\ t.cur = client[c].cur /\ t.from = client[c].from
      BY <1>0 DEF Client
    <3>3. Whole(t, entries)
      BY <1>0, <2>2, <3>2 DEF Whole
    <3>4. QED
      BY <1>2, <1>4, <2>2, <3>1, <3>3
  <2>3. QED
    BY <1>4, <2>1, <2>2
<1>5. ASSUME NEW c \in Clients, Open(c) \/ Close(c) \/ Leave(c) PROVE StreamInv'
  <2>1. /\ client[c].conn \in {"new", "open", "closed"} /\ entries' = entries
        /\ \E x \in {"open", "closed", "gone"} :
             \/ /\ client' = [client EXCEPT ![c] = [client[c] EXCEPT !.conn = x]]
                /\ x = "open" => client[c].conn = "new"
             \/ /\ client' = [client EXCEPT ![c] = [client[c] EXCEPT !.conn = x, !.subscribed = FALSE]]
                /\ x = "gone"
    BY <1>0, <1>5 DEF Open, Close, Leave
  <2>2. QED
    BY <1>4, <2>1
<1>6. ASSUME NEW c \in Clients, Subscribe(c) PROVE StreamInv'
  <2> DEFINE n == client[c].subs + 1
             t == [client[c] EXCEPT !.subscribed = TRUE, !.task = "idle", !.subs = n,
                     !.from = First(entries), !.sent = Recent(entries), !.dropped = {}]
  <2>1. client' = [client EXCEPT ![c] = t] /\ entries' = entries
    BY <1>6 DEF Subscribe
  <2>2. n \in 0..MaxSubs
    <3>1. client[c].subs \in 0..MaxSubs
      BY <1>0 DEF Client
    <3>2. QED
      BY <1>6, <3>1, StreamAssumption DEF Subscribe
  <2>3. First(entries) \in Nat /\ First(entries) > 0 /\ Recent(entries) = First(entries)..entries
    BY <1>0, HistoryRange
  <2>4. Recent(entries) \in SUBSET (1..MaxEntries)
    BY <1>0, <2>3, StreamAssumption
  <2>5. t \in Client
    BY <1>0, <2>2, <2>3, <2>4, ClientUpdates
  <2>6. client[c].task = "none" /\ client[c].cur = 0
    BY <1>0, <1>6 DEF Subscribe, Whole
  <2>7. /\ t.subscribed = TRUE /\ t.task = "idle" /\ t.cur = client[c].cur /\ t.from = First(entries)
        /\ t.sent = Recent(entries)
    BY <1>0 DEF Client
  <2>8. Whole(t, entries)
    BY <2>3, <2>6, <2>7 DEF Whole
  <2>9. QED
    BY <1>2, <2>1, <2>5, <2>8
<1>7. ASSUME NEW c \in Clients, Unsubscribe(c) PROVE StreamInv'
  <2> DEFINE t == [client[c] EXCEPT !.subscribed = FALSE, !.task = "none", !.cur = 0]
  <2>1. client' = [client EXCEPT ![c] = t] /\ entries' = entries
    BY <1>7 DEF Unsubscribe
  <2>2. t \in Client
    BY <1>0, ClientUpdates
  <2>3. t.subscribed = FALSE /\ t.task = "none" /\ t.cur = 0 /\ t.from = client[c].from
    BY <1>0 DEF Client
  <2>4. Whole(t, entries)
    BY <1>0, <2>3 DEF Whole
  <2>5. QED
    BY <1>2, <2>1, <2>2, <2>4
<1>8. ASSUME NEW c \in Clients, Take(c) PROVE StreamInv'
  <2> DEFINE q == client[c].queue
             t == [client[c] EXCEPT !.task = "sending", !.cur = Head(q), !.queue = Tail(q)]
  <2>1. client' = [client EXCEPT ![c] = t] /\ entries' = entries /\ q # <<>> /\ client[c].task = "idle"
    BY <1>8 DEF Take
  <2>2. q \in Seq(1..MaxEntries) /\ client[c].from \in Nat
    BY <1>0 DEF Client
  <2>3. Head(q) \in 1..MaxEntries /\ Tail(q) \in Seq(1..MaxEntries)
        /\ ToSet(q) = {Head(q)} \cup ToSet(Tail(q))
    BY <2>1, <2>2, QueueContents
  <2>4. t \in Client
    BY <1>0, <2>3, ClientUpdates
  <2>5. /\ t.task = "sending" /\ t.cur = Head(q) /\ t.queue = Tail(q) /\ t.from = client[c].from
        /\ t.sent = client[c].sent /\ t.dropped = client[c].dropped /\ t.conn = client[c].conn
        /\ t.subscribed = client[c].subscribed
    BY <1>0 DEF Client
  <2>6. client[c].cur = 0 /\ \A e \in client[c].from..entries : e # 0
    BY <1>0, <2>1, <2>2 DEF Whole
  <2>7. client[c].conn \in {"new", "open"} => client[c].subscribed
    BY <1>0, <2>1 DEF Whole
  <2>8. Whole(t, entries)
    <3>1. t.cur # 0
      BY <2>3, <2>5
    <3>2. t.from > 0
      BY <1>0, <2>5 DEF Whole
    <3>3. ASSUME t.subscribed, NEW e \in t.from..entries
          PROVE  e \in t.sent \cup t.dropped \cup {t.cur} \cup ToSet(t.queue)
      <4>1. e \in client[c].sent \cup client[c].dropped \cup {client[c].cur} \cup ToSet(q)
        BY <1>0, <2>5, <3>3 DEF Whole
      <4>2. e # 0
        BY <2>5, <2>6, <3>3
      <4>3. QED
        BY <2>3, <2>5, <2>6, <4>1, <4>2
    <3>4. QED
      BY <2>5, <2>7, <3>1, <3>2, <3>3 DEF Whole
  <2>9. QED
    BY <1>2, <2>1, <2>4, <2>8
<1>9. ASSUME NEW c \in Clients, Send(c) PROVE StreamInv'
  <2> DEFINE sent == client[c].sent \cup {client[c].cur}
             t == [client[c] EXCEPT !.task = "idle", !.cur = 0, !.sent = sent]
  <2>1. client' = [client EXCEPT ![c] = t] /\ entries' = entries /\ client[c].task = "sending"
    BY <1>0, <1>9 DEF Send
  <2>2. sent \in SUBSET (1..MaxEntries)
    <3>1. client[c].cur \in 0..MaxEntries /\ client[c].sent \in SUBSET (1..MaxEntries)
      BY <1>0 DEF Client
    <3>2. client[c].cur # 0
      BY <1>0, <2>1 DEF Whole
    <3>3. client[c].cur \in 1..MaxEntries
      BY <3>1, <3>2, StreamAssumption
    <3>4. QED
      BY <3>1, <3>3
  <2>3. t \in Client
    BY <1>0, <2>2, ClientUpdates
  <2>4. /\ t.task = "idle" /\ t.cur = 0 /\ t.sent = sent /\ t.from = client[c].from
        /\ t.dropped = client[c].dropped /\ t.queue = client[c].queue /\ t.conn = client[c].conn
        /\ t.subscribed = client[c].subscribed
    BY <1>0 DEF Client
  <2>5. client[c].conn \in {"new", "open"} => client[c].subscribed
    BY <1>0, <2>1 DEF Whole
  <2>6. Whole(t, entries)
    BY <1>0, <2>4, <2>5 DEF Whole
  <2>7. QED
    BY <1>2, <2>1, <2>3, <2>6
<1>10. ASSUME NEW c \in Clients, EndTask(c) PROVE StreamInv'
  <2> DEFINE t == [client[c] EXCEPT !.task = "none"]
  <2>1. client' = [client EXCEPT ![c] = t] /\ entries' = entries /\ client[c].task = "idle"
    BY <1>10 DEF EndTask
  <2>2. t \in Client
    BY <1>0, ClientUpdates
  <2>3. /\ t.task = "none" /\ t.cur = client[c].cur /\ t.sent = client[c].sent
        /\ t.from = client[c].from /\ t.dropped = client[c].dropped /\ t.queue = client[c].queue
        /\ t.conn = client[c].conn /\ t.subscribed = client[c].subscribed
    BY <1>0 DEF Client
  <2>4. Whole(t, entries)
    BY <1>0, <2>1, <2>3 DEF Whole
  <2>5. QED
    BY <1>2, <2>1, <2>2, <2>4
<1>11. CASE UNCHANGED streamVars
  BY <1>0, <1>1, <1>11 DEF streamVars
<1>12. QED
  BY <1>3, <1>5, <1>6, <1>7, <1>8, <1>9, <1>10, <1>11 DEF StreamNext, TaskStep

\* The connections start without a queue, a task or a history.
LEMMA StreamStart == StreamInit => StreamInv
<1> SUFFICES ASSUME StreamInit PROVE StreamInv
  OBVIOUS
<1>1. 0 \in 0..MaxEntries /\ 0 \in 0..MaxSubs /\ <<>> \in Seq(1..MaxEntries)
  BY StreamAssumption
<1>2. Fresh \in Client
  BY <1>1 DEF Fresh, Client
<1>3. QED
  BY <1>1, <1>2 DEF StreamInit, StreamInv, StreamTypeOK, TasksHoldNothing, NoSilentGap, Fresh

\* Every connection is well typed in every reachable state, for any number of
\* connections, sizes and entries.
THEOREM StreamIsTyped == StreamSpec => []StreamTypeOK
<1>1. StreamInv => StreamTypeOK
  BY DEF StreamInv
<1>2. QED
  BY <1>1, StreamStart, StreamStep, PTL DEF StreamSpec

\* Whatever the size of buffer, history and queue, between the history and the stream
\* no entry falls through without the queue having been full.
THEOREM StreamHasNoSilentGap == StreamSpec => []NoSilentGap
<1>1. StreamInv => NoSilentGap
  BY DEF StreamInv
<1>2. QED
  BY <1>1, StreamStart, StreamStep, PTL DEF StreamSpec

-----------------------------------------------------------------------------
(* The components side by side.                                            *)

\* A step of the fleet is, for each component, a step of it or none.
LEMMA FleetSteps ==
    [MCNext]_MCVars => /\ [Next]_vars
                       /\ [ServersNext]_serversVars
                       /\ [StreamNext]_streamVars
                       /\ [Pipeline!Next]_(Pipeline!vars)
<1>. SUFFICES ASSUME [MCNext]_MCVars
              PROVE  /\ [Next]_vars
                     /\ [ServersNext]_serversVars
                     /\ [StreamNext]_streamVars
                     /\ [Pipeline!Next]_(Pipeline!vars)
  OBVIOUS
<1>1. UNCHANGED pipelineVars => UNCHANGED Pipeline!vars
  BY DEF pipelineVars, Pipeline!vars
<1>2. CASE MCAgents(Next)
  BY <1>1, <1>2 DEF MCAgents
<1>3. CASE MCServers(ServersNext)
  BY <1>1, <1>3 DEF MCServers
<1>4. CASE MCStream(StreamNext)
  BY <1>1, <1>4 DEF MCStream
<1>5. CASE MCAlerts(Pipeline!Next)
  BY <1>5 DEF MCAlerts
<1>6. CASE UNCHANGED MCVars
  BY <1>1, <1>6 DEF MCVars
<1>. QED
  BY <1>2, <1>3, <1>4, <1>5, <1>6 DEF MCNext

\* Each component of the fleet behaves as it does alone: what is proved of its own
\* initial states and steps holds of the four together.
THEOREM FleetRunsComponents ==
    MCSpec => /\ Init /\ [][Next]_vars
              /\ ServersInit /\ [][ServersNext]_serversVars
              /\ StreamInit /\ [][StreamNext]_streamVars
              /\ Pipeline!Init /\ [][Pipeline!Next]_(Pipeline!vars)
<1>1. MCInit => Init /\ ServersInit /\ StreamInit /\ Pipeline!Init
  BY DEF MCInit
<1>. QED
  BY <1>1, FleetSteps, PTL DEF MCSpec

FleetInv == TypeOK /\ RecordedIsOlder /\ ServersInv /\ StreamInv

\* The components' inductive invariants hold side by side.
LEMMA FleetKeepsInvariants == MCSpec => []FleetInv
<1>1. Init /\ ServersInit /\ StreamInit => FleetInv
  <2>1. Init => TypeOK /\ RecordedIsOlder
    BY TypeInit, StatusAssumption DEF Init, RecordedIsOlder, Cap
  <2>2. ServersInit => ServersInv
    BY ServersInvInit
  <2>. QED
    BY <2>1, <2>2, StreamStart DEF FleetInv
<1>2. /\ FleetInv
      /\ [Next]_vars /\ [ServersNext]_serversVars /\ [StreamNext]_streamVars
      => FleetInv'
  BY TypeStep, RecordedStep, ServersInvNext, StreamStep DEF FleetInv
<1>. QED
  BY <1>1, <1>2, FleetRunsComponents, PTL

\* The agents' ages, the probes' readings and the connections' tasks are well typed in
\* every state of the fleet.
THEOREM FleetIsTyped == MCSpec => []FleetTypeOK
<1>1. FleetInv => FleetTypeOK
  BY DEF FleetInv, ServersInv, StreamInv, FleetTypeOK
<1>. QED
  BY <1>1, FleetKeepsInvariants, PTL

\* Next to each other as alone: an agent shown online was named by a request received
\* within the timeout, a reading is its server's own, only what was probed meanwhile outlives its server, and a subscriber
\* misses nothing unnoticed.
THEOREM FleetIsSafe ==
    MCSpec => [](OnlineIsRecent /\ ReadingIsOwn /\ OrphansWereInFlight /\ NoSilentGap)
<1>1. FleetInv => OnlineIsRecent /\ ReadingIsOwn /\ OrphansWereInFlight /\ NoSilentGap
  BY RecordedMeansRecent DEF FleetInv, ServersInv, StreamInv
<1>. QED
  BY <1>1, FleetKeepsInvariants, PTL

==================================================================================
