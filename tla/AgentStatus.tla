------------------------------ MODULE AgentStatus ------------------------------
(***************************************************************************)
(* Whether an agent is alive (vpsmon/agents.py): requests that name it     *)
(* refresh last_heartbeat and status, the stale-check loop selects silent  *)
(* agents, marks them offline one by one and fires an alert for each, and  *)
(* operators read the list and delete agents.                              *)
(*                                                                         *)
(* Times are kept as ages (now minus the stored time), counted up to Cap,  *)
(* beyond which no comparison of the code tells two ages apart: the clock  *)
(* runs for ever in a finite state space.                                  *)
(***************************************************************************)
EXTENDS Naturals

CONSTANTS
    Agents,
    Handlers,     \* requests of agents served at the same time
    Timeout,      \* the 120 s without heartbeat
    AlertWindow,  \* the 60 s of fire_custom_alert
    MaxLag        \* bound: longest run of a handler or of one scan

ASSUME StatusAssumption ==
    /\ Timeout \in Nat
    /\ AlertWindow \in Nat
    /\ MaxLag \in Nat

VARIABLES
    agents,    \* the agents table: row, status, beat (age of last_heartbeat)
    handler,   \* requests between reading the clock and the UPDATE
    loop,      \* where _stale_check_loop is
    alertAge,  \* age of the agent's newest unacknowledged agent-offline alert
    contact,   \* history: age of the newest request naming the agent that refreshed it
    alerted,   \* history: agents whose last marking stored an alert
    lost       \* history: agents whose last marking lost its alert to a failure

vars == <<agents, handler, loop, alertAge, contact, alerted, lost>>

Cap == Timeout + MaxLag + 1
Older(age) == IF age < Cap THEN age + 1 ELSE age

Row == [row : {"absent", "present", "deleted"}, status : {"online", "offline"}, beat : 0..Cap]
Handler == [pc : {"idle"}] \cup [pc : {"update"}, agent : Agents, age : 0..MaxLag]
Loop == [pc : {"sleep"}]
    \cup [pc : {"select"}, age : 0..MaxLag]
    \cup [pc : {"mark"}, age : 0..MaxLag, todo : SUBSET Agents]
    \cup [pc : {"fire"}, age : 0..MaxLag, todo : SUBSET Agents, cur : Agents]

Idle == [pc |-> "idle"]
Asleep == [pc |-> "sleep"]
Present == {a \in Agents : agents[a].row = "present"}

Init ==
    /\ agents = [a \in Agents |-> [row |-> "absent", status |-> "offline", beat |-> Cap]]
    /\ handler = [h \in Handlers |-> Idle]
    /\ loop = Asleep
    /\ alertAge = [a \in Agents |-> Cap]
    /\ contact = [a \in Agents |-> Cap]
    /\ alerted = {}
    /\ lost = {}

Tick ==
    /\ \A h \in Handlers : handler[h].pc = "update" => handler[h].age < MaxLag
    /\ loop.pc # "sleep" => loop.age < MaxLag
    /\ agents' = [a \in Agents |-> [agents[a] EXCEPT !.beat = Older(@)]]
    /\ handler' = [h \in Handlers |-> IF handler[h].pc = "idle" THEN Idle
                                      ELSE [handler[h] EXCEPT !.age = @ + 1]]
    /\ loop' = IF loop.pc = "sleep" THEN loop ELSE [loop EXCEPT !.age = @ + 1]
    /\ alertAge' = [a \in Agents |-> Older(alertAge[a])]
    /\ contact' = [a \in Agents |-> Older(contact[a])]
    /\ UNCHANGED <<alerted, lost>>

-----------------------------------------------------------------------------
(* Requests.                                                               *)

\* Mutant: a status the loop does not know.
RegisterPending(a) ==
    /\ agents[a].row = "absent"
    /\ agents' = [agents EXCEPT ![a] = [row |-> "present", status |-> "pending", beat |-> 0]]
    /\ contact' = [contact EXCEPT ![a] = 0]
    /\ UNCHANGED <<handler, loop, alertAge, alerted, lost>>

Register(a) ==
    /\ agents[a].row = "absent"
    /\ agents' = [agents EXCEPT ![a] = [row |-> "present", status |-> "online", beat |-> 0]]
    /\ contact' = [contact EXCEPT ![a] = 0]
    /\ UNCHANGED <<handler, loop, alertAge, alerted, lost>>

\* The handler has authenticated the sender and reads the clock.  The request names
\* agent a: a heartbeat always its sender, a metrics push the agent_id of its body,
\* which the program does not compare with the sender.  So the row may be another
\* agent's, or gone before the request came (an id is known once it was handed out).
Arrive(h, a) ==
    /\ handler[h].pc = "idle"
    /\ agents[a].row # "absent"
    /\ handler' = [handler EXCEPT ![h] = [pc |-> "update", agent |-> a, age |-> 0]]
    /\ UNCHANGED <<agents, loop, alertAge, contact, alerted, lost>>

\* Mutant: the clock is read again for the UPDATE at the end of a batch.
BeatNow(h) ==
    /\ handler[h].pc = "update"
    /\ LET a == handler[h].agent
           age == handler[h].age IN
         IF a \in Present
           THEN /\ agents' = [agents EXCEPT ![a] =
                                [row |-> "present", status |-> "online", beat |-> 0]]
                /\ contact' = [contact EXCEPT ![a] = IF age < @ THEN age ELSE @]
           ELSE UNCHANGED <<agents, contact>>
    /\ handler' = [handler EXCEPT ![h] = Idle]
    /\ UNCHANGED <<loop, alertAge, alerted, lost>>

\* heartbeat at once, ingest_metrics after it has stored the whole batch: both
\* write the clock they read on arrival, and the row may be gone by then.
Beat(h) ==
    /\ handler[h].pc = "update"
    /\ LET a == handler[h].agent
           age == handler[h].age IN
         IF a \in Present
           THEN /\ agents' = [agents EXCEPT ![a] =
                                [row |-> "present", status |-> "online", beat |-> age]]
                /\ contact' = [contact EXCEPT ![a] = IF age < @ THEN age ELSE @]
           ELSE UNCHANGED <<agents, contact>>
    /\ handler' = [handler EXCEPT ![h] = Idle]
    /\ UNCHANGED <<loop, alertAge, alerted, lost>>

RequestFails(h) ==
    /\ handler[h].pc = "update"
    /\ handler' = [handler EXCEPT ![h] = Idle]
    /\ UNCHANGED <<agents, loop, alertAge, contact, alerted, lost>>

Delete(a) ==
    /\ a \in Present
    /\ agents' = [agents EXCEPT ![a].row = "deleted"]
    /\ UNCHANGED <<handler, loop, alertAge, contact, alerted, lost>>

\* The operator acknowledges the alert: the duplicate check ignores it then.
Acknowledge(a) ==
    /\ alertAge[a] < AlertWindow
    /\ alertAge' = [alertAge EXCEPT ![a] = Cap]
    /\ UNCHANGED <<agents, handler, loop, contact, alerted, lost>>

\* list_agents: what the operator sees.
Shown(a) == IF agents[a].beat > Timeout THEN "offline" ELSE agents[a].status

-----------------------------------------------------------------------------
(* _stale_check_loop                                                       *)

StartScan ==
    /\ loop.pc = "sleep"
    /\ loop' = [pc |-> "select", age |-> 0]
    /\ UNCHANGED <<agents, handler, alertAge, contact, alerted, lost>>

\* Mutant: the scan forgets status = 'online'.
StaleWhateverStatus(a) == a \in Present /\ agents[a].beat > loop.age + Timeout

\* Mutant: only agents that became stale since the scan before.
NewlyStale(a) ==
    a \in Present /\ agents[a].status = "online" /\ agents[a].beat = loop.age + Timeout + 1

Stale(a) ==   \* status = 'online' AND last_heartbeat < now - 120
    a \in Present /\ agents[a].status = "online" /\ agents[a].beat > loop.age + Timeout

SelectStale ==
    /\ loop.pc = "select"
    /\ loop' = [pc |-> "mark", age |-> loop.age, todo |-> {a \in Agents : Stale(a)}]
    /\ UNCHANGED <<agents, handler, alertAge, contact, alerted, lost>>

\* The UPDATE names the agent only: it does not look at the heartbeat again.
MarkOffline(a) ==
    /\ loop.pc = "mark"
    /\ a \in loop.todo
    /\ agents' = IF a \in Present THEN [agents EXCEPT ![a].status = "offline"] ELSE agents
    /\ loop' = [pc |-> "fire", age |-> loop.age, todo |-> loop.todo \ {a}, cur |-> a]
    /\ alerted' = alerted \ {a}
    /\ lost' = lost \ {a}
    /\ UNCHANGED <<handler, alertAge, contact>>

AfterFire == [pc |-> "mark", age |-> loop.age, todo |-> loop.todo]

\* fire_custom_alert: a second alert within the window is dropped.
Fire ==
    /\ loop.pc = "fire"
    /\ IF alertAge[loop.cur] < AlertWindow
         THEN UNCHANGED <<alertAge, alerted>>
         ELSE /\ alertAge' = [alertAge EXCEPT ![loop.cur] = 0]
              /\ alerted' = alerted \cup {loop.cur}
    /\ loop' = AfterFire
    /\ UNCHANGED <<agents, handler, contact, lost>>

FireFails ==   \* except Exception: pass
    /\ loop.pc = "fire"
    /\ lost' = lost \cup {loop.cur}
    /\ loop' = AfterFire
    /\ UNCHANGED <<agents, handler, alertAge, contact, alerted>>

\* Pruning old logs and metrics touches neither agents nor alerts.
EndScan ==
    /\ loop.pc = "mark"
    /\ loop.todo = {}
    /\ loop' = Asleep
    /\ UNCHANGED <<agents, handler, alertAge, contact, alerted, lost>>

\* A database error ends the scan; the loop sleeps and scans again.
ScanFails ==
    /\ \/ loop.pc = "select"
       \/ loop.pc = "mark" /\ loop.todo # {}
    /\ loop' = Asleep
    /\ UNCHANGED <<agents, handler, alertAge, contact, alerted, lost>>

Crash ==
    /\ handler' = [h \in Handlers |-> Idle]
    /\ loop' = Asleep
    /\ lost' = lost \cup (IF loop.pc = "fire" THEN {loop.cur} ELSE {})
    /\ UNCHANGED <<agents, alertAge, contact, alerted>>

LoopStep ==
    \/ StartScan \/ SelectStale \/ Fire \/ EndScan
    \/ \E a \in Agents : MarkOffline(a)

Failure == FireFails \/ ScanFails \/ Crash

Next ==
    \/ Tick
    \/ \E a \in Agents : Register(a) \/ Delete(a) \/ Acknowledge(a)
    \/ \E h \in Handlers, a \in Agents : Arrive(h, a)
    \/ \E h \in Handlers : Beat(h) \/ RequestFails(h)
    \/ LoopStep
    \/ Failure

Spec == Init /\ [][Next]_vars

\* Time passes, a request that arrived ends one way or the other, and the loop
\* is always runnable.
Fairness ==
    /\ WF_vars(Tick)
    /\ \A h \in Handlers : WF_vars(Beat(h))
    /\ WF_vars(LoopStep)

FairSpec == Spec /\ Fairness

-----------------------------------------------------------------------------
(* Correctness.                                                            *)

TypeOK ==
    /\ agents \in [Agents -> Row]
    /\ handler \in [Handlers -> Handler]
    /\ loop \in Loop
    /\ alertAge \in [Agents -> 0..Cap]
    /\ contact \in [Agents -> 0..Cap]
    /\ alerted \subseteq Agents
    /\ lost \subseteq Agents

\* An agent shown as online was named by a request received within the timeout: one of
\* its own, or a metrics push in which another agent gave its id.  No late UPDATE of a
\* slow batch and no lag of the loop makes it look alive longer after the last of them.
OnlineIsRecent ==
    \A a \in Present : Shown(a) = "online" => contact[a] <= Timeout

\* "mark stale agents offline + alert": each marking stores an alert of its own
\* unless storing it failed.  Two markings of an agent are never so close that
\* the duplicate window swallows the second, even when a request that was slow
\* turns last_heartbeat back.
OutageIsAlerted ==
    \A a \in Present :
        agents[a].status = "offline" /\ ~(loop.pc = "fire" /\ loop.cur = a)
            => a \in alerted \cup lost

\* The same promise without the exception: an alert that could not be stored is
\* never tried again, because the agent is no longer selected.
OfflineIsAlerted ==
    \A a \in Present :
        agents[a].status = "offline" /\ ~(loop.pc = "fire" /\ loop.cur = a) => a \in alerted

\* "2 minutes without heartbeat": an agent is marked offline only if its
\* heartbeat is that old when it is marked.
OnlyStaleMarked ==
    [][\A a \in Present :
         agents[a].status = "online" /\ agents'[a].status = "offline" => agents[a].beat > Timeout]_vars

\* Nobody has named the agent for longer than any comparison tells apart.
Silent(a) == contact[a] = Cap

\* The loop survives failures: if they end, an agent that stays silent, and that no
\* other agent names either, ends up marked offline.
SilentGoesOffline ==
    <>[][~Failure]_vars =>
        \A a \in Agents : <>[](Silent(a) /\ a \in Present) => <>[](agents[a].status = "offline")

=============================================================================
