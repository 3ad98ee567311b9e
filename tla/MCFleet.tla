--------------------------------- MODULE MCFleet ---------------------------------
(***************************************************************************)
(* AgentStatus, Servers, LiveStream and AlertPipeline: what must keep up   *)
(* with the agents, the servers, the journal and the alerts.  A behaviour  *)
(* is one of the active component, with the others at rest; their state    *)
(* spaces are added and not multiplied.  The pipeline has one alert less   *)
(* than in MCAlertPipeline, where its invariants are checked.              *)
(*                                                                         *)
(* AgentStatus has one unit of time = 30 s: a timeout of 4, an alert       *)
(* window of 2, requests and scans of at most 30 s.                        *)
(***************************************************************************)
EXTENDS AgentStatus, Servers, LiveStream, TLC

CONSTANTS a1, h1, h2, odd, m1, c1, loop1, loop2, own, shared

VARIABLES active, now, alerts, call, queue, hook, incidents, missed

Pipeline == INSTANCE AlertPipeline
    WITH Callers <- {loop1, loop2}, Keys <- {own, shared},
         Raisers <- (own :> {loop1}) @@ (shared :> {loop1, loop2}),
         Recoverable <- {own}, Window <- (own :> 2) @@ (shared :> 1),
         MaxTime <- 2, MaxAlerts <- 2

pipelineVars == <<now, alerts, call, queue, hook, incidents, missed>>

MCVars == <<vars, serversVars, streamVars, pipelineVars, active>>

MCInit ==
    /\ active \in {"agents", "servers", "stream", "alerts"}
    /\ Init /\ ServersInit /\ StreamInit /\ Pipeline!Init

MCAgents(A) ==
    active = "agents" /\ A /\ UNCHANGED <<serversVars, streamVars, pipelineVars, active>>
MCServers(A) ==
    active = "servers" /\ A /\ UNCHANGED <<vars, streamVars, pipelineVars, active>>
MCStream(A) ==
    active = "stream" /\ A /\ UNCHANGED <<vars, serversVars, pipelineVars, active>>
MCAlerts(A) ==
    active = "alerts" /\ A /\ UNCHANGED <<vars, serversVars, streamVars, active>>

MCNext ==
    \/ MCAgents(Next)
    \/ MCServers(ServersNext)
    \/ MCStream(StreamNext)
    \/ MCAlerts(Pipeline!Next)

\* The Fairness of each component while it is active.
MCFairness ==
    /\ WF_MCVars(MCAgents(Tick)) /\ WF_MCVars(MCAgents(LoopStep))
    /\ \A h \in Handlers : WF_MCVars(MCAgents(Beat(h)))
    /\ WF_MCVars(MCServers(StartRound)) /\ WF_MCVars(MCServers(EndRound))
    /\ \A t \in Tasks : WF_MCVars(MCServers(ProbeStep(t)))
    /\ \A c \in Clients : WF_MCVars(MCStream(Leave(c))) /\ WF_MCVars(MCStream(TaskStep(c)))
    /\ \A c \in {loop1, loop2} : WF_MCVars(MCAlerts(Pipeline!CallerStep(c)))
    /\ WF_MCVars(MCAlerts(Pipeline!HookStep))

MCSpec == MCInit /\ [][MCNext]_MCVars /\ MCFairness

\* Every state of AgentStatus, Servers and LiveStream is well typed.
FleetTypeOK == TypeOK /\ ServersTypeOK /\ StreamTypeOK

\* The hook never stops: every key whose alerts were not lost ends up with a timeline
\* that agrees with its last alert, even if handling other alerts fails or the process
\* is restarted.
TimelineConverges == Pipeline!TimelineConverges

==================================================================================
