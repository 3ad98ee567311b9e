--------------------------------- MODULE Servers ---------------------------------
(***************************************************************************)
(* Monitored servers (vpsmon/servers.py): the loop probes every enabled    *)
(* server in parallel, operators ask for probes by hand, and both write    *)
(* what they find into the caches _latest and _status when the answer      *)
(* comes, whatever has happened to the row they were started from.         *)
(***************************************************************************)
EXTENDS ServerTable

CONSTANTS
    Manual        \* requests of handle_server_probe at the same time

ASSUME ServersAssumption == Manual \cap ServerIds = {}

VARIABLES
    latest,     \* _latest: the last good reading (here: where it was taken)
    status,     \* _status: online (and where it was asked, history)
    probing,    \* probes between their start and their end; a task of the
                \* loop's gather is named by its server
    round,      \* is probe_all running?
    removing,   \* handlers between the DELETE and the two pops
    hadHosts,   \* history: hosts a probe can be sent to that the row of an id ever had
    raced       \* history: ids deleted while a probe of them was running

cacheVars == <<latest, status, probing, round, removing, hadHosts, raced>>
serversVars == <<tableVars, cacheVars>>

Tasks == ServerIds \cup Manual
Probe == [id : ServerIds, host : Hosts]
InFlight(s) == \E t \in DOMAIN probing : probing[t].id = s

ServersInit ==
    /\ TableInit
    /\ latest = Empty
    /\ status = Empty
    /\ probing = Empty
    /\ round = FALSE
    /\ removing = {}
    /\ hadHosts = [s \in ServerIds |-> {}]
    /\ raced = {}

-----------------------------------------------------------------------------
(* Operators.                                                              *)

Add(h) ==
    /\ AddServer(h)
    /\ hadHosts' = [hadHosts EXCEPT ![lastId'] = {h}]
    /\ UNCHANGED <<latest, status, probing, round, removing, raced>>

Update(s, row) ==
    /\ UpdateServer(s, row)
    /\ hadHosts' = [hadHosts EXCEPT ![s] = hadHosts[s] \cup ({row.host} \ OddHosts)]
    /\ UNCHANGED <<latest, status, probing, round, removing, raced>>

\* Mutant: the caches are cleared first, the row is deleted afterwards.
RemoveServerCleared(s) ==
    /\ DeleteServer(s)
    /\ UNCHANGED cacheVars

RemoveServer(s) ==
    /\ DeleteServer(s)
    /\ removing' = removing \cup {s}
    /\ UNCHANGED <<latest, status, probing, round, hadHosts, raced>>

Forget(s) ==
    /\ s \in removing
    /\ removing' = removing \ {s}
    /\ latest' = Pop(latest, s)
    /\ status' = Pop(status, s)
    /\ raced' = IF InFlight(s) THEN raced \cup {s} ELSE raced
    /\ UNCHANGED <<tableVars, probing, round, hadHosts>>

StartManual(m, s) ==
    /\ m \notin DOMAIN probing
    /\ s \in Listed
    /\ probing' = Put(probing, m, [id |-> s, host |-> servers[s].host])
    /\ UNCHANGED <<tableVars, latest, status, round, removing, hadHosts, raced>>

-----------------------------------------------------------------------------
(* The loop: SELECT, one task per enabled server, wait for all of them.  A *)
(* round whose SELECT raised changes nothing: the loop sleeps and tries    *)
(* again.                                                                  *)

\* Mutant: only servers whose state is not known yet are probed.
StartRoundUnknown ==
    /\ ~round
    /\ round' = TRUE
    /\ LET due == Enabled \ DOMAIN status IN
         probing' = [t \in (DOMAIN probing) \cup due |->
                       IF t \in due THEN [id |-> t, host |-> servers[t].host]
                       ELSE probing[t]]
    /\ UNCHANGED <<tableVars, latest, status, removing, hadHosts, raced>>

StartRound ==
    /\ ~round
    /\ round' = TRUE
    /\ probing' = [t \in (DOMAIN probing) \cup Enabled |->
                     IF t \in Enabled THEN [id |-> t, host |-> servers[t].host]
                     ELSE probing[t]]
    /\ UNCHANGED <<tableVars, latest, status, removing, hadHosts, raced>>

EndRound ==
    /\ round
    /\ DOMAIN probing \cap ServerIds = {}
    /\ round' = FALSE
    /\ UNCHANGED <<tableVars, latest, status, probing, removing, hadHosts, raced>>

-----------------------------------------------------------------------------
(* A probe: ssh ends within its timeout and the caches are written at once,*)
(* unless the port is no number.                                           *)
(* The readings also go to metrics_raw (Downsample!InsertRaw); an error of *)
(* that INSERT is swallowed.  last_seen, which is only shown, is left out. *)

Answer(t) ==
    /\ t \in DOMAIN probing
    /\ probing[t].host \notin OddHosts
    /\ LET p == probing[t] IN
         /\ latest' = Put(latest, p.id, p.host)
         /\ status' = Put(status, p.id, [online |-> TRUE, host |-> p.host])
         /\ probing' = Pop(probing, t)
    /\ UNCHANGED <<tableVars, round, removing, hadHosts, raced>>

NoAnswer(t) ==
    /\ t \in DOMAIN probing
    /\ probing[t].host \notin OddHosts
    /\ status' = Put(status, probing[t].id,
                     [online |-> FALSE, host |-> probing[t].host])
    /\ probing' = Pop(probing, t)
    /\ UNCHANGED <<tableVars, latest, round, removing, hadHosts, raced>>

\* int(ssh_port) stands before the try of probe_server: the exception leaves
\* probe_and_store before the caches are written, gather swallows it, and a request
\* answers 500.
ProbeRaises(t) ==
    /\ t \in DOMAIN probing
    /\ probing[t].host \in OddHosts
    /\ probing' = Pop(probing, t)
    /\ UNCHANGED <<tableVars, latest, status, round, removing, hadHosts, raced>>

-----------------------------------------------------------------------------

\* stop and start, or a crash: the tables stay, the rest is lost.
Restart ==
    /\ latest' = Empty
    /\ status' = Empty
    /\ probing' = Empty
    /\ round' = FALSE
    /\ removing' = {}
    /\ UNCHANGED <<tableVars, hadHosts, raced>>

ProbeStep(t) == Answer(t) \/ NoAnswer(t) \/ ProbeRaises(t)

ServersNext ==
    \/ \E h \in Hosts : Add(h)
    \/ \E s \in ServerIds, row \in ServerRow : Update(s, row)
    \/ \E s \in ServerIds : RemoveServer(s) \/ Forget(s)
    \/ \E m \in Manual, s \in ServerIds : StartManual(m, s)
    \/ StartRound \/ EndRound \/ Restart
    \/ \E t \in Tasks : ProbeStep(t)

\* The loop's task is runnable, its SELECT does not fail for ever, and ssh is killed at
\* its timeout of 15 s.
ServersFairness ==
    /\ WF_serversVars(StartRound)
    /\ WF_serversVars(EndRound)
    /\ \A t \in Tasks : WF_serversVars(ProbeStep(t))

ServersSpec == ServersInit /\ [][ServersNext]_serversVars /\ ServersFairness

-----------------------------------------------------------------------------
(* Properties.                                                             *)

\* Every state is well typed, and the caches hold ids that were handed out.
ServersTypeOK ==
    /\ lastId \in 0..MaxServers
    /\ Listed \subseteq 1..lastId /\ servers \in [Listed -> ServerRow]
    /\ DOMAIN latest \subseteq 1..lastId /\ latest \in [DOMAIN latest -> Hosts]
    /\ DOMAIN status \subseteq 1..lastId
    /\ status \in [DOMAIN status -> [online : BOOLEAN, host : Hosts]]
    /\ DOMAIN probing \subseteq Tasks /\ probing \in [DOMAIN probing -> Probe]
    /\ \A t \in DOMAIN probing : probing[t].id \in 1..lastId
    /\ round \in BOOLEAN
    /\ removing \subseteq 1..lastId
    /\ hadHosts \in [ServerIds -> SUBSET Hosts]
    /\ raced \subseteq 1..lastId

\* What is shown under an id was measured on a host that very server had: a late
\* answer never lands on another server, because ids are not reused
\* (AUTOINCREMENT in db.py, the caches and the tag of probe_and_store go by id).
ReadingIsOwn ==
    /\ \A s \in DOMAIN latest : latest[s] \in hadHosts[s]
    /\ \A s \in DOMAIN status : status[s].host \in hadHosts[s]

\* delete_server leaves nothing in the caches, unless a probe of the server was
\* running when they were cleared: no other order of the loop, the requests and
\* the DELETE brings a removed server back.
OrphansWereInFlight ==
    \A s \in DOMAIN latest \cup DOMAIN status :
        s \in Listed \/ s \in removing \/ s \in raced

Odd == {s \in Listed : servers[s].host \in OddHosts}
ShownFromOwnHost(s) == s \in DOMAIN status /\ status[s].host = servers[s].host

\* From some time on no row is changed and the program is not restarted.
Calm == <>[][~Restart /\ UNCHANGED servers]_serversVars

\* Once editing and restarts stop, what is shown of each enabled server whose port is a
\* number comes in the end from the host its row names, whatever probes of an earlier
\* host were running, and whichever other server of the round raises: late answers are
\* overwritten.
StatusConverges ==
    Calm => <>[](\A s \in Enabled \ Odd : ShownFromOwnHost(s))

=============================================================================
