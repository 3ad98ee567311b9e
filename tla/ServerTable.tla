------------------------------- MODULE ServerTable -------------------------------
(***************************************************************************)
(* The servers table (vpsmon/db.py, vpsmon/servers.py): what an operator   *)
(* does to it.  Names, credentials and tags are left out; the host stands  *)
(* for everything a probe is told about the server, its port included.     *)
(***************************************************************************)
EXTENDS Naturals, FiniteSets, Dict

CONSTANTS
    MaxServers,   \* bound: ids ever handed out
    MaxListed,    \* bound: rows at the same time
    Hosts,
    OddHosts      \* those whose port does not parse as a number

ASSUME TableAssumption ==
    MaxServers \in Nat /\ MaxListed \in Nat /\ OddHosts \subseteq Hosts

VARIABLES
    servers,    \* the rows: id -> host and enabled
    lastId      \* sqlite's AUTOINCREMENT counter

tableVars == <<servers, lastId>>

ServerIds == 1..MaxServers
ServerRow == [host : Hosts, enabled : BOOLEAN]
Listed == DOMAIN servers
Enabled == {s \in Listed : servers[s].enabled}

TableInit ==
    /\ servers = Empty
    /\ lastId = 0

\* Mutant: INTEGER PRIMARY KEY without AUTOINCREMENT: the greatest id is reused.
AddServerReused(h) ==
    /\ h \notin OddHosts
    /\ \E s \in ServerIds \ Listed :
         /\ \A t \in Listed : t < s
         /\ \A t \in ServerIds \ Listed : (\A u \in Listed : u < t) => s <= t
         /\ servers' = Put(servers, s, [host |-> h, enabled |-> TRUE])
         /\ lastId' = s

\* handle_server_add converts the port: one that is no number is refused.
AddServer(h) ==
    /\ h \notin OddHosts
    /\ lastId < MaxServers /\ Cardinality(Listed) < MaxListed
    /\ servers' = Put(servers, lastId + 1, [host |-> h, enabled |-> TRUE])
    /\ lastId' = lastId + 1

\* handle_server_update stores any port it is given.
UpdateServer(s, row) ==
    /\ s \in Listed
    /\ servers[s] # row
    /\ servers' = Put(servers, s, row)
    /\ UNCHANGED lastId

DeleteServer(s) ==
    /\ s \in Listed
    /\ servers' = Pop(servers, s)
    /\ UNCHANGED lastId

=================================================================================
