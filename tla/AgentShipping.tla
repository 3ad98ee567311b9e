------------------------------ MODULE AgentShipping ------------------------------
(***************************************************************************)
(* Log shipping: the loop of the agent (agent/vpsmon-agent.py, main_loop)  *)
(* reads its journal and posts a batch, and the server stores it entry by  *)
(* entry (vpsmon/agents.py, ingest_logs), even when the agent has given up *)
(* waiting.  Heartbeat and metrics of an iteration are the time that may   *)
(* pass before the journal is read.                                        *)
(***************************************************************************)
EXTENDS Naturals, Sequences, FiniteSets

CONSTANTS
    Cap,         \* entries in a batch: journalctl -n 100, Get-EventLog -Newest 30
    Back,        \* how far back a started agent reads: 300 s
    Every,       \* log_ship_interval
    MaxTime,     \* bound: seconds
    MaxLines,    \* bound: entries of the journal
    MaxStarts    \* bound: starts of the agent

ASSUME ShippingAssumption ==
    /\ {Cap, Every} \subseteq Nat \ {0}
    /\ {Back, MaxTime, MaxLines, MaxStarts} \subseteq Nat
    /\ Every <= MaxTime

VARIABLES
    os,         \* of the agent's host
    clock,
    journal,    \* the host's: the second each entry was written in
    agent,
    handlers,   \* the server's: what of a batch is still to be inserted
    copies,     \* the agent_logs table: rows per entry
    starts,     \* history: starts of the agent
    missed      \* history: entries of a failed read or push, or beyond Cap

shippingVars == <<os, clock, journal, agent, handlers, copies, starts, missed>>

Lines == 1..MaxLines
Seconds == 0..(MaxTime + 1)

\* begin: since when this run has read; since: last_log_ts; last: last_logs; now:
\* when the iteration began; awake: when its sleep ends; batch: what was read.
Agent == [pc : {"down"}]
    \cup [pc : {"loop", "read", "ship", "wait"}, begin : Seconds, since : Seconds,
          last : Seconds, now : Seconds, awake : Seconds, batch : SUBSET Lines]
\* Two batches differ in the run or the second they were sent in.
Handler == [run : 1..MaxStarts, sent : Seconds, left : SUBSET Lines]

ShippingInit ==
    /\ os \in {"linux", "windows"}
    /\ clock = Every
    /\ journal = <<>>
    /\ agent = [pc |-> "down"]
    /\ handlers = {}
    /\ copies = [i \in Lines |-> 0]
    /\ starts = 0
    /\ missed = {}

Write ==
    /\ Len(journal) < MaxLines
    /\ journal' = Append(journal, clock)
    /\ UNCHANGED <<os, clock, agent, handlers, copies, starts, missed>>

Second ==
    /\ clock < MaxTime
    /\ clock' = clock + 1
    /\ UNCHANGED <<os, journal, agent, handlers, copies, starts, missed>>

-----------------------------------------------------------------------------
(* The agent.                                                              *)

Start ==
    /\ agent.pc = "down" /\ starts < MaxStarts
    /\ starts' = starts + 1
    /\ LET since == IF clock > Back THEN clock - Back ELSE 0 IN
         agent' = [pc |-> "loop", begin |-> since, since |-> since, last |-> 0,
                   now |-> 0, awake |-> clock, batch |-> {}]
    /\ UNCHANGED <<os, clock, journal, handlers, copies, missed>>

\* An iteration that finds the logs due.
Iterate ==
    /\ agent.pc = "loop"
    /\ clock >= agent.awake /\ clock - agent.last >= Every
    /\ agent' = [agent EXCEPT !.pc = "read", !.now = clock]
    /\ UNCHANGED <<os, clock, journal, handlers, copies, starts, missed>>

Newest == {i \in DOMAIN journal : i + Cap > Len(journal)}
Since(s) == {i \in DOMAIN journal : journal[i] >= s}

\* The Windows collector does not use since.
Batch(s) == IF os = "linux" THEN Newest \cap Since(s) ELSE Newest

\* A collector that fails (a timeout, no journalctl) returns what it has: nothing.
\* Nothing is posted then, and the window moves on all the same.
ReadJournal ==
    /\ agent.pc = "read"
    /\ \E batch \in {Batch(agent.since), {}} :
         /\ agent' = [agent EXCEPT !.pc = IF batch = {} THEN "wait" ELSE "ship",
                                   !.batch = batch]
         /\ missed' = missed \cup (Since(agent.since) \ batch)
    /\ UNCHANGED <<os, clock, journal, handlers, copies, starts>>

\* The request reaches the handler, or not.
Ship ==
    /\ agent.pc = "ship"
    /\ agent' = [agent EXCEPT !.pc = "wait", !.batch = {}]
    /\ \/ /\ handlers' = handlers \cup {[run |-> starts, sent |-> agent.now, left |-> agent.batch]}
          /\ UNCHANGED missed
       \/ /\ missed' = missed \cup agent.batch
          /\ UNCHANGED handlers
    /\ UNCHANGED <<os, clock, journal, copies, starts>>

\* Mutants: the time after the push; the window stays while the server has not
\* answered.
NextSinceLate == clock
NextSinceRetry == IF handlers = {} THEN agent.now ELSE agent.since
NextSince == agent.now

\* The answer, or the timeout of 15 s: an error is only logged.  Then sleep(1).
Shipped ==
    /\ agent.pc = "wait"
    /\ agent' = [agent EXCEPT !.pc = "loop", !.since = NextSince, !.last = agent.now,
                              !.awake = clock + 1]
    /\ UNCHANGED <<os, clock, journal, handlers, copies, starts, missed>>

\* SIGTERM between two iterations, or a crash within one.
Stop ==
    /\ agent.pc # "down"
    /\ agent' = [pc |-> "down"]
    /\ UNCHANGED <<os, clock, journal, handlers, copies, starts, missed>>

-----------------------------------------------------------------------------
(* The server.  Entries are inserted in the order of the batch.            *)

Insert(h) ==
    /\ h \in handlers
    /\ \E i \in h.left :
         /\ \A j \in h.left : i <= j
         /\ copies' = [copies EXCEPT ![i] = @ + 1]
         /\ handlers' = (handlers \ {h})
              \cup (IF h.left = {i} THEN {} ELSE {[h EXCEPT !.left = h.left \ {i}]})
    /\ UNCHANGED <<os, clock, journal, agent, starts, missed>>

\* A statement fails, or the server is stopped: the rest of the batch is lost.
HandlerFails(h) ==
    /\ h \in handlers
    /\ handlers' = handlers \ {h}
    /\ missed' = missed \cup h.left
    /\ UNCHANGED <<os, clock, journal, agent, copies, starts>>

ShippingNext ==
    \/ Write \/ Second
    \/ Start \/ Iterate \/ ReadJournal \/ Ship \/ Shipped \/ Stop
    \/ \E h \in handlers : Insert(h) \/ HandlerFails(h)

ShippingSpec == ShippingInit /\ [][ShippingNext]_shippingVars

-----------------------------------------------------------------------------
(* Properties.                                                             *)

\* Every state is well typed.
ShippingTypeOK ==
    /\ os \in {"linux", "windows"}
    /\ clock \in Seconds
    /\ journal \in Seq(Seconds) /\ Len(journal) <= MaxLines
    /\ agent \in Agent
    /\ handlers \subseteq Handler
    /\ copies \in [Lines -> Nat]
    /\ starts \in 0..MaxStarts
    /\ missed \subseteq Lines

\* An entry that the window (last_log_ts) has passed since the agent was started is
\* stored or about to be, unless a read or a push that held it failed or more than a
\* batch was written: no entry falls between two windows, whatever is written while
\* the agent collects, posts and sleeps.
LossHasACause ==
    agent.pc # "down" =>
        \A i \in DOMAIN journal :
            agent.begin <= journal[i] /\ journal[i] < agent.since =>
                \/ copies[i] > 0 \/ i \in missed
                \/ \E h \in handlers : i \in h.left

\* Overlapping windows, late answers and batches that are still being inserted when
\* the next one comes store an entry of a Linux journal at most twice for each start
\* of the agent: what failed or timed out is not shipped again.
CopiesAreBounded ==
    os = "linux" =>
        \A i \in Lines :
            copies[i] + Cardinality({h \in handlers : i \in h.left}) <= 2 * starts

=================================================================================
