------------------------------- MODULE LogPatterns -------------------------------
(***************************************************************************)
(* Log pattern detection (vpsmon/log_patterns.py): every two minutes, or   *)
(* on request, the shipped log entries that match a pattern and were       *)
(* written in its window are counted, and an alert is fired from a         *)
(* threshold on.  Entries arrive later than they were written.             *)
(*                                                                         *)
(* Entries are told apart by the pattern they match and the time they were *)
(* written at.                                                             *)
(***************************************************************************)
EXTENDS Integers, FiniteSets, Dict

CONSTANTS
    Watched,       \* the patterns whose entries are followed
    Minute,        \* units of time in a minute
    Pause,         \* the loop's sleep between two scans: two minutes
    Warmup,        \* the sleep before its first scan: 30 s
    DupSpan,       \* fire_custom_alert's window: 60 s
    MaxShip,       \* how long an entry takes to agent_logs
    MaxScan,       \* how long a scan takes
    BatchSizes,    \* matching entries written at one time
    MaxBatches, MaxTrouble, MaxUnits   \* bounds

\* PATTERNS: how many matching entries in how many minutes are an alert.
Patterns ==
    [ssh_brute_force      |-> [threshold |-> 10, window |-> 5],
     service_crash        |-> [threshold |-> 1,  window |-> 15],
     disk_full_warning    |-> [threshold |-> 1,  window |-> 30],
     kernel_error         |-> [threshold |-> 1,  window |-> 60],
     nginx_5xx_spike      |-> [threshold |-> 20, window |-> 5],
     docker_restart_loop  |-> [threshold |-> 3,  window |-> 10],
     windows_failed_login |-> [threshold |-> 5,  window |-> 10],
     unexpected_reboot    |-> [threshold |-> 1,  window |-> 60],
     certificate_expiry   |-> [threshold |-> 1,  window |-> 60],
     memory_pressure      |-> [threshold |-> 1,  window |-> 15]]

ASSUME PatternsAssumption ==
    /\ Watched \subseteq DOMAIN Patterns
    /\ {Minute, Pause, Warmup, DupSpan, MaxShip, MaxScan, MaxBatches, MaxTrouble, MaxUnits} \subseteq Nat
    /\ BatchSizes \subseteq Nat \ {0}
    /\ Warmup <= Pause /\ MaxUnits > 0

VARIABLES
    instant,
    written,    \* batches on the hosts that are not shipped yet
    agentLogs,  \* the agent_logs table, as batches
    scan,       \* the loop: asleep until scan.wake, or with patterns still to count
    fired,      \* pattern -> its last alert of type log-pattern, if any
    trouble     \* history: failed scans and restarts, and the last one per pattern

patternsVars == <<instant, written, agentLogs, scan, fired, trouble>>

Units == 1..MaxUnits
LogBatch == [pattern : Watched, ts : Units, count : BatchSizes]
Alert == [ts : Units, acked : BOOLEAN]
NoTrouble == [times |-> 0, last |-> Empty]

PatternsInit ==
    /\ instant = 1
    /\ written = {} /\ agentLogs = {}
    /\ scan = [todo |-> {}, wake |-> 1 + Warmup, since |-> 1]
    /\ fired = Empty
    /\ trouble = NoTrouble

-----------------------------------------------------------------------------
(* The hosts.                                                              *)

WriteBatch(b) ==
    /\ b.ts = instant
    /\ Cardinality(written \cup agentLogs) < MaxBatches
    /\ ~\E c \in written \cup agentLogs : c.pattern = b.pattern /\ c.ts = b.ts
    /\ written' = written \cup {b}
    /\ UNCHANGED <<instant, agentLogs, scan, fired, trouble>>

ShipBatch(b) ==
    /\ written' = written \ {b}
    /\ agentLogs' = agentLogs \cup {b}
    /\ UNCHANGED <<instant, scan, fired, trouble>>

-----------------------------------------------------------------------------
(* scan_patterns.                                                          *)

\* COUNT(*): the entries of the batches.
SumOf(S) == Cardinality(UNION {{b} \X (1..b.count) : b \in S})
Window(p) == Minute * Patterns[p].window
Hour == 60 * Minute

\* ts > cutoff of the last hour and ts > the window's: both from the scan's clock.
Matching(p) == {b \in agentLogs : /\ b.pattern = p
                                  /\ b.ts + Window(p) > instant
                                  /\ b.ts + Hour > instant}

\* Mutant: more than the threshold.
AboveThreshold(p) == SumOf(Matching(p)) > Patterns[p].threshold
Detected(p) == SumOf(Matching(p)) >= Patterns[p].threshold

Duplicate(p) == p \in DOMAIN fired /\ ~fired[p].acked /\ fired[p].ts + DupSpan > instant

\* fire_custom_alert, for what is detected and no duplicate.
Fire(p) == fired' = IF Detected(p) /\ ~Duplicate(p)
                    THEN Put(fired, p, [ts |-> instant, acked |-> FALSE]) ELSE fired

StartScan ==
    /\ scan.todo = {} /\ instant >= scan.wake
    /\ scan' = [scan EXCEPT !.todo = Watched, !.since = instant]
    /\ UNCHANGED <<instant, written, agentLogs, fired, trouble>>

\* After the last pattern the loop goes to sleep.
Scanned(p) == LET rest == scan.todo \ {p} IN
    scan' = [scan EXCEPT !.todo = rest, !.wake = IF rest = {} THEN instant + Pause ELSE scan.wake]

ScanPattern(p) ==
    /\ p \in scan.todo
    /\ Fire(p)
    /\ Scanned(p)
    /\ UNCHANGED <<instant, written, agentLogs, trouble>>

\* A failed statement, of the count or of the alert: the scan goes on with the next one.
PatternFails(p) ==
    /\ p \in scan.todo
    /\ trouble.times < MaxTrouble
    /\ trouble' = [times |-> trouble.times + 1, last |-> Put(trouble.last, p, instant)]
    /\ Scanned(p)
    /\ UNCHANGED <<instant, written, agentLogs, fired>>

\* handle_log_patterns_scan, as far as one pattern is concerned.
ScanByHand(p) ==
    /\ Fire(p)
    /\ UNCHANGED <<instant, written, agentLogs, scan, trouble>>

\* ack_alert, while it can still be a duplicate.
AckFired(p) ==
    /\ Duplicate(p)
    /\ fired' = [fired EXCEPT ![p].acked = TRUE]
    /\ UNCHANGED <<instant, written, agentLogs, scan, trouble>>

PatternsRestart ==
    /\ trouble.times < MaxTrouble
    /\ scan' = [todo |-> {}, wake |-> instant + Warmup, since |-> instant]
    /\ trouble' = [times |-> trouble.times + 1, last |-> [p \in Watched |-> instant]]
    /\ UNCHANGED <<instant, written, agentLogs, fired>>

\* Shipping, waking up and scanning take no longer than their bounds.
UnitPasses ==
    /\ instant < MaxUnits
    /\ \A b \in written : instant < b.ts + MaxShip
    /\ IF scan.todo = {} THEN instant < scan.wake ELSE instant < scan.since + MaxScan
    /\ instant' = instant + 1
    /\ UNCHANGED <<written, agentLogs, scan, fired, trouble>>

PatternsNext ==
    \/ \E b \in LogBatch : WriteBatch(b)
    \/ \E b \in written : ShipBatch(b)
    \/ StartScan
    \/ \E p \in Watched : ScanPattern(p) \/ PatternFails(p) \/ ScanByHand(p)
    \/ \E p \in DOMAIN fired : AckFired(p)
    \/ PatternsRestart \/ UnitPasses

PatternsSpec == PatternsInit /\ [][PatternsNext]_patternsVars

-----------------------------------------------------------------------------
(* Properties.                                                             *)

\* Every state is well typed.
PatternsTypeOK ==
    /\ instant \in Units
    /\ written \subseteq LogBatch /\ agentLogs \subseteq LogBatch
    /\ scan \in [todo : SUBSET Watched, wake : Nat, since : Units]
    /\ DOMAIN fired \subseteq Watched /\ fired \in [DOMAIN fired -> Alert]
    /\ trouble.times \in 0..MaxTrouble
    /\ DOMAIN trouble.last \subseteq Watched /\ \A p \in DOMAIN trouble.last : trouble.last[p] \in Units

\* The longest burst, in units, whose first entry is still in the window when the scan
\* after the arrival of its last one counts it.
LongestBurst(p) == Window(p) - (MaxShip + Pause + 2 * MaxScan + 1)

Burst(p, from) == {b \in written \cup agentLogs :
                     b.pattern = p /\ b.ts \in from..(from + LongestBurst(p))}

\* There is an alert of its time or of the minute before it (the duplicate of
\* fire_custom_alert), or a scan failed meanwhile.
Reported(p, from) ==
    \/ p \in DOMAIN fired /\ fired[p].ts + DupSpan >= from
    \/ p \in DOMAIN trouble.last /\ trouble.last[p] + Pause >= from

\* Enough matching entries, close enough together, do not go unreported between two
\* scans: when the window of the first one is over they are reported, or a scan failed.
BurstIsReported ==
    \A p \in Watched, from \in Units :
        instant = from + Window(p) /\ SumOf(Burst(p, from)) >= Patterns[p].threshold
        => Reported(p, from)

=============================================================================
