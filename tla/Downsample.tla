------------------------------- MODULE Downsample -------------------------------
(***************************************************************************)
(* Metric storage (vpsmon/storage): samples arrive in metrics_raw, a loop  *)
(* aggregates raw -> 1m -> 5m -> 1h, another one purges old rows.          *)
(*                                                                         *)
(* A row is its source (name and tags), its timestamp and the number of    *)
(* samples behind it; values are left out.  The tables have no key, so     *)
(* they are bags.  Samples carry the clock of the host they describe: the  *)
(* local loop's are prompt, a probed server's may be late.                 *)
(***************************************************************************)
EXTENDS Naturals, Bags, FiniteSets, FiniteSetsExt

CONSTANTS
    Sources,        \* (name, tags) of a series
    MaxLate,        \* by source: how old a sample may be when it is inserted
    Width1m, Width5m, Width1h,      \* 60, 300, 3600
    Lag1m, Lag5m, Lag1h,            \* 120, 600, 7200
    Pause1m, Pause5m, Pause1h,      \* the loop's sleeps: 60, 240, 60
    PurgeInterval, KeepRaw, Keep1m, Keep5m,
    Batch,          \* rows one purge statement deletes at most
    MaxTime, MaxSamples, MaxFaults   \* bounds

ASSUME DownsampleAssumption ==
    /\ MaxLate \in [Sources -> Nat]
    /\ {Width1m, Width5m, Width1h, Pause1m, Pause5m, Pause1h, PurgeInterval, Batch} \subseteq Nat \ {0}
    /\ {Lag1m, Lag5m, Lag1h, KeepRaw, Keep1m, Keep5m, MaxTime, MaxSamples, MaxFaults} \subseteq Nat

VARIABLES
    now,
    raw, m1, m5, h1,    \* the tables
    loop,               \* _downsample_loop: its next statement, and when
    purge,              \* _purge_loop: its next statement, and when
    up,                 \* is the server running
    sampled,            \* history: every sample ever inserted
    done,               \* history: samples before done[t] are final in table t
    faults              \* history: failed statements and stops since a whole round

tables == <<raw, m1, m5, h1>>
history == <<sampled, done, faults>>
vars == <<now, tables, loop, purge, up, history>>

Row == [src : Sources, ts : 0..MaxTime, n : Nat \ {0}]

Init ==
    /\ now = 0
    /\ raw = EmptyBag /\ m1 = EmptyBag /\ m5 = EmptyBag /\ h1 = EmptyBag
    /\ loop = [next |-> "raw_to_1m", wake |-> 0]
    /\ purge = [next |-> "raw", wake |-> PurgeInterval]
    /\ up = TRUE
    /\ sampled = {}
    /\ done = [m1 |-> 0, m5 |-> 0, h1 |-> 0]
    /\ faults = 0

-----------------------------------------------------------------------------
(* Samples.                                                                *)

InsertRaw(s, t) ==
    /\ up
    /\ Cardinality(sampled) < MaxSamples
    /\ t <= now /\ now <= t + MaxLate[s]
    /\ [src |-> s, ts |-> t, n |-> 1] \notin sampled
    /\ raw' = raw (+) SetToBag({[src |-> s, ts |-> t, n |-> 1]})
    /\ sampled' = sampled \cup {[src |-> s, ts |-> t, n |-> 1]}
    /\ UNCHANGED <<now, m1, m5, h1, loop, purge, up, done, faults>>

-----------------------------------------------------------------------------
(* Aggregation: one INSERT ... SELECT ... GROUP BY (ts / width) * width.   *)

Bucket(t, width) == (t \div width) * width

\* COALESCE(MAX(ts), 0): over all sources.
Newest(table) == Max({0} \cup {r.ts : r \in BagToSet(table)})

\* Mutant: aggregation goes on after the newest bucket, as if it were final.
SelectedAfterNewest(from, to, width, before) ==
    {r \in BagToSet(from) : r.ts < before /\ r.ts >= Newest(to) + width}

Selected(from, to, width, before) ==
    {r \in BagToSet(from) : r.ts < before /\ r.ts + width > Newest(to)}

\* The samples behind the rows, each row with all of its copies.
SamplesOf(from, rows) ==
    Cardinality(UNION {{q} \X (1..(q.n * from[q])) : q \in rows})

\* Mutant: only samples at the start of the bucket are counted.
GroupedAtStart(from, rows, width) ==
    {[src |-> r.src, ts |-> Bucket(r.ts, width),
      n |-> SamplesOf(from, {q \in rows : q.src = r.src /\ q.ts = Bucket(r.ts, width)})]
     : r \in rows}

GroupOf(rows, r, width) ==
    {q \in rows : q.src = r.src /\ Bucket(q.ts, width) = Bucket(r.ts, width)}

Grouped(from, rows, width) ==
    {[src |-> r.src, ts |-> Bucket(r.ts, width), n |-> SamplesOf(from, GroupOf(rows, r, width))]
     : r \in rows}

Aggregated(from, to, width, before) ==
    to (+) SetToBag(Grouped(from, Selected(from, to, width, before), width))

Before(lag) == IF lag > now THEN 0 ELSE now - lag
Due(statement) == up /\ loop.next = statement /\ loop.wake <= now

RawTo1m ==
    /\ Due("raw_to_1m")
    /\ m1' = Aggregated(raw, m1, Width1m, Before(Lag1m))
    /\ loop' = [next |-> "1m_to_5m", wake |-> now + Pause1m]
    /\ done' = [done EXCEPT !.m1 = Before(Lag1m)]
    /\ UNCHANGED <<now, raw, m5, h1, purge, up, sampled, faults>>

OneTo5m ==
    /\ Due("1m_to_5m")
    /\ m5' = Aggregated(m1, m5, Width5m, Before(Lag5m))
    /\ loop' = [next |-> "5m_to_1h", wake |-> now + Pause5m]
    /\ done' = [done EXCEPT !.m5 = Min({Before(Lag5m), done.m1})]
    /\ UNCHANGED <<now, raw, m1, h1, purge, up, sampled, faults>>

FiveTo1h ==
    /\ Due("5m_to_1h")
    /\ h1' = Aggregated(m5, h1, Width1h, Before(Lag1h))
    /\ loop' = [next |-> "raw_to_1m", wake |-> now + Pause1h]
    /\ done' = [done EXCEPT !.h1 = Min({Before(Lag1h), done.m5})]
    /\ faults' = 0
    /\ UNCHANGED <<now, raw, m1, m5, purge, up, sampled>>

\* An exception ends the round: the next one starts with the raw rows again.
LoopFails ==
    /\ \E s \in {"raw_to_1m", "1m_to_5m", "5m_to_1h"} : Due(s)
    /\ faults < MaxFaults
    /\ faults' = faults + 1
    /\ loop' = [next |-> "raw_to_1m", wake |-> now + Pause1h]
    /\ UNCHANGED <<now, tables, purge, up, sampled, done>>

-----------------------------------------------------------------------------
(* Purging: DELETE of a batch of rows per table, in no particular order.   *)

PurgeDue(statement) == up /\ purge.next = statement /\ purge.wake <= now

OldRows(table, keep) ==
    [r \in {q \in BagToSet(table) : q.ts + keep < now} |-> table[r]]

\* Any batch of the rows: a full one, or all that there are.
Batches(rows) ==
    {b \in UNION {[S -> 1..Batch] : S \in SUBSET BagToSet(rows)} :
        b \sqsubseteq rows /\ BagCardinality(b) = Min({Batch, BagCardinality(rows)})}

\* The tables a purge may leave: without a batch of the old rows.
Purged(table, keep) == {table (-) gone : gone \in Batches(OldRows(table, keep))}

PurgeRaw ==
    /\ PurgeDue("raw")
    /\ raw' \in Purged(raw, KeepRaw)
    /\ purge' = [purge EXCEPT !.next = "1m"]
    /\ UNCHANGED <<now, m1, m5, h1, loop, up, history>>

Purge1m ==
    /\ PurgeDue("1m")
    /\ m1' \in Purged(m1, Keep1m)
    /\ purge' = [purge EXCEPT !.next = "5m"]
    /\ UNCHANGED <<now, raw, m5, h1, loop, up, history>>

\* The statements on sessions and security events that follow are not part of
\* this module; metrics_1h is never purged.
Purge5m ==
    /\ PurgeDue("5m")
    /\ m5' \in Purged(m5, Keep5m)
    /\ purge' = [next |-> "raw", wake |-> now + PurgeInterval]
    /\ UNCHANGED <<now, raw, m1, h1, loop, up, history>>

PurgeFails ==
    /\ \E s \in {"raw", "1m", "5m"} : PurgeDue(s)
    /\ faults < MaxFaults
    /\ faults' = faults + 1
    /\ purge' = [next |-> "raw", wake |-> now + PurgeInterval]
    /\ UNCHANGED <<now, tables, loop, up, sampled, done>>

-----------------------------------------------------------------------------
Stop ==
    /\ up
    /\ faults < MaxFaults
    /\ faults' = faults + 1
    /\ up' = FALSE
    /\ UNCHANGED <<now, tables, loop, purge, sampled, done>>

\* Mutant: the purge loop purges before it sleeps.
StartPurging ==
    /\ ~up
    /\ up' = TRUE
    /\ loop' = [next |-> "raw_to_1m", wake |-> now]
    /\ purge' = [next |-> "raw", wake |-> now]
    /\ UNCHANGED <<now, tables, history>>

\* start() creates both tasks: the aggregation runs at once, the purge sleeps first.
Start ==
    /\ ~up
    /\ up' = TRUE
    /\ loop' = [next |-> "raw_to_1m", wake |-> now]
    /\ purge' = [next |-> "raw", wake |-> now + PurgeInterval]
    /\ UNCHANGED <<now, tables, history>>

\* A statement that is due is not delayed by a whole unit of time.
Tick ==
    /\ now < MaxTime
    /\ up => loop.wake > now /\ purge.wake > now
    /\ now' = now + 1
    /\ UNCHANGED <<tables, loop, purge, up, history>>

Next ==
    \/ \E s \in Sources, t \in 0..now : InsertRaw(s, t)
    \/ RawTo1m \/ OneTo5m \/ FiveTo1h \/ LoopFails
    \/ PurgeRaw \/ Purge1m \/ Purge5m \/ PurgeFails
    \/ Stop \/ Start
    \/ Tick

Spec == Init /\ [][Next]_vars

-----------------------------------------------------------------------------
(* Correctness.                                                            *)

TypeOK ==
    /\ now \in 0..MaxTime
    /\ IsABag(raw) /\ IsABag(m1) /\ IsABag(m5) /\ IsABag(h1)
    /\ \A table \in {raw, m1, m5, h1} : BagToSet(table) \subseteq Row
    /\ loop \in [next : {"raw_to_1m", "1m_to_5m", "5m_to_1h"}, wake : Nat]
    /\ purge \in [next : {"raw", "1m", "5m"}, wake : Nat]
    /\ up \in BOOLEAN
    /\ sampled \subseteq Row /\ BagToSet(raw) \subseteq sampled
    /\ done \in [{"m1", "m5", "h1"} -> 0..MaxTime]
    /\ faults \in 0..MaxFaults

\* The samples of x's series in x's bucket.
Peers(x, width) ==
    {y \in sampled : y.src = x.src /\ Bucket(y.ts, width) = Bucket(x.ts, width)}

RowsOf(table, x, width) ==
    {r \in BagToSet(table) : r.src = x.src /\ r.ts = Bucket(x.ts, width)}

\* downsample.py "Aggregate raw data older than 2 minutes into 1m buckets": once
\* the cutoff has passed a bucket, one of its rows counts every sample, however
\* restarts, failures and late samples (of at most Lag1m) fell; the 5m and 1h
\* tables have a row that counts at least these.  Each run starts at the newest
\* bucket of the table, which a former run may have left unfinished.
FinishedIsCounted ==
    \A x \in sampled :
        /\ LET b == Bucket(x.ts, Width1m) IN
             b + Width1m <= done.m1 /\ b + Keep1m >= now
             => \E r \in RowsOf(m1, x, Width1m) : r.n = Cardinality(Peers(x, Width1m))
        /\ LET b == Bucket(x.ts, Width5m) IN
             b + Width5m <= done.m5 /\ b + Keep5m >= now
             => \E r \in RowsOf(m5, x, Width5m) : r.n >= Cardinality(Peers(x, Width5m))
        /\ Bucket(x.ts, Width1h) + Width1h <= done.h1
           => \E r \in RowsOf(h1, x, Width1h) : r.n >= Cardinality(Peers(x, Width1h))

\* Rows are deleted by age alone, not by what became of them: after a long stop it
\* is the order of the first wake-ups that lets the aggregation see them first.
PurgedIsAggregated ==
    \A x \in sampled :
        /\ x \notin BagToSet(raw) => Bucket(x.ts, Width1m) + Width1m <= done.m1
        /\ x.ts < done.m1 /\ RowsOf(m1, x, Width1m) = {} => x.ts < done.m5

\* db.py "1-minute aggregates": a table of aggregates has one row per bucket.
OneRowPerBucket ==
    \A r, q \in BagToSet(m1) :
        m1[r] = 1 /\ (r.src = q.src /\ r.ts = q.ts => r = q)

=============================================================================
