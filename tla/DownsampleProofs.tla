------------------------------ MODULE DownsampleProofs ------------------------------
(***************************************************************************)
(* Proofs about Downsample: its states are well typed; with settings that  *)
(* keep the purge behind the aggregation nothing is purged before it was   *)
(* aggregated; and what is final is counted in every table, since an       *)
(* aggregation selects whole buckets whose samples, or finer buckets, are  *)
(* all there when it makes them final.                                     *)
(***************************************************************************)
EXTENDS Downsample, FiniteSetTheorems, TLAPS

-----------------------------------------------------------------------------
(* Natural numbers and finite sets.                                        *)

\* Induction, for a set of numbers: if n were left out, adding one would map the
\* numbers up to n that are in S into those that are not 0, which are fewer.
LEMMA SetInduction ==
    ASSUME NEW S, 0 \in S, \A n \in Nat : n \in S => n + 1 \in S
    PROVE  Nat \subseteq S
<1>. SUFFICES ASSUME NEW n \in Nat, n \notin S PROVE FALSE
  OBVIOUS
<1>. DEFINE A == S \cap (0..n)
            B == A \ {0}
            f == [k \in A |-> k + 1]
<1>1. /\ IsFiniteSet(A) /\ IsFiniteSet(B) /\ Cardinality(A) \in Nat
      /\ Cardinality(B) = Cardinality(A) - 1
  <2>1. IsFiniteSet(0..n)
    BY FS_Interval
  <2>2. A \subseteq 0..n /\ 0 \in A
    OBVIOUS
  <2>3. IsFiniteSet(A)
    BY <2>1, <2>2, FS_Subset
  <2>. HIDE DEF A
  <2>. QED
    BY <2>2, <2>3, FS_RemoveElement, FS_CardinalityType
<1>2. f \in [A -> B]
  <2>1. \A k \in A : k + 1 \in B
    OBVIOUS
  <2>. HIDE DEF B
  <2>. QED
    BY <2>1
<1>3. \A j, k \in A : f[j] = f[k] => j = k
  OBVIOUS
<1>4. Cardinality(B) < Cardinality(A)
  BY <1>1
<1>. HIDE DEF A, B, f
<1>. QED
  BY <1>1, <1>2, <1>3, <1>4, FS_PigeonHole

\* A set of numbers up to n has a greatest one, if it has any.
LEMMA GreatestExists ==
    ASSUME NEW n \in Nat, NEW S \in SUBSET (0..n), S # {}
    PROVE  Max(S) \in S /\ \A m \in S : m <= Max(S)
<1>. DEFINE HasGreatest(T) == \E x \in T : \A y \in T : x >= y
            Good == {k \in Nat : \A T \in SUBSET (0..k) : T # {} => HasGreatest(T)}
<1>1. 0 \in Good
  <2>. SUFFICES ASSUME NEW T \in SUBSET (0..0), T # {} PROVE HasGreatest(T)
    OBVIOUS
  <2>1. PICK x \in T : TRUE
    OBVIOUS
  <2>2. \A y \in T : x = 0 /\ y = 0
    OBVIOUS
  <2>3. \A y \in T : x >= y
    BY <2>2
  <2>. QED
    BY <2>1, <2>3
<1>2. ASSUME NEW k \in Nat, k \in Good PROVE k + 1 \in Good
  <2>. SUFFICES ASSUME NEW T \in SUBSET (0..(k + 1)), T # {} PROVE HasGreatest(T)
    OBVIOUS
  <2>1. CASE k + 1 \in T
    BY <2>1
  <2>2. CASE k + 1 \notin T
    <3>1. T \in SUBSET (0..k)
      BY <2>2
    <3>. QED
      BY <1>2, <3>1
  <2>. QED
    BY <2>1, <2>2
<1>3. n \in Good
  <2>. HIDE DEF Good
  <2>. QED
    BY <1>1, <1>2, SetInduction
<1>4. HasGreatest(S)
  BY <1>3
<1>5. Max(S) \in S /\ \A m \in S : Max(S) >= m
  BY <1>4 DEF Max
<1>. QED
  BY <1>5

\* The smaller of two numbers.
LEMMA MinOfTwo ==
    ASSUME NEW a \in Nat, NEW b \in Nat
    PROVE  Min({a, b}) = IF a <= b THEN a ELSE b
<1>1. \E x \in {a, b} : \A y \in {a, b} : x <= y
  OBVIOUS
<1>2. Min({a, b}) \in {a, b} /\ \A y \in {a, b} : Min({a, b}) <= y
  BY <1>1 DEF Min
<1>. QED
  BY <1>2

\* A sum over a finite set: the elements, each as often as it counts.
LEMMA CountedIsFinite ==
    ASSUME NEW rows, IsFiniteSet(rows), NEW times \in [rows -> Nat]
    PROVE  LET counted == UNION {{q} \X (1..times[q]) : q \in rows}
           IN  IsFiniteSet(counted) /\ Cardinality(counted) \in Nat
<1>. DEFINE Own(q) == {q} \X (1..times[q])
            all == {Own(q) : q \in rows}
            f == [q \in rows |-> Own(q)]
<1>1. \A q \in rows : IsFiniteSet(Own(q))
  <2>. SUFFICES ASSUME NEW q \in rows PROVE IsFiniteSet(Own(q))
    OBVIOUS
  <2>1. IsFiniteSet({q})
    BY FS_Singleton
  <2>2. IsFiniteSet(1..times[q])
    <3>1. times[q] \in Int /\ 1 \in Int
      OBVIOUS
    <3>. HIDE DEF Own, all, f
    <3>. QED
      BY <3>1, FS_Interval
  <2>. QED
    BY <2>1, <2>2, FS_Product
<1>2. IsFiniteSet(all)
  <2>1. f \in Surjection(rows, all)
    BY DEF Surjection
  <2>. HIDE DEF f, all
  <2>. QED
    BY <2>1, FS_Surjection
<1>3. \A s \in all : IsFiniteSet(s)
  BY <1>1
<1>4. IsFiniteSet(UNION all)
  <2>. HIDE DEF all
  <2>. QED
    BY <1>2, <1>3, FS_UNION
<1>. QED
  BY <1>4, FS_CardinalityType

-----------------------------------------------------------------------------
(* Tables.                                                                 *)

IsTable(t) == IsABag(t) /\ BagToSet(t) \subseteq Row /\ IsFiniteSet(BagToSet(t))

\* A time is in its bucket.
LEMMA InBucket ==
    ASSUME NEW t \in Nat, NEW w \in Nat \ {0}
    PROVE  /\ Bucket(t, w) \in Nat
           /\ Bucket(t, w) <= t
           /\ t < Bucket(t, w) + w
<1>1. t \div w \in Nat /\ t = w * (t \div w) + (t % w) /\ t % w \in 0..(w - 1)
  OBVIOUS
<1>. DEFINE q == t \div w
<1>2. q * w \in Nat /\ q * w = w * q
  BY <1>1
<1>. QED
  BY <1>1, <1>2 DEF Bucket

\* An aggregation adds rows with the source and the bucket of rows it selects.
LEMMA AggregationAdds ==
    ASSUME NEW from, NEW to, IsTable(from), IsTable(to),
           NEW width \in Nat \ {0}, NEW before \in Nat
    PROVE  /\ IsTable(Aggregated(from, to, width, before))
           /\ BagToSet(Aggregated(from, to, width, before))
              = BagToSet(to) \cup Grouped(from, Selected(from, to, width, before), width)
<1>. DEFINE rows == Selected(from, to, width, before)
            added == Grouped(from, rows, width)
            new == Aggregated(from, to, width, before)
            Own(r) == [src |-> r.src, ts |-> Bucket(r.ts, width),
                       n |-> SamplesOf(from, GroupOf(rows, r, width))]
<1>1. rows \subseteq BagToSet(from) /\ IsFiniteSet(rows) /\ rows \subseteq Row
  <2>1. rows \subseteq BagToSet(from)
    BY DEF Selected
  <2>. QED
    BY <2>1, FS_Subset DEF IsTable
<1>2. \A r \in rows : Own(r) \in Row
  <2>. SUFFICES ASSUME NEW r \in rows PROVE Own(r) \in Row
    OBVIOUS
  <2>. DEFINE group == GroupOf(rows, r, width)
              times == [q \in group |-> q.n * from[q]]
              counted == UNION {{q} \X (1..times[q]) : q \in group}
  <2>1. /\ group \subseteq rows /\ r \in group /\ IsFiniteSet(group)
        /\ r \in Row
    BY <1>1, FS_Subset DEF GroupOf
  <2>2. times \in [group -> Nat \ {0}]
    <3>1. ASSUME NEW q \in group PROVE q.n * from[q] \in Nat \ {0}
      <4>1. q.n \in Nat \ {0} /\ from[q] \in Nat \ {0}
        BY <1>1, <2>1 DEF IsTable, IsABag, BagToSet, Row
      <4>. QED
        BY <4>1
    <3>. QED
      BY <3>1
  <2>3. SamplesOf(from, group) = Cardinality(counted)
    <3>1. {{q} \X (1..(q.n * from[q])) : q \in group} = {{q} \X (1..times[q]) : q \in group}
      OBVIOUS
    <3>. QED
      BY <3>1 DEF SamplesOf
  <2>4. IsFiniteSet(counted) /\ Cardinality(counted) \in Nat
    <3>. HIDE DEF times, group
    <3>. QED
      BY <2>1, <2>2, CountedIsFinite
  <2>5. <<r, 1>> \in counted
    <3>1. times[r] \in Nat \ {0}
      BY <2>1, <2>2
    <3>. HIDE DEF times
    <3>2. <<r, 1>> \in {r} \X (1..times[r])
      BY <3>1
    <3>. QED
      BY <2>1, <3>2
  <2>6. SamplesOf(from, group) \in Nat \ {0}
    <3>. HIDE DEF counted
    <3>. QED
      BY <2>3, <2>4, <2>5, FS_EmptySet
  <2>7. r.src \in Sources /\ r.ts \in 0..MaxTime /\ MaxTime \in Nat
    BY <2>1, DownsampleAssumption DEF Row
  <2>8. Bucket(r.ts, width) \in 0..MaxTime
    <3>1. r.ts \in Nat /\ r.ts <= MaxTime
      BY <2>7
    <3>2. Bucket(r.ts, width) \in Nat /\ Bucket(r.ts, width) <= r.ts
      BY <3>1, InBucket
    <3>. QED
      BY <2>7, <3>1, <3>2
  <2>. HIDE DEF group
  <2>. QED
    BY <2>6, <2>7, <2>8 DEF Row, group
<1>3. added = {Own(r) : r \in rows}
  BY DEF Grouped
<1>4. IsFiniteSet(added) /\ added \subseteq Row
  <2>. DEFINE f == [r \in rows |-> Own(r)]
  <2>1. f \in Surjection(rows, added)
    <3>. HIDE DEF Own
    <3>. QED
      BY <1>3 DEF Surjection
  <2>. HIDE DEF f, rows, added
  <2>2. IsFiniteSet(added)
    BY <1>1, <2>1, FS_Surjection
  <2>. QED
    BY <1>2, <1>3, <2>2
<1>. HIDE DEF added, rows, Own
<1>5. new = to (+) SetToBag(added)
  BY DEF Aggregated, added, rows
<1>. HIDE DEF new
<1>6. BagToSet(new) = BagToSet(to) \cup added
  BY <1>5 DEF BagToSet, SetToBag, (+)
<1>7. IsABag(new)
  <2>1. \A e \in DOMAIN new : new[e] \in {n \in Nat : n > 0}
    BY <1>5 DEF IsTable, IsABag, SetToBag, (+)
  <2>2. new = [e \in DOMAIN new |-> new[e]]
    BY <1>5 DEF SetToBag, (+)
  <2>. QED
    BY <2>1, <2>2 DEF IsABag
<1>8. IsFiniteSet(BagToSet(new))
  BY <1>4, <1>6, FS_Union DEF IsTable
<1>. QED
  BY <1>4, <1>6, <1>7, <1>8 DEF IsTable, new, added, rows

\* A purge takes rows away, and only old ones.
LEMMA PurgeTakesOld ==
    ASSUME NEW t, IsTable(t), NEW keep \in Nat, NEW new \in Purged(t, keep)
    PROVE  /\ IsTable(new)
           /\ BagToSet(new) \subseteq BagToSet(t)
           /\ \A r \in BagToSet(new) : new[r] <= t[r]
           /\ \A r \in BagToSet(t) \ BagToSet(new) : r.ts + keep < now
<1>1. PICK b \in Batches(OldRows(t, keep)) : new = t (-) b
  BY DEF Purged
<1>2. DOMAIN b \subseteq DOMAIN OldRows(t, keep) /\ \A e \in DOMAIN b : b[e] \in Nat
  <2>1. \E S \in SUBSET BagToSet(OldRows(t, keep)) : b \in [S -> 1..Batch]
    BY DEF Batches
  <2>. QED
    BY <2>1 DEF BagToSet
<1>3. \A e \in DOMAIN b : e \in DOMAIN t /\ e.ts + keep < now
  BY <1>2 DEF OldRows, BagToSet
<1>. DEFINE B == [e \in DOMAIN t |-> IF e \in DOMAIN b THEN t[e] - b[e] ELSE t[e]]
<1>4. new = [e \in {d \in DOMAIN B : B[d] > 0} |-> B[e]]
  BY <1>1 DEF (-)
<1>5. \A e \in DOMAIN t : t[e] \in Nat /\ t[e] > 0
  BY DEF IsTable, IsABag
<1>6. \A e \in DOMAIN t : B[e] \in Int /\ B[e] <= t[e] /\ (e \notin DOMAIN b => B[e] = t[e])
  BY <1>2, <1>5
<1>7. DOMAIN B = DOMAIN t
  OBVIOUS
<1>. HIDE DEF B
<1>8. /\ DOMAIN new = {d \in DOMAIN t : B[d] > 0}
      /\ \A e \in DOMAIN new : new[e] = B[e]
  BY <1>4, <1>7
<1>9. IsABag(new)
  <2>1. \A e \in DOMAIN new : new[e] \in {n \in Nat : n > 0}
    BY <1>6, <1>8
  <2>2. new = [e \in DOMAIN new |-> new[e]]
    BY <1>4
  <2>. QED
    BY <2>1, <2>2 DEF IsABag
<1>10. BagToSet(new) \subseteq BagToSet(t) /\ IsFiniteSet(BagToSet(new))
  BY <1>8, FS_Subset DEF IsTable, BagToSet
<1>11. \A r \in BagToSet(new) : new[r] <= t[r]
  BY <1>6, <1>8 DEF BagToSet
<1>12. \A r \in BagToSet(t) \ BagToSet(new) : r.ts + keep < now
  BY <1>3, <1>5, <1>6, <1>8 DEF BagToSet
<1>. QED
  BY <1>9, <1>10, <1>11, <1>12 DEF IsTable

-----------------------------------------------------------------------------
(* Type correctness.                                                       *)

LoopTyped == loop \in [next : {"raw_to_1m", "1m_to_5m", "5m_to_1h"}, wake : Nat]
PurgeTyped == purge \in [next : {"raw", "1m", "5m"}, wake : Nat]
TablesTyped == IsTable(raw) /\ IsTable(m1) /\ IsTable(m5) /\ IsTable(h1)
SamplesTyped ==
    /\ sampled \subseteq Row /\ IsFiniteSet(sampled)
    /\ \A x \in sampled : x.n = 1 /\ x.ts <= now
    /\ BagToSet(raw) \subseteq sampled /\ \A x \in BagToSet(raw) : raw[x] = 1
HistoryTyped ==
    /\ done \in [{"m1", "m5", "h1"} -> 0..MaxTime]
    /\ faults \in 0..MaxFaults

StorageTyped ==
    /\ now \in 0..MaxTime /\ up \in BOOLEAN
    /\ LoopTyped /\ PurgeTyped /\ TablesTyped /\ SamplesTyped /\ HistoryTyped

\* The time before which an aggregation reads is never later than its lag ago.
LEMMA BeforeIsPast ==
    ASSUME now \in 0..MaxTime, NEW lag \in Nat
    PROVE  /\ Before(lag) \in 0..MaxTime /\ Before(lag) \in Nat
           /\ now <= Before(lag) + lag
           /\ Before(lag) = 0 \/ Before(lag) + lag = now
  BY DownsampleAssumption DEF Before

\* A batch of new rows of one copy each.
LEMMA TableWithRow ==
    ASSUME NEW t, IsTable(t), NEW x \in Row
    PROVE  LET new == t (+) SetToBag({x})
           IN  /\ IsTable(new) /\ BagToSet(new) = BagToSet(t) \cup {x}
               /\ \A r \in BagToSet(t) : r # x => new[r] = t[r]
               /\ x \notin BagToSet(t) => new[x] = 1
<1>. DEFINE new == t (+) SetToBag({x})
<1>1. BagToSet(new) = BagToSet(t) \cup {x}
  BY DEF BagToSet, SetToBag, (+)
<1>2. /\ \A r \in BagToSet(t) : r # x => new[r] = t[r]
      /\ x \notin BagToSet(t) => new[x] = 1
      /\ x \in BagToSet(t) => new[x] = t[x] + 1
  BY DEF BagToSet, SetToBag, IsTable, IsABag, (+)
<1>3. new = [e \in DOMAIN new |-> new[e]]
  BY DEF SetToBag, (+)
<1>. HIDE DEF new
<1>4. IsABag(new)
  <2>1. \A e \in DOMAIN new : new[e] \in {n \in Nat : n > 0}
    BY <1>1, <1>2 DEF IsTable, IsABag, BagToSet
  <2>. QED
    BY <1>3, <2>1 DEF IsABag
<1>5. IsFiniteSet(BagToSet(new))
  BY <1>1, FS_AddElement DEF IsTable
<1>. QED
  BY <1>1, <1>2, <1>4, <1>5 DEF IsTable, new

\* The storage's start.
LEMMA StorageStart == Init => StorageTyped
<1>. SUFFICES ASSUME Init PROVE StorageTyped
  OBVIOUS
<1>. USE DownsampleAssumption
<1>1. IsTable(EmptyBag) /\ BagToSet(EmptyBag) = {}
  <2>1. BagToSet(EmptyBag) = {}
    BY DEF EmptyBag, SetToBag, BagToSet
  <2>2. IsABag(EmptyBag)
    BY DEF EmptyBag, SetToBag, IsABag
  <2>. QED
    BY <2>1, <2>2, FS_EmptySet DEF IsTable
<1>2. now \in 0..MaxTime /\ up \in BOOLEAN /\ LoopTyped /\ PurgeTyped
  BY DEF Init, LoopTyped, PurgeTyped
<1>3. TablesTyped /\ SamplesTyped
  BY <1>1, FS_EmptySet DEF Init, TablesTyped, SamplesTyped
<1>4. HistoryTyped
  BY DEF Init, HistoryTyped
<1>. QED
  BY <1>2, <1>3, <1>4 DEF StorageTyped

\* Aggregations.
LEMMA AggregationTyped ==
    ASSUME StorageTyped, RawTo1m \/ OneTo5m \/ FiveTo1h
    PROVE  StorageTyped'
<1>. USE DownsampleAssumption DEF StorageTyped
<1>1. /\ UNCHANGED <<now, raw, purge, up, sampled>>
      /\ \A lag \in Nat : Before(lag) \in 0..MaxTime /\ Before(lag) \in Nat
  BY BeforeIsPast DEF RawTo1m, OneTo5m, FiveTo1h
<1>2. LoopTyped'
  BY DEF RawTo1m, OneTo5m, FiveTo1h, LoopTyped
<1>3. TablesTyped'
  <2>1. CASE RawTo1m
    <3>1. IsTable(Aggregated(raw, m1, Width1m, Before(Lag1m)))
      BY <1>1, AggregationAdds DEF TablesTyped
    <3>. QED
      BY <1>1, <2>1, <3>1 DEF RawTo1m, TablesTyped
  <2>2. CASE OneTo5m
    <3>1. IsTable(Aggregated(m1, m5, Width5m, Before(Lag5m)))
      BY <1>1, AggregationAdds DEF TablesTyped
    <3>. QED
      BY <1>1, <2>2, <3>1 DEF OneTo5m, TablesTyped
  <2>3. CASE FiveTo1h
    <3>1. IsTable(Aggregated(m5, h1, Width1h, Before(Lag1h)))
      BY <1>1, AggregationAdds DEF TablesTyped
    <3>. QED
      BY <1>1, <2>3, <3>1 DEF FiveTo1h, TablesTyped
  <2>. QED
    BY <2>1, <2>2, <2>3
<1>4. HistoryTyped'
  <2>1. CASE RawTo1m
    BY <1>1, <2>1 DEF RawTo1m, HistoryTyped
  <2>2. CASE OneTo5m
    <3>1. done.m1 \in 0..MaxTime /\ Before(Lag5m) \in 0..MaxTime
      BY <1>1 DEF HistoryTyped
    <3>2. Min({Before(Lag5m), done.m1}) \in 0..MaxTime
      BY <3>1, MinOfTwo
    <3>. QED
      BY <1>1, <2>2, <3>2 DEF OneTo5m, HistoryTyped
  <2>3. CASE FiveTo1h
    <3>1. done.m5 \in 0..MaxTime /\ Before(Lag1h) \in 0..MaxTime
      BY <1>1 DEF HistoryTyped
    <3>2. Min({Before(Lag1h), done.m5}) \in 0..MaxTime
      BY <3>1, MinOfTwo
    <3>. QED
      BY <1>1, <2>3, <3>2 DEF FiveTo1h, HistoryTyped
  <2>. QED
    BY <2>1, <2>2, <2>3
<1>. QED
  BY <1>1, <1>2, <1>3, <1>4 DEF PurgeTyped, SamplesTyped

\* Samples and purges.
LEMMA RowsTyped ==
    ASSUME StorageTyped,
           \/ \E s \in Sources, t \in 0..now : InsertRaw(s, t)
           \/ PurgeRaw \/ Purge1m \/ Purge5m
    PROVE  StorageTyped'
<1>. USE DownsampleAssumption DEF StorageTyped
<1>1. ASSUME NEW s \in Sources, NEW t \in 0..now, InsertRaw(s, t) PROVE StorageTyped'
  <2>. DEFINE x == [src |-> s, ts |-> t, n |-> 1]
  <2>1. x \in Row /\ x \notin sampled /\ x \notin BagToSet(raw) /\ x.n = 1 /\ x.ts <= now
    BY <1>1 DEF InsertRaw, Row, SamplesTyped
  <2>2. raw' = raw (+) SetToBag({x}) /\ sampled' = sampled \cup {x}
    BY <1>1 DEF InsertRaw
  <2>3. UNCHANGED <<now, m1, m5, h1, loop, purge, up, done, faults>>
    BY <1>1 DEF InsertRaw
  <2>. HIDE DEF x
  <2>4. /\ IsTable(raw') /\ BagToSet(raw') = BagToSet(raw) \cup {x}
        /\ \A r \in BagToSet(raw) : r # x => raw'[r] = raw[r]
        /\ raw'[x] = 1
    BY <2>1, <2>2, TableWithRow DEF TablesTyped
  <2>5. BagToSet(raw)' = BagToSet(raw')
    BY DEF BagToSet
  <2>6. SamplesTyped'
    <3>1. IsFiniteSet(sampled')
      BY <2>2, FS_AddElement DEF SamplesTyped
    <3>2. \A r \in BagToSet(raw') : raw'[r] = 1
      BY <2>1, <2>4 DEF SamplesTyped
    <3>. QED
      BY <2>1, <2>2, <2>3, <2>4, <2>5, <3>1, <3>2 DEF SamplesTyped
  <2>7. TablesTyped'
    BY <2>3, <2>4 DEF TablesTyped
  <2>. QED
    BY <2>3, <2>6, <2>7 DEF LoopTyped, PurgeTyped, HistoryTyped
<1>2. CASE PurgeRaw
  <2>1. /\ raw' \in Purged(raw, KeepRaw)
        /\ UNCHANGED <<now, m1, m5, h1, loop, up, sampled, done, faults>>
    BY <1>2 DEF PurgeRaw, history
  <2>2. /\ IsTable(raw') /\ BagToSet(raw') \subseteq BagToSet(raw)
        /\ \A r \in BagToSet(raw') : raw'[r] <= raw[r]
    BY <2>1, PurgeTakesOld DEF TablesTyped
  <2>3. SamplesTyped'
    <3>1. \A r \in BagToSet(raw') : raw'[r] = 1
      BY <2>2 DEF SamplesTyped, IsTable, IsABag, BagToSet
    <3>. QED
      BY <2>1, <2>2, <3>1 DEF SamplesTyped
  <2>4. PurgeTyped'
    BY <1>2 DEF PurgeRaw, PurgeTyped
  <2>. QED
    BY <2>1, <2>2, <2>3, <2>4 DEF TablesTyped, LoopTyped, HistoryTyped
<1>3. CASE Purge1m
  <2>1. /\ m1' \in Purged(m1, Keep1m)
        /\ UNCHANGED <<now, raw, m5, h1, loop, up, sampled, done, faults>>
    BY <1>3 DEF Purge1m, history
  <2>2. IsTable(m1')
    BY <2>1, PurgeTakesOld DEF TablesTyped
  <2>3. PurgeTyped'
    BY <1>3 DEF Purge1m, PurgeTyped
  <2>. QED
    BY <2>1, <2>2, <2>3 DEF TablesTyped, SamplesTyped, LoopTyped, HistoryTyped
<1>4. CASE Purge5m
  <2>1. /\ m5' \in Purged(m5, Keep5m)
        /\ UNCHANGED <<now, raw, m1, h1, loop, up, sampled, done, faults>>
    BY <1>4 DEF Purge5m, history
  <2>2. IsTable(m5')
    BY <2>1, PurgeTakesOld DEF TablesTyped
  <2>3. PurgeTyped'
    BY <1>4 DEF Purge5m, PurgeTyped
  <2>. QED
    BY <2>1, <2>2, <2>3 DEF TablesTyped, SamplesTyped, LoopTyped, HistoryTyped
<1>. QED
  BY <1>1, <1>2, <1>3, <1>4

\* Every step of the storage keeps its types.
LEMMA StorageStep == StorageTyped /\ [Next]_vars => StorageTyped'
<1>. SUFFICES ASSUME StorageTyped, [Next]_vars PROVE StorageTyped'
  OBVIOUS
<1>. USE DownsampleAssumption DEF StorageTyped
<1>1. CASE LoopFails \/ PurgeFails \/ Stop \/ Start
  <2>1. UNCHANGED <<now, tables, sampled, done>> /\ faults' \in 0..MaxFaults /\ up' \in BOOLEAN
    <3>1. faults \in 0..MaxFaults /\ MaxFaults \in Nat
      BY DEF HistoryTyped
    <3>2. \/ faults' = faults
          \/ faults < MaxFaults /\ faults' = faults + 1
      BY <1>1 DEF LoopFails, PurgeFails, Stop, Start, history
    <3>3. faults' \in 0..MaxFaults
      BY <3>1, <3>2
    <3>4. UNCHANGED <<now, tables, sampled, done>> /\ up' \in BOOLEAN
      BY <1>1 DEF LoopFails, PurgeFails, Stop, Start, history
    <3>. QED
      BY <3>3, <3>4
  <2>2. LoopTyped' /\ PurgeTyped'
    BY <1>1 DEF LoopFails, PurgeFails, Stop, Start, LoopTyped, PurgeTyped
  <2>. QED
    BY <2>1, <2>2 DEF tables, TablesTyped, SamplesTyped, HistoryTyped
<1>2. CASE Tick
  <2>1. UNCHANGED <<tables, loop, purge, up, sampled, done, faults>> /\ now' = now + 1 /\ now < MaxTime
    BY <1>2 DEF Tick, history
  <2>2. SamplesTyped'
    <3>1. \A x \in sampled : x.ts \in Nat /\ now \in Nat
      BY DEF SamplesTyped, Row
    <3>. QED
      BY <2>1, <3>1 DEF tables, SamplesTyped
  <2>. QED
    BY <2>1, <2>2 DEF tables, TablesTyped, LoopTyped, PurgeTyped, HistoryTyped
<1>3. CASE UNCHANGED vars
  BY <1>3 DEF vars, tables, history, TablesTyped, SamplesTyped, LoopTyped, PurgeTyped,
              HistoryTyped
<1>. QED
  BY <1>1, <1>2, <1>3, AggregationTyped, RowsTyped DEF Next

\* Every reachable state of the storage is well typed: bags of rows that stand for at
\* least one sample each, with the times and the statements of both loops.
THEOREM StorageIsTyped == Spec => []TypeOK
<1>1. StorageTyped => TypeOK
  BY DEF StorageTyped, LoopTyped, PurgeTyped, TablesTyped, SamplesTyped, HistoryTyped,
         IsTable, TypeOK
<1>. QED
  BY <1>1, StorageStart, StorageStep, PTL DEF Spec

-----------------------------------------------------------------------------
(* What is purged was aggregated.                                          *)

\* What n faults put off, each by one pause.
Delay(n, pause) == n * pause

Period == Pause1m + Pause5m + Pause1h

\* When the raw rows, and the 1m rows, are aggregated next if nothing fails.
RawDue == loop.wake + (CASE loop.next = "raw_to_1m" -> 0
                         [] loop.next = "1m_to_5m" -> Pause5m + Pause1h
                         [] loop.next = "5m_to_1h" -> Pause1h)
OneDue == loop.wake + (CASE loop.next = "raw_to_1m" -> Pause1m
                         [] loop.next = "1m_to_5m" -> 0
                         [] loop.next = "5m_to_1h" -> Pause1h + Pause1m)

\* The settings that keep the purge behind the aggregation: samples come before
\* their cutoff, rows are kept for longer than all the faults can put the next
\* aggregation off, and these end before the first purge after a start.
PurgeIsLate ==
    /\ \A s \in Sources : MaxLate[s] <= Lag1m
    /\ Lag1m + Pause1m <= Lag5m
    /\ Width1m + Lag1m + Period + Delay(MaxFaults, Pause1h) <= KeepRaw + 1
    /\ Width1m + Lag5m + Period + Delay(MaxFaults, Pause1m + Pause1h) <= Keep1m + 1
    /\ Delay(MaxFaults, Pause1m + Pause1h) < PurgeInterval + Pause1h

\* What is due is not passed over, and a stop is a fault.
ClocksRun ==
    /\ up => loop.wake >= now /\ purge.wake >= now
    /\ ~up => faults >= 1

DoneInOrder ==
    /\ done.m1 = 0 \/ done.m1 + Lag1m <= now
    /\ done.m5 <= done.m1
    /\ done.m5 = 0 \/ done.m5 + Lag5m <= now
    /\ loop.next = "1m_to_5m" => loop.wake <= done.m1 + Lag1m + Pause1m

\* In a round that no fault has ended, the next one is due a round later.
RoundOnTime ==
    /\ loop.next # "raw_to_1m" => RawDue <= done.m1 + Lag1m + Period
    /\ loop.next = "5m_to_1h" => OneDue <= done.m5 + Lag5m + Period

\* Rows became final a round and the faults ago, or are aggregated before the
\* next purge, whatever faults are left.
RawRecentlyDone ==
    \/ RawDue <= done.m1 + Lag1m + Period + Delay(faults, Pause1h)
    \/ RawDue + Delay(MaxFaults - faults, Pause1h) < purge.wake
OneRecentlyDone ==
    \/ OneDue <= done.m5 + Lag5m + Period + Delay(faults, Pause1m + Pause1h)
    \/ OneDue + Delay(MaxFaults - faults, Pause1m + Pause1h) < purge.wake
RecentlyDone == up => RawRecentlyDone /\ OneRecentlyDone

RowsBeforeDone == \A r \in BagToSet(m1) : r.ts < done.m1

PurgeInv ==
    /\ StorageTyped /\ ClocksRun /\ DoneInOrder /\ RoundOnTime /\ RecentlyDone
    /\ RowsBeforeDone
    /\ PurgedIsAggregated

\* One fault more puts off by one pause more; no fault puts off nothing.
LEMMA DelayAdds ==
    ASSUME NEW m \in Nat, NEW n \in 0..m, NEW pause \in Nat
    PROVE  /\ Delay(n, pause) \in Nat /\ Delay(m, pause) \in Nat
           /\ Delay(m - n, pause) \in Nat
           /\ Delay(n, pause) <= Delay(m, pause)
           /\ Delay(n + 1, pause) = Delay(n, pause) + pause
           /\ Delay(m - (n + 1), pause) + pause = Delay(m - n, pause)
           /\ n >= 1 => Delay(m - n, pause) + pause <= Delay(m, pause)
<1>1. /\ Delay(n, pause) \in Nat /\ Delay(m, pause) \in Nat
      /\ Delay(n + 1, pause) = Delay(n, pause) + pause
  BY DEF Delay
<1>2. m - n \in Nat /\ Delay(m - n, pause) \in Nat
  BY DEF Delay
<1>3. Delay(m, pause) = Delay(m - n, pause) + Delay(n, pause)
  BY DEF Delay
<1>4. Delay(m - (n + 1), pause) + pause = Delay(m - n, pause)
  BY DEF Delay
<1>5. n >= 1 => Delay(n, pause) >= pause
  BY DEF Delay
<1>. QED
  BY <1>1, <1>2, <1>3, <1>4, <1>5

\* The delays of one fault more.
LEMMA OneFaultMore ==
    ASSUME NEW m \in Nat, NEW n \in 0..m, n < m, NEW pause \in Nat
    PROVE  /\ Delay(n + 1, pause) = Delay(n, pause) + pause
           /\ Delay(m - (n + 1), pause) + pause = Delay(m - n, pause)
           /\ Delay(n, pause) \in Nat /\ Delay(m - n, pause) \in Nat
           /\ Delay(m - (n + 1), pause) \in Nat
<1>1. n + 1 \in 0..m
  OBVIOUS
<1>2. Delay(m - (n + 1), pause) \in Nat
  BY <1>1, DelayAdds
<1>3. /\ Delay(n + 1, pause) = Delay(n, pause) + pause
      /\ Delay(m - (n + 1), pause) + pause = Delay(m - n, pause)
      /\ Delay(n, pause) \in Nat /\ Delay(m - n, pause) \in Nat
  BY DelayAdds
<1>. QED
  BY <1>2, <1>3

\* The newest row is before every time that all rows are before, if there is one.
LEMMA NewestIsBefore ==
    ASSUME NEW t, IsTable(t), NEW b \in Nat, \A r \in BagToSet(t) : r.ts < b
    PROVE  Newest(t) \in Nat /\ (Newest(t) = 0 \/ Newest(t) < b)
<1>. DEFINE times == {0} \cup {r.ts : r \in BagToSet(t)}
<1>1. times \in SUBSET (0..MaxTime) /\ times # {} /\ MaxTime \in Nat
  BY DownsampleAssumption DEF IsTable, Row
<1>2. Newest(t) = Max(times)
  BY DEF Newest
<1>3. \A n \in times : n = 0 \/ n < b
  OBVIOUS
<1>. HIDE DEF times
<1>4. Max(times) \in times
  BY <1>1, GreatestExists
<1>5. times \subseteq Nat
  BY <1>1
<1>. QED
  BY <1>2, <1>3, <1>4, <1>5

\* The numbers these invariants speak of.
LEMMA TimesAreNumbers ==
    ASSUME StorageTyped
    PROVE  /\ now \in Nat /\ loop.wake \in Nat /\ purge.wake \in Nat
           /\ loop.next \in {"raw_to_1m", "1m_to_5m", "5m_to_1h"}
           /\ done.m1 \in Nat /\ done.m5 \in Nat
           /\ RawDue \in Nat /\ OneDue \in Nat
           /\ MaxFaults \in Nat /\ faults \in 0..MaxFaults
           /\ {Pause1m, Pause5m, Pause1h, Width1m, PurgeInterval} \subseteq Nat \ {0}
           /\ {Pause1m + Pause1h, Period, Lag1m, Lag5m, KeepRaw, Keep1m} \subseteq Nat
           /\ RawDue >= loop.wake /\ OneDue >= loop.wake
<1>1. /\ {Pause1m, Pause5m, Pause1h, Width1m, PurgeInterval} \subseteq Nat \ {0}
      /\ {Pause1m + Pause1h, Period, Lag1m, Lag5m, KeepRaw, Keep1m} \subseteq Nat
      /\ MaxFaults \in Nat /\ MaxTime \in Nat
  BY DownsampleAssumption DEF Period
<1>2. /\ now \in Nat /\ loop.wake \in Nat /\ purge.wake \in Nat
      /\ loop.next \in {"raw_to_1m", "1m_to_5m", "5m_to_1h"}
      /\ done.m1 \in Nat /\ done.m5 \in Nat /\ faults \in 0..MaxFaults
  BY <1>1 DEF StorageTyped, LoopTyped, PurgeTyped, HistoryTyped
<1>3. RawDue \in Nat /\ OneDue \in Nat /\ RawDue >= loop.wake /\ OneDue >= loop.wake
  BY <1>1, <1>2 DEF RawDue, OneDue
<1>. QED
  BY <1>1, <1>2, <1>3

\* While the rows' purge is due, what is old was final already.
LEMMA OldIsDone ==
    ASSUME PurgeInv, PurgeIsLate, up, purge.wake <= now
    PROVE  /\ \A t \in Nat : t + KeepRaw < now => t + Width1m <= done.m1
           /\ \A t \in Nat : t + Keep1m < now => t + Width1m <= done.m5
<1>1. StorageTyped /\ ClocksRun /\ RecentlyDone
  BY DEF PurgeInv
<1>2. loop.wake >= now
  BY <1>1 DEF ClocksRun
<1>. DEFINE d1 == Delay(MaxFaults, Pause1h)
            d5 == Delay(MaxFaults, Pause1m + Pause1h)
<1>3. /\ Delay(faults, Pause1h) <= d1 /\ Delay(MaxFaults - faults, Pause1h) \in Nat
      /\ Delay(faults, Pause1h) \in Nat /\ d1 \in Nat
  BY <1>1, TimesAreNumbers, DelayAdds
<1>4. /\ Delay(faults, Pause1m + Pause1h) <= d5
      /\ Delay(MaxFaults - faults, Pause1m + Pause1h) \in Nat
      /\ Delay(faults, Pause1m + Pause1h) \in Nat /\ d5 \in Nat
  BY <1>1, TimesAreNumbers, DelayAdds
<1>5. /\ Width1m + Lag1m + Period + d1 <= KeepRaw + 1
      /\ Width1m + Lag5m + Period + d5 <= Keep1m + 1
  BY DEF PurgeIsLate
<1>. HIDE DEF d1, d5
<1>6. RawDue <= done.m1 + Lag1m + Period + Delay(faults, Pause1h)
  BY <1>1, <1>2, <1>3, TimesAreNumbers DEF RecentlyDone, RawRecentlyDone
<1>7. OneDue <= done.m5 + Lag5m + Period + Delay(faults, Pause1m + Pause1h)
  BY <1>1, <1>2, <1>4, TimesAreNumbers DEF RecentlyDone, OneRecentlyDone
<1>8. now <= done.m1 + Lag1m + Period + d1 /\ now <= done.m5 + Lag5m + Period + d5
  BY <1>1, <1>2, <1>3, <1>4, <1>6, <1>7, TimesAreNumbers
<1>. QED
  BY <1>1, <1>3, <1>4, <1>5, <1>8, TimesAreNumbers

\* A sample that is not final yet is still in the raw table.
LEMMA NotDoneIsRaw ==
    ASSUME PurgeInv, NEW x \in sampled, x.ts >= done.m1
    PROVE  x \in BagToSet(raw)
<1>1. StorageTyped /\ PurgedIsAggregated /\ x.ts \in Nat
  BY DEF PurgeInv, StorageTyped, SamplesTyped, Row
<1>2. x \notin BagToSet(raw) => Bucket(x.ts, Width1m) + Width1m <= done.m1
  BY <1>1 DEF PurgedIsAggregated
<1>3. x.ts < Bucket(x.ts, Width1m) + Width1m /\ Bucket(x.ts, Width1m) \in Nat
  BY <1>1, InBucket, TimesAreNumbers
<1>. QED
  BY <1>1, <1>2, <1>3, TimesAreNumbers

\* An aggregation puts its next turn a round later, and its cutoff after the last.
LEMMA AggregationIsOnTime ==
    ASSUME PurgeInv, PurgeIsLate, RawTo1m \/ OneTo5m \/ FiveTo1h
    PROVE  /\ ClocksRun' /\ DoneInOrder' /\ RoundOnTime' /\ RecentlyDone'
           /\ done.m1 <= done'.m1 /\ done.m5 <= done'.m5
           /\ OneTo5m => now <= done'.m5 + Lag5m
<1>. DEFINE a == Delay(faults, Pause1h)
            b == Delay(faults, Pause1m + Pause1h)
<1>1. StorageTyped /\ ClocksRun /\ DoneInOrder /\ RoundOnTime /\ RecentlyDone
  BY DEF PurgeInv
<1>2. /\ up /\ loop.wake = now /\ purge.wake >= now
      /\ UNCHANGED <<now, up, purge>> /\ (FiveTo1h \/ faults' = faults)
  BY <1>1, TimesAreNumbers DEF ClocksRun, Due, RawTo1m, OneTo5m, FiveTo1h
<1>3. a \in Nat /\ b \in Nat
  BY <1>1, TimesAreNumbers, DelayAdds
<1>4. /\ RawRecentlyDone /\ OneRecentlyDone
      /\ done \in [{"m1", "m5", "h1"} -> 0..MaxTime]
  BY <1>1, <1>2 DEF RecentlyDone, StorageTyped, HistoryTyped
<1>5. \A lag \in {Lag1m, Lag5m} : /\ Before(lag) \in Nat /\ now <= Before(lag) + lag
                                  /\ Before(lag) = 0 \/ Before(lag) + lag = now
  BY <1>1, TimesAreNumbers, BeforeIsPast DEF StorageTyped
<1>6. Lag1m + Pause1m <= Lag5m
  BY DEF PurgeIsLate
<1>. HIDE DEF a, b
<1>7. CASE RawTo1m
  <2>1. /\ done'.m1 = Before(Lag1m) /\ done'.m5 = done.m5
        /\ loop.next = "raw_to_1m" /\ loop' = [next |-> "1m_to_5m", wake |-> now + Pause1m]
    BY <1>4, <1>7 DEF RawTo1m, Due
  <2>2. done.m1 <= done'.m1 /\ DoneInOrder'
    BY <1>1, <1>2, <1>5, <1>6, <2>1, TimesAreNumbers DEF DoneInOrder
  <2>3. ClocksRun'
    BY <1>1, <1>2, <2>1, TimesAreNumbers DEF ClocksRun
  <2>4. /\ RawDue' = now + Pause1m + Pause5m + Pause1h
        /\ OneDue = now + Pause1m /\ OneDue' = now + Pause1m
    BY <1>1, <1>2, <2>1, TimesAreNumbers DEF RawDue, OneDue
  <2>0. faults' = faults
    BY <1>7 DEF RawTo1m
  <2>5. /\ RawDue' <= done'.m1 + Lag1m + Period + a
        /\ RawDue' <= done'.m1 + Lag1m + Period
    BY <1>1, <1>3, <1>5, <2>1, <2>4, TimesAreNumbers DEF Period
  <2>6. RawRecentlyDone' /\ RoundOnTime'
    BY <2>0, <2>1, <2>5 DEF RawRecentlyDone, RoundOnTime, a, Period
  <2>7. OneRecentlyDone'
    BY <1>2, <1>4, <2>0, <2>1, <2>4 DEF OneRecentlyDone, Period
  <2>. QED
    BY <1>1, <1>7, <2>1, <2>2, <2>3, <2>6, <2>7, TimesAreNumbers DEF RecentlyDone, RawTo1m, OneTo5m, Due
<1>8. CASE OneTo5m
  <2>1. /\ done'.m5 = Min({Before(Lag5m), done.m1}) /\ done'.m1 = done.m1
        /\ loop.next = "1m_to_5m" /\ loop' = [next |-> "5m_to_1h", wake |-> now + Pause5m]
    BY <1>4, <1>8 DEF OneTo5m, Due
  <2>2. done'.m5 = IF Before(Lag5m) <= done.m1 THEN Before(Lag5m) ELSE done.m1
    BY <1>1, <1>5, <2>1, MinOfTwo, TimesAreNumbers
  <2>3. now <= done'.m5 + Lag5m
    BY <1>1, <1>2, <1>5, <1>6, <2>1, <2>2, TimesAreNumbers DEF DoneInOrder
  <2>4. done.m5 <= done'.m5 /\ DoneInOrder'
    BY <1>1, <1>2, <1>5, <1>6, <2>1, <2>2, TimesAreNumbers DEF DoneInOrder
  <2>5. ClocksRun'
    BY <1>1, <1>2, <2>1, TimesAreNumbers DEF ClocksRun
  <2>6. /\ RawDue = now + Pause5m + Pause1h /\ RawDue' = now + Pause5m + Pause1h
        /\ OneDue' = now + Pause5m + Pause1h + Pause1m
    BY <1>1, <1>2, <2>1, TimesAreNumbers DEF RawDue, OneDue
  <2>0. faults' = faults
    BY <1>8 DEF OneTo5m
  <2>7. OneDue' <= done'.m5 + Lag5m + Period + b /\ OneDue' <= done'.m5 + Lag5m + Period
    <3>1. done'.m5 \in Nat
      BY <1>1, <1>5, <2>2, TimesAreNumbers
    <3>. QED
      BY <1>1, <1>3, <2>3, <2>6, <3>1, TimesAreNumbers DEF Period
  <2>8. OneRecentlyDone'
    BY <2>0, <2>7 DEF OneRecentlyDone, b, Period
  <2>9. RawRecentlyDone' /\ RoundOnTime'
    BY <1>1, <1>2, <1>4, <2>0, <2>1, <2>6, <2>7 DEF RawRecentlyDone, RoundOnTime, Period
  <2>. QED
    BY <1>1, <2>1, <2>3, <2>4, <2>5, <2>8, <2>9, TimesAreNumbers DEF RecentlyDone
<1>9. CASE FiveTo1h
  <2>1. /\ done'.m1 = done.m1 /\ done'.m5 = done.m5
        /\ loop.next = "5m_to_1h" /\ loop' = [next |-> "raw_to_1m", wake |-> now + Pause1h]
    BY <1>4, <1>9 DEF FiveTo1h, Due
  <2>2. DoneInOrder' /\ ClocksRun'
    BY <1>1, <1>2, <2>1, TimesAreNumbers DEF DoneInOrder, ClocksRun
  <2>3. RawDue' = RawDue /\ OneDue' = OneDue
    BY <1>1, <1>2, <2>1, TimesAreNumbers DEF RawDue, OneDue
  <2>4. RawRecentlyDone' /\ OneRecentlyDone' /\ RoundOnTime'
    <3>1. RawDue <= done.m1 + Lag1m + Period /\ OneDue <= done.m5 + Lag5m + Period
      BY <1>1, <2>1 DEF RoundOnTime
    <3>2. faults' = 0
      BY <1>9 DEF FiveTo1h
    <3>3. Delay(0, Pause1h) = 0 /\ Delay(0, Pause1m + Pause1h) = 0
      BY <1>1, TimesAreNumbers DEF Delay
    <3>4. /\ RawDue <= done.m1 + Lag1m + Period + Delay(0, Pause1h)
          /\ OneDue <= done.m5 + Lag5m + Period + Delay(0, Pause1m + Pause1h)
      BY <1>1, <3>1, <3>3, TimesAreNumbers
    <3>. QED
      BY <2>1, <2>3, <3>2, <3>4 DEF RawRecentlyDone, OneRecentlyDone, RoundOnTime, Period
  <2>. QED
    BY <1>1, <2>1, <2>2, <2>4, TimesAreNumbers DEF RecentlyDone, OneTo5m, Due
<1>. QED
  BY <1>7, <1>8, <1>9

\* Nothing else moves a cutoff; a fault puts the aggregation off by one pause, and
\* a start comes long before the first purge.
LEMMA OthersAreOnTime ==
    ASSUME PurgeInv, PurgeIsLate, [Next]_vars, ~(RawTo1m \/ OneTo5m \/ FiveTo1h)
    PROVE  /\ ClocksRun' /\ DoneInOrder' /\ RoundOnTime' /\ RecentlyDone'
           /\ done' = done
<1>1. StorageTyped /\ ClocksRun /\ DoneInOrder /\ RoundOnTime /\ RecentlyDone
  BY DEF PurgeInv
<1>. USE TimesAreNumbers
<1>2. done' = done
  BY DEF Next, InsertRaw, LoopFails, PurgeRaw, Purge1m, Purge5m, PurgeFails, Stop, Start,
         Tick, vars, history
<1>0. RoundOnTime'
  <2>1. loop' = loop \/ loop'.next = "raw_to_1m"
    <3>1. CASE LoopFails
      BY <3>1 DEF LoopFails
    <3>2. CASE Start
      BY <3>2 DEF Start
    <3>3. CASE ~(LoopFails \/ Start)
      BY <3>3 DEF Next, InsertRaw, PurgeRaw, Purge1m, Purge5m, PurgeFails, Stop, Tick, vars
    <3>. QED
      BY <3>1, <3>2, <3>3
  <2>. QED
    BY <1>1, <1>2, <2>1 DEF RoundOnTime, RawDue, OneDue, Period
<1>3. ASSUME UNCHANGED <<now, loop, up, faults>>, purge'.wake \in Nat,
             up => purge.wake <= purge'.wake
      PROVE  ClocksRun' /\ DoneInOrder' /\ RecentlyDone'
  <2>1. ClocksRun' /\ DoneInOrder'
    BY <1>1, <1>2, <1>3 DEF ClocksRun, DoneInOrder
  <2>2. RawDue' = RawDue /\ OneDue' = OneDue
    BY <1>3 DEF RawDue, OneDue
  <2>3. /\ Delay(MaxFaults - faults, Pause1h) \in Nat
        /\ Delay(MaxFaults - faults, Pause1m + Pause1h) \in Nat
    BY <1>1, DelayAdds
  <2>4. RecentlyDone'
    BY <1>1, <1>2, <1>3, <2>2, <2>3 DEF RecentlyDone, RawRecentlyDone, OneRecentlyDone, Period
  <2>. QED
    BY <2>1, <2>4
<1>4. CASE \E s \in Sources, t \in 0..now : InsertRaw(s, t)
  <2>1. UNCHANGED <<now, loop, up, faults, purge>>
    BY <1>4 DEF InsertRaw
  <2>. QED
    BY <1>0, <1>1, <1>2, <1>3, <2>1
<1>5. CASE PurgeRaw \/ Purge1m \/ Purge5m
  <2>1. /\ UNCHANGED <<now, loop, up, faults>>
        /\ purge'.wake = purge.wake \/ purge'.wake = now + PurgeInterval
        /\ purge.wake <= now
    BY <1>1, <1>5 DEF PurgeRaw, Purge1m, Purge5m, history, PurgeDue, StorageTyped, PurgeTyped
  <2>2. purge'.wake \in Nat /\ purge.wake <= purge'.wake
    BY <1>1, <2>1
  <2>. QED
    BY <1>0, <1>2, <1>3, <2>1, <2>2
<1>6. CASE LoopFails
  <2>1. /\ UNCHANGED <<now, up, purge>> /\ up /\ loop.wake <= now /\ faults < MaxFaults
        /\ faults' = faults + 1 /\ loop' = [next |-> "raw_to_1m", wake |-> now + Pause1h]
    BY <1>6 DEF LoopFails, Due
  <2>2. /\ RawDue' = now + Pause1h /\ OneDue' = now + Pause1h + Pause1m
        /\ RawDue >= now /\ OneDue >= now
    BY <1>1, <2>1 DEF RawDue, OneDue, ClocksRun
  <2>3. ClocksRun' /\ DoneInOrder'
    BY <1>1, <1>2, <2>1 DEF ClocksRun, DoneInOrder
  <2>. DEFINE p == Pause1m + Pause1h
  <2>4. ASSUME NEW d \in {Pause1h, p}
        PROVE  /\ Delay(faults', d) = Delay(faults, d) + d
               /\ Delay(MaxFaults - faults', d) + d = Delay(MaxFaults - faults, d)
               /\ Delay(faults, d) \in Nat /\ Delay(MaxFaults - faults, d) \in Nat
               /\ Delay(MaxFaults - faults', d) \in Nat
    <3>0. d \in Nat
      BY <1>1
    <3>1. MaxFaults \in Nat /\ faults \in 0..MaxFaults /\ faults < MaxFaults /\ faults' = faults + 1
      BY <1>1, <2>1
    <3>2. /\ Delay(faults + 1, d) = Delay(faults, d) + d
          /\ Delay(MaxFaults - (faults + 1), d) + d = Delay(MaxFaults - faults, d)
          /\ Delay(faults, d) \in Nat /\ Delay(MaxFaults - faults, d) \in Nat
          /\ Delay(MaxFaults - (faults + 1), d) \in Nat
      BY <2>4, <3>0, <3>1, OneFaultMore
    <3>. QED
      BY <3>1, <3>2
  <2>. HIDE DEF p
  <2>5. RawRecentlyDone'
    <3>1. \/ RawDue' <= done.m1 + Lag1m + Period + Delay(faults', Pause1h)
          \/ RawDue' + Delay(MaxFaults - faults', Pause1h) < purge.wake
      BY <1>1, <2>1, <2>2, <2>4 DEF RecentlyDone, RawRecentlyDone
    <3>. QED
      BY <1>2, <2>1, <3>1 DEF RawRecentlyDone, Period
  <2>6. OneRecentlyDone'
    <3>1. \/ OneDue' <= done.m5 + Lag5m + Period + Delay(faults', p)
          \/ OneDue' + Delay(MaxFaults - faults', p) < purge.wake
      <4>1. \/ OneDue <= done.m5 + Lag5m + Period + Delay(faults, p)
            \/ OneDue + Delay(MaxFaults - faults, p) < purge.wake
        BY <1>1, <2>1 DEF RecentlyDone, OneRecentlyDone, p
      <4>2. OneDue' <= OneDue + p /\ p \in Nat
        BY <1>1, <2>2 DEF p
      <4>3. OneDue' \in Nat
        BY <1>1, <2>2
      <4>. QED
        BY <1>1, <2>4, <4>1, <4>2, <4>3
    <3>. QED
      BY <1>2, <2>1, <3>1 DEF OneRecentlyDone, Period, p
  <2>. QED
    BY <1>0, <1>2, <2>3, <2>5, <2>6 DEF RecentlyDone
<1>7. CASE PurgeFails
  <2>1. /\ UNCHANGED <<now, loop, up>> /\ up /\ purge.wake <= now /\ faults < MaxFaults
        /\ faults' = faults + 1 /\ purge'.wake = now + PurgeInterval
    BY <1>7 DEF PurgeFails, PurgeDue
  <2>2. RawDue' = RawDue /\ OneDue' = OneDue
    BY <2>1 DEF RawDue, OneDue
  <2>3. ClocksRun' /\ DoneInOrder'
    BY <1>1, <1>2, <2>1 DEF ClocksRun, DoneInOrder
  <2>4. ASSUME NEW p \in Nat
        PROVE  /\ Delay(faults', p) = Delay(faults, p) + p
               /\ Delay(MaxFaults - faults', p) + p = Delay(MaxFaults - faults, p)
               /\ Delay(faults, p) \in Nat /\ Delay(MaxFaults - faults, p) \in Nat
               /\ Delay(MaxFaults - faults', p) \in Nat
    <3>1. MaxFaults \in Nat /\ faults \in 0..MaxFaults /\ faults < MaxFaults /\ faults' = faults + 1
      BY <1>1, <2>1
    <3>2. /\ Delay(faults + 1, p) = Delay(faults, p) + p
          /\ Delay(MaxFaults - (faults + 1), p) + p = Delay(MaxFaults - faults, p)
          /\ Delay(faults, p) \in Nat /\ Delay(MaxFaults - faults, p) \in Nat
          /\ Delay(MaxFaults - (faults + 1), p) \in Nat
      BY <2>4, <3>1, OneFaultMore
    <3>. QED
      BY <3>1, <3>2
  <2>5. RawRecentlyDone'
    <3>1. \/ RawDue <= done.m1 + Lag1m + Period + Delay(faults', Pause1h)
          \/ RawDue + Delay(MaxFaults - faults', Pause1h) < purge'.wake
      BY <1>1, <2>1, <2>4 DEF RecentlyDone, RawRecentlyDone
    <3>. QED
      BY <1>2, <2>2, <3>1 DEF RawRecentlyDone, Period
  <2>6. OneRecentlyDone'
    <3>1. \/ OneDue <= done.m5 + Lag5m + Period + Delay(faults', Pause1m + Pause1h)
          \/ OneDue + Delay(MaxFaults - faults', Pause1m + Pause1h) < purge'.wake
      BY <1>1, <2>1, <2>4 DEF RecentlyDone, OneRecentlyDone
    <3>. QED
      BY <1>2, <2>2, <3>1 DEF OneRecentlyDone, Period
  <2>. QED
    BY <1>0, <1>2, <2>3, <2>5, <2>6 DEF RecentlyDone
<1>8. CASE Stop
  <2>1. ~up' /\ faults' = faults + 1 /\ UNCHANGED <<now, loop>>
    BY <1>8 DEF Stop
  <2>. QED
    BY <1>0, <1>1, <1>2, <2>1 DEF ClocksRun, DoneInOrder, RecentlyDone
<1>9. CASE Start
  <2>1. /\ ~up /\ UNCHANGED <<now, faults>> /\ loop' = [next |-> "raw_to_1m", wake |-> now]
        /\ purge'.wake = now + PurgeInterval
    BY <1>9 DEF Start, history
  <2>2. ClocksRun' /\ DoneInOrder'
    BY <1>1, <1>2, <2>1 DEF ClocksRun, DoneInOrder
  <2>3. RawDue' = now /\ OneDue' = now + Pause1m
    BY <1>1, <2>1 DEF RawDue, OneDue
  <2>4. faults >= 1
    BY <1>1, <2>1 DEF ClocksRun
  <2>5. ASSUME NEW p \in Nat
        PROVE  Delay(MaxFaults - faults, p) + p <= Delay(MaxFaults, p)
               /\ Delay(MaxFaults - faults, p) \in Nat /\ Delay(MaxFaults, p) \in Nat
    BY <1>1, <2>4, DelayAdds
  <2>6. Delay(MaxFaults - faults, Pause1m + Pause1h) + Pause1m < PurgeInterval
    BY <1>1, <2>5 DEF PurgeIsLate
  <2>7. Delay(MaxFaults - faults, Pause1h) <= Delay(MaxFaults - faults, Pause1m + Pause1h)
    BY <1>1 DEF Delay
  <2>8. RawRecentlyDone'
    <3>1. now + Delay(MaxFaults - faults, Pause1h) < now + PurgeInterval
      BY <1>1, <2>5, <2>6, <2>7
    <3>. QED
      BY <2>1, <2>3, <3>1 DEF RawRecentlyDone
  <2>9. OneRecentlyDone'
    <3>1. now + Pause1m + Delay(MaxFaults - faults, Pause1m + Pause1h) < now + PurgeInterval
      BY <1>1, <2>5, <2>6
    <3>. QED
      BY <2>1, <2>3, <3>1 DEF OneRecentlyDone
  <2>. QED
    BY <1>0, <1>2, <2>2, <2>8, <2>9 DEF RecentlyDone
<1>10. CASE Tick
  <2>1. /\ UNCHANGED <<loop, up, faults, purge>> /\ now' = now + 1
        /\ up => loop.wake > now /\ purge.wake > now
    BY <1>10 DEF Tick, history
  <2>2. ClocksRun' /\ DoneInOrder'
    BY <1>1, <1>2, <2>1 DEF ClocksRun, DoneInOrder
  <2>3. RawDue' = RawDue /\ OneDue' = OneDue
    BY <2>1 DEF RawDue, OneDue
  <2>4. RecentlyDone'
    BY <1>1, <1>2, <2>1, <2>3 DEF RecentlyDone, RawRecentlyDone, OneRecentlyDone, Period
  <2>. QED
    BY <1>0, <1>2, <2>2, <2>4
<1>11. CASE UNCHANGED vars
  <2>1. UNCHANGED <<now, loop, up, faults, purge>>
    BY <1>11 DEF vars, history
  <2>. QED
    BY <1>0, <1>1, <1>2, <1>3, <2>1
<1>. QED
  BY <1>2, <1>4, <1>5, <1>6, <1>7, <1>8, <1>9, <1>10, <1>11 DEF Next

\* Who touches the 1m rows: an aggregation adds the buckets of what it read, all of
\* them before its cutoff, and a purge takes rows away.
LEMMA RowsStayBeforeDone ==
    ASSUME PurgeInv, [Next]_vars, done.m1 <= done'.m1
    PROVE  RowsBeforeDone'
<1>1. StorageTyped /\ RowsBeforeDone
  BY DEF PurgeInv
<1>2. IsTable(raw) /\ IsTable(m1)
  BY <1>1 DEF StorageTyped, TablesTyped
<1>3. done'.m1 \in Nat /\ done.m1 \in Nat
  <2>1. StorageTyped'
    BY <1>1, StorageStep
  <2>. QED
    BY <1>1, <2>1, DownsampleAssumption DEF StorageTyped, HistoryTyped
<1>4. ASSUME BagToSet(m1') \subseteq BagToSet(m1) PROVE RowsBeforeDone'
  <2>1. ASSUME NEW r \in BagToSet(m1') PROVE r.ts < done'.m1
    <3>1. r \in BagToSet(m1) /\ r.ts \in Nat
      BY <1>2, <1>4, <2>1 DEF IsTable, Row
    <3>. QED
      BY <1>1, <1>3, <3>1 DEF RowsBeforeDone
  <2>. QED
    BY <2>1 DEF RowsBeforeDone, BagToSet
<1>5. CASE RawTo1m
  <2>. DEFINE rows == Selected(raw, m1, Width1m, Before(Lag1m))
              added == Grouped(raw, rows, Width1m)
  <2>1. /\ done'.m1 = Before(Lag1m)
        /\ m1' = Aggregated(raw, m1, Width1m, Before(Lag1m))
    BY <1>1, <1>5 DEF RawTo1m, StorageTyped, HistoryTyped
  <2>2. Before(Lag1m) \in Nat
    BY <1>3, <2>1
  <2>3. BagToSet(m1') = BagToSet(m1) \cup added
    <3>1. Width1m \in Nat \ {0}
      BY <1>1, TimesAreNumbers
    <3>. QED
      BY <1>2, <2>1, <2>2, <3>1, AggregationAdds
  <2>4. ASSUME NEW r \in added PROVE r.ts < done'.m1
    <3>1. PICK q \in rows : r.ts = Bucket(q.ts, Width1m)
      BY DEF Grouped
    <3>2. q.ts \in Nat /\ q.ts < Before(Lag1m)
      BY <1>2 DEF IsTable, Selected, Row
    <3>3. Bucket(q.ts, Width1m) \in Nat /\ Bucket(q.ts, Width1m) <= q.ts
      BY <1>1, <3>2, InBucket, TimesAreNumbers
    <3>. QED
      BY <1>3, <2>1, <3>1, <3>2, <3>3
  <2>. HIDE DEF added
  <2>5. ASSUME NEW r \in BagToSet(m1') PROVE r.ts < done'.m1
    <3>1. CASE r \in added
      BY <2>4, <3>1
    <3>2. CASE r \in BagToSet(m1)
      <4>1. r.ts \in Nat
        BY <1>2, <3>2 DEF IsTable, Row
      <4>. QED
        BY <1>1, <1>3, <3>2, <4>1 DEF RowsBeforeDone
    <3>. QED
      BY <2>3, <2>5, <3>1, <3>2
  <2>. QED
    BY <2>5 DEF RowsBeforeDone, BagToSet
<1>6. CASE Purge1m
  <2>1. m1' \in Purged(m1, Keep1m)
    BY <1>6 DEF Purge1m
  <2>2. BagToSet(m1') \subseteq BagToSet(m1)
    BY <1>1, <1>2, <2>1, PurgeTakesOld, TimesAreNumbers
  <2>. QED
    BY <1>4, <2>2
<1>7. CASE ~(RawTo1m \/ Purge1m)
  <2>1. m1' = m1
    BY <1>7 DEF Next, InsertRaw, OneTo5m, FiveTo1h, LoopFails, PurgeRaw, Purge5m,
           PurgeFails, Stop, Start, Tick, vars, tables
  <2>. QED
    BY <1>4, <2>1
<1>. QED
  BY <1>5, <1>6, <1>7

\* A raw row goes when it is final; a sample comes before its cutoff.
LEMMA RawStaysUntilDone ==
    ASSUME PurgeInv, PurgeIsLate, [Next]_vars, done.m1 <= done'.m1,
           NEW x \in sampled', x \notin BagToSet(raw')
    PROVE  Bucket(x.ts, Width1m) + Width1m <= done'.m1
<1>1. StorageTyped /\ PurgedIsAggregated /\ StorageTyped'
  BY StorageStep DEF PurgeInv
<1>2. /\ IsTable(raw) /\ x.ts \in Nat
      /\ done.m1 \in Nat /\ done'.m1 \in Nat
      /\ Width1m \in Nat \ {0} /\ KeepRaw \in Nat
  BY <1>1, DownsampleAssumption
     DEF StorageTyped, TablesTyped, HistoryTyped, SamplesTyped, Row
<1>3. Bucket(x.ts, Width1m) \in Nat /\ Bucket(x.ts, Width1m) <= x.ts
  BY <1>2, InBucket
<1>4. ASSUME x \in sampled, x \notin BagToSet(raw)
      PROVE  Bucket(x.ts, Width1m) + Width1m <= done'.m1
  <2>1. Bucket(x.ts, Width1m) + Width1m <= done.m1
    BY <1>1, <1>4 DEF PurgedIsAggregated
  <2>. QED
    BY <1>2, <1>3, <2>1
<1>5. CASE \E s \in Sources, t \in 0..now : InsertRaw(s, t)
  <2>1. PICK s \in Sources, t \in 0..now : InsertRaw(s, t)
    BY <1>5
  <2>. DEFINE y == [src |-> s, ts |-> t, n |-> 1]
  <2>2. raw' = raw (+) SetToBag({y}) /\ sampled' = sampled \cup {y}
    BY <2>1 DEF InsertRaw
  <2>3. y \in Row
    BY <1>1, <2>1, <2>2 DEF StorageTyped, SamplesTyped
  <2>. HIDE DEF y
  <2>4. BagToSet(raw') = BagToSet(raw) \cup {y}
    BY <1>2, <2>2, <2>3, TableWithRow
  <2>. QED
    BY <1>4, <2>2, <2>4
<1>6. CASE PurgeRaw
  <2>1. raw' \in Purged(raw, KeepRaw) /\ sampled' = sampled /\ up /\ purge.wake <= now /\ done' = done
    BY <1>6 DEF PurgeRaw, PurgeDue, history
  <2>2. CASE x \in BagToSet(raw)
    <3>1. x.ts + KeepRaw < now
      BY <1>2, <2>1, <2>2, PurgeTakesOld
    <3>2. x.ts + Width1m <= done.m1
      BY <1>2, <2>1, <3>1, OldIsDone
    <3>. QED
      BY <1>2, <1>3, <2>1, <3>2
  <2>. QED
    BY <1>4, <2>1, <2>2
<1>7. CASE ~(PurgeRaw \/ \E s \in Sources, t \in 0..now : InsertRaw(s, t))
  <2>1. raw' = raw /\ sampled' = sampled
    BY <1>7 DEF Next, RawTo1m, OneTo5m, FiveTo1h, LoopFails, Purge1m, Purge5m,
           PurgeFails, Stop, Start, Tick, vars, tables, history
  <2>. QED
    BY <1>4, <2>1
<1>. QED
  BY <1>5, <1>6, <1>7

\* A sample that is final in the 1m table has a row there until it is final in the
\* 5m table: an aggregation reads all that became final, since no row of the 1m
\* table is newer, and a purge takes the row when the 5m table has it.
LEMMA OneStaysUntilDone ==
    ASSUME PurgeInv, PurgeIsLate, [Next]_vars,
           done.m1 <= done'.m1, done.m5 <= done'.m5,
           NEW x \in sampled', x.ts < done'.m1, RowsOf(m1, x, Width1m)' = {}
    PROVE  x.ts < done'.m5
<1>1. /\ StorageTyped /\ PurgedIsAggregated /\ StorageTyped'
      /\ DoneInOrder /\ RowsBeforeDone
  BY StorageStep DEF PurgeInv
<1>2. /\ IsTable(raw) /\ IsTable(m1) /\ x.ts \in Nat
      /\ done.m1 \in Nat /\ done'.m1 \in Nat /\ done.m5 \in Nat /\ done'.m5 \in Nat
      /\ Width1m \in Nat \ {0} /\ Keep1m \in Nat /\ Lag1m \in Nat
      /\ now \in Nat
  BY <1>1, DownsampleAssumption, TimesAreNumbers
     DEF StorageTyped, TablesTyped, HistoryTyped, SamplesTyped, Row
<1>3. /\ Bucket(x.ts, Width1m) \in Nat /\ Bucket(x.ts, Width1m) <= x.ts
      /\ x.ts < Bucket(x.ts, Width1m) + Width1m
  BY <1>2, InBucket
<1>4. \A r \in BagToSet(m1') : ~(r.src = x.src /\ r.ts = Bucket(x.ts, Width1m))
  BY DEF RowsOf, BagToSet, Bucket
<1>5. ASSUME x \in sampled, x.ts < done.m1, RowsOf(m1, x, Width1m) = {}
      PROVE  x.ts < done'.m5
  <2>1. x.ts < done.m5
    BY <1>1, <1>5 DEF PurgedIsAggregated
  <2>. QED
    BY <1>2, <2>1
<1>6. ASSUME BagToSet(m1) \subseteq BagToSet(m1') PROVE RowsOf(m1, x, Width1m) = {}
  BY <1>4, <1>6 DEF RowsOf
<1>7. CASE \E s \in Sources, t \in 0..now : InsertRaw(s, t)
  <2>1. PICK s \in Sources, t \in 0..now : InsertRaw(s, t)
    BY <1>7
  <2>. DEFINE y == [src |-> s, ts |-> t, n |-> 1]
  <2>2. /\ sampled' = sampled \cup {y} /\ done' = done /\ m1' = m1
        /\ now <= t + MaxLate[s] /\ y.ts = t
    BY <2>1 DEF InsertRaw
  <2>3. MaxLate[s] <= Lag1m /\ MaxLate[s] \in Nat
    BY DownsampleAssumption DEF PurgeIsLate
  <2>4. done.m1 <= t
    BY <1>1, <1>2, <2>2, <2>3 DEF DoneInOrder
  <2>5. x # y
    BY <1>2, <2>2, <2>4
  <2>. HIDE DEF y
  <2>. QED
    BY <1>5, <1>6, <2>2, <2>5
<1>8. CASE RawTo1m
  <2>. DEFINE rows == Selected(raw, m1, Width1m, Before(Lag1m))
              added == Grouped(raw, rows, Width1m)
  <2>1. /\ done'.m1 = Before(Lag1m) /\ sampled' = sampled
        /\ m1' = Aggregated(raw, m1, Width1m, Before(Lag1m))
    BY <1>1, <1>8 DEF RawTo1m, StorageTyped, HistoryTyped
  <2>2. BagToSet(m1') = BagToSet(m1) \cup added
    <3>1. Before(Lag1m) \in Nat
      BY <1>2, <2>1
    <3>2. IsTable(raw) /\ IsTable(m1) /\ Width1m \in Nat \ {0}
      BY <1>2
    <3>3. m1' = Aggregated(raw, m1, Width1m, Before(Lag1m))
      BY <2>1
    <3>. QED
      BY <3>1, <3>2, <3>3, AggregationAdds
  <2>3. CASE x.ts < done.m1
    <3>1. RowsOf(m1, x, Width1m) = {}
      <4>. HIDE DEF added
      <4>. QED
        BY <1>6, <2>2
    <3>. QED
      BY <1>5, <2>1, <2>3, <3>1
  <2>4. CASE x.ts >= done.m1
    <3>1. x \in BagToSet(raw)
      BY <2>1, <2>4, NotDoneIsRaw
    <3>2. Newest(m1) \in Nat /\ (Newest(m1) = 0 \/ Newest(m1) < done.m1)
      BY <1>1, <1>2, NewestIsBefore DEF RowsBeforeDone
    <3>3. x \in rows
      BY <1>2, <2>1, <2>4, <3>1, <3>2 DEF Selected
    <3>. HIDE DEF rows
    <3>4. \E r \in added : r.src = x.src /\ r.ts = Bucket(x.ts, Width1m)
      <4>. DEFINE own == [src |-> x.src, ts |-> Bucket(x.ts, Width1m),
                          n |-> SamplesOf(raw, GroupOf(rows, x, Width1m))]
      <4>1. own \in added
        BY <3>3 DEF Grouped
      <4>2. own.src = x.src /\ own.ts = Bucket(x.ts, Width1m)
        OBVIOUS
      <4>. QED
        BY <4>1, <4>2
    <3>. HIDE DEF added
    <3>. QED
      BY <1>4, <2>2, <3>4
  <2>. QED
    BY <1>2, <2>3, <2>4
<1>9. CASE Purge1m
  <2>1. /\ m1' \in Purged(m1, Keep1m) /\ sampled' = sampled /\ done' = done
        /\ up /\ purge.wake <= now
    BY <1>9 DEF Purge1m, PurgeDue, history
  <2>2. CASE RowsOf(m1, x, Width1m) = {}
    BY <1>5, <2>1, <2>2
  <2>3. CASE RowsOf(m1, x, Width1m) # {}
    <3>1. PICK r \in BagToSet(m1) : r.ts = Bucket(x.ts, Width1m) /\ r \notin BagToSet(m1')
      BY <1>4, <2>3 DEF RowsOf
    <3>2. r.ts + Keep1m < now
      BY <1>2, <2>1, <3>1, PurgeTakesOld
    <3>3. r.ts + Width1m <= done.m5
      BY <1>2, <1>3, <2>1, <3>1, <3>2, OldIsDone
    <3>. QED
      BY <1>2, <1>3, <2>1, <3>1, <3>3
  <2>. QED
    BY <2>2, <2>3
<1>10. CASE ~(RawTo1m \/ Purge1m \/ \E s \in Sources, t \in 0..now : InsertRaw(s, t))
  <2>1. m1' = m1 /\ sampled' = sampled /\ done'.m1 = done.m1
    BY <1>1, <1>10 DEF Next, OneTo5m, FiveTo1h, LoopFails, PurgeRaw, Purge5m,
           PurgeFails, Stop, Start, Tick, vars, tables, history, StorageTyped, HistoryTyped
  <2>. QED
    BY <1>5, <1>6, <2>1
<1>. QED
  BY <1>7, <1>8, <1>9, <1>10

\* Every step keeps the purge behind the aggregation.
LEMMA PurgeInvStep == PurgeIsLate /\ PurgeInv /\ [Next]_vars => PurgeInv'
<1>. SUFFICES ASSUME PurgeIsLate, PurgeInv, [Next]_vars PROVE PurgeInv'
  OBVIOUS
<1>1. StorageTyped /\ StorageTyped'
  BY StorageStep DEF PurgeInv
<1>2. /\ ClocksRun' /\ DoneInOrder' /\ RoundOnTime' /\ RecentlyDone'
      /\ done.m1 <= done'.m1 /\ done.m5 <= done'.m5
  <2>1. CASE RawTo1m \/ OneTo5m \/ FiveTo1h
    BY <2>1, AggregationIsOnTime
  <2>2. CASE ~(RawTo1m \/ OneTo5m \/ FiveTo1h)
    BY <1>1, <2>2, OthersAreOnTime, TimesAreNumbers
  <2>. QED
    BY <2>1, <2>2
<1>3. RowsBeforeDone'
  BY <1>2, RowsStayBeforeDone
<1>4. PurgedIsAggregated'
  <2>1. ASSUME NEW x \in sampled'
        PROVE  /\ x \notin BagToSet(raw') => Bucket(x.ts, Width1m) + Width1m <= done'.m1
               /\ x.ts < done'.m1 /\ RowsOf(m1, x, Width1m)' = {} => x.ts < done'.m5
    BY <1>2, <2>1, RawStaysUntilDone, OneStaysUntilDone
  <2>. QED
    BY <2>1 DEF PurgedIsAggregated, RowsOf, BagToSet
<1>. QED
  BY <1>1, <1>2, <1>3, <1>4 DEF PurgeInv

\* The start: nothing is final, and the first purge is an interval away.
LEMMA PurgeInvStart == PurgeIsLate /\ Init => PurgeInv
<1>. SUFFICES ASSUME PurgeIsLate, Init PROVE PurgeInv
  OBVIOUS
<1>1. StorageTyped
  BY StorageStart
<1>. USE TimesAreNumbers
<1>2. /\ now = 0 /\ loop.wake = 0 /\ loop.next = "raw_to_1m" /\ purge.wake = PurgeInterval
      /\ up /\ sampled = {} /\ done.m1 = 0 /\ done.m5 = 0 /\ faults = 0 /\ m1 = EmptyBag
  BY DEF Init
<1>3. ClocksRun /\ DoneInOrder /\ RoundOnTime
  BY <1>1, <1>2 DEF ClocksRun, DoneInOrder, RoundOnTime
<1>4. RecentlyDone
  <2>1. RawDue = 0 /\ OneDue = Pause1m
    BY <1>1, <1>2 DEF RawDue, OneDue
  <2>2. Delay(faults, Pause1h) \in Nat /\ Delay(faults, Pause1m + Pause1h) \in Nat
    BY <1>1, DelayAdds
  <2>3. RawRecentlyDone
    BY <1>1, <1>2, <2>1, <2>2 DEF RawRecentlyDone
  <2>4. OneRecentlyDone
    BY <1>1, <1>2, <2>1, <2>2 DEF OneRecentlyDone, Period
  <2>. QED
    BY <2>3, <2>4 DEF RecentlyDone
<1>5. RowsBeforeDone /\ PurgedIsAggregated
  BY <1>2 DEF RowsBeforeDone, PurgedIsAggregated, EmptyBag, SetToBag, BagToSet
<1>. QED
  BY <1>1, <1>3, <1>4, <1>5 DEF PurgeInv

\* With such settings no sample is purged before the aggregation has counted it,
\* whatever statements fail and stops of the server come between two whole rounds, up
\* to MaxFaults of them: raw samples go when their bucket is final, 1m rows when the 5m
\* table has read them.
THEOREM PurgesFollowAggregation == ASSUME PurgeIsLate PROVE Spec => []PurgedIsAggregated
<1>1. PurgeInv => PurgedIsAggregated
  BY DEF PurgeInv
<1>2. Init => PurgeInv
  BY PurgeInvStart
<1>3. PurgeInv /\ [Next]_vars => PurgeInv'
  BY PurgeInvStep
<1>. QED
  BY <1>1, <1>2, <1>3, PTL DEF Spec

-----------------------------------------------------------------------------
(* What is final is counted.                                               *)

HourDue == loop.wake + (CASE loop.next = "raw_to_1m" -> Pause1m + Pause5m
                          [] loop.next = "1m_to_5m" -> Pause5m
                          [] loop.next = "5m_to_1h" -> 0)

\* The same for rows: whole buckets of the next table are final before its source
\* is purged, and buckets of the next table are whole buckets of this one.
RowsAreLate ==
    /\ \E k \in Nat : Width5m = k * Width1m
    /\ \E k \in Nat : Width1h = k * Width5m
    /\ Lag5m + Pause5m <= Lag1h
    /\ Width5m + Lag5m + Period + Delay(MaxFaults, Pause1m + Pause1h) <= Keep1m + 1
    /\ Width1h + Lag1h + Period + Delay(MaxFaults, Period) <= Keep5m + 1
    /\ Delay(MaxFaults, Period) < PurgeInterval + Pause1h

HoursInOrder ==
    /\ done.h1 <= done.m5
    /\ done.h1 = 0 \/ done.h1 + Lag1h <= now
    /\ loop.next = "5m_to_1h" => loop.wake <= done.m5 + Lag5m + Pause5m

FiveRecentlyDone ==
    \/ HourDue <= done.h1 + Lag1h + Period + Delay(faults, Period)
    \/ HourDue + Delay(MaxFaults - faults, Period) < purge.wake

HoursInv == PurgeInv /\ HoursInOrder /\ (up => FiveRecentlyDone)

\* The numbers of the hours.
LEMMA HoursAreNumbers ==
    ASSUME StorageTyped
    PROVE  /\ done.h1 \in Nat /\ HourDue \in Nat /\ HourDue >= loop.wake
           /\ {Width5m, Width1h} \subseteq Nat \ {0}
           /\ {Lag1h, Keep5m} \subseteq Nat
<1>1. /\ {Pause1m, Pause5m, Pause1h, Width5m, Width1h} \subseteq Nat \ {0}
      /\ {Lag1h, Keep5m, MaxTime} \subseteq Nat
  BY DownsampleAssumption
<1>2. done.h1 \in Nat
  BY <1>1 DEF StorageTyped, HistoryTyped
<1>3. HourDue \in Nat /\ HourDue >= loop.wake
  BY <1>1, TimesAreNumbers DEF HourDue
<1>. QED
  BY <1>1, <1>2, <1>3

\* The aggregations keep the hours on time.
LEMMA AggregatedHours ==
    ASSUME HoursInv, PurgeIsLate, RowsAreLate, RawTo1m \/ OneTo5m \/ FiveTo1h
    PROVE  HoursInOrder' /\ (up' => FiveRecentlyDone') /\ done.h1 <= done'.h1
<1>1. StorageTyped /\ ClocksRun /\ DoneInOrder /\ HoursInOrder /\ PurgeInv
  BY DEF HoursInv, PurgeInv
<1>. USE TimesAreNumbers, HoursAreNumbers
<1>2. /\ up /\ loop.wake = now /\ purge.wake >= now
      /\ UNCHANGED <<now, up, purge>>
  BY <1>1 DEF ClocksRun, Due, RawTo1m, OneTo5m, FiveTo1h
<1>4. /\ FiveRecentlyDone
      /\ done \in [{"m1", "m5", "h1"} -> 0..MaxTime]
  BY <1>1, <1>2 DEF HoursInv, StorageTyped, HistoryTyped
<1>5. done.m1 <= done'.m1 /\ done.m5 <= done'.m5 /\ (OneTo5m => now <= done'.m5 + Lag5m)
  BY <1>1, AggregationIsOnTime
<1>6. Lag5m + Pause5m <= Lag1h
  BY DEF RowsAreLate
<1>7. CASE RawTo1m
  <2>1. /\ done'.h1 = done.h1 /\ done'.m5 = done.m5
        /\ loop.next = "raw_to_1m" /\ loop' = [next |-> "1m_to_5m", wake |-> now + Pause1m]
    BY <1>4, <1>7 DEF RawTo1m, Due
  <2>2. HoursInOrder'
    BY <1>1, <1>2, <2>1 DEF HoursInOrder
  <2>3. HourDue' = HourDue
    BY <1>1, <1>2, <2>1 DEF HourDue
  <2>4. FiveRecentlyDone'
    BY <1>2, <1>4, <1>7, <2>1, <2>3 DEF FiveRecentlyDone, RawTo1m, Period
  <2>. QED
    BY <1>1, <2>1, <2>2, <2>4
<1>8. CASE OneTo5m
  <2>1. /\ done'.h1 = done.h1
        /\ loop.next = "1m_to_5m" /\ loop' = [next |-> "5m_to_1h", wake |-> now + Pause5m]
    BY <1>4, <1>8 DEF OneTo5m, Due
  <2>2. done'.m5 \in Nat
    <3>1. StorageTyped'
      BY <1>1, <1>8, AggregationTyped
    <3>. QED
      BY <3>1, DownsampleAssumption DEF StorageTyped, HistoryTyped
  <2>3. HoursInOrder'
    BY <1>1, <1>2, <1>5, <1>8, <2>1, <2>2 DEF HoursInOrder
  <2>4. HourDue' = HourDue
    BY <1>1, <1>2, <2>1 DEF HourDue
  <2>5. FiveRecentlyDone'
    BY <1>2, <1>4, <1>8, <2>1, <2>4 DEF FiveRecentlyDone, OneTo5m, Period
  <2>. QED
    BY <1>1, <2>1, <2>3, <2>5
<1>9. CASE FiveTo1h
  <2>1. /\ done'.h1 = Min({Before(Lag1h), done.m5}) /\ done'.m5 = done.m5
        /\ loop.next = "5m_to_1h" /\ loop' = [next |-> "raw_to_1m", wake |-> now + Pause1h]
    BY <1>4, <1>9 DEF FiveTo1h, Due
  <2>2. /\ Before(Lag1h) \in Nat /\ now <= Before(Lag1h) + Lag1h
        /\ Before(Lag1h) = 0 \/ Before(Lag1h) + Lag1h = now
    BY <1>1, BeforeIsPast DEF StorageTyped
  <2>3. done'.h1 = IF Before(Lag1h) <= done.m5 THEN Before(Lag1h) ELSE done.m5
    BY <1>1, <2>1, <2>2, MinOfTwo
  <2>4. now <= done'.h1 + Lag1h /\ done'.h1 \in Nat
    BY <1>1, <1>2, <1>6, <2>1, <2>2, <2>3 DEF HoursInOrder
  <2>5. done.h1 <= done'.h1 /\ HoursInOrder'
    BY <1>1, <1>2, <2>1, <2>2, <2>3 DEF HoursInOrder, DoneInOrder
  <2>6. HourDue' = now + Pause1h + Pause1m + Pause5m
    BY <1>1, <1>2, <2>1 DEF HourDue
  <2>7. HourDue' <= done'.h1 + Lag1h + Period + Delay(0, Period)
    <3>1. Delay(0, Period) = 0
      BY <1>1 DEF Delay
    <3>. QED
      BY <1>1, <2>4, <2>6, <3>1 DEF Period
  <2>8. FiveRecentlyDone'
    BY <1>9, <2>7 DEF FiveRecentlyDone, FiveTo1h, Period
  <2>. QED
    BY <1>1, <2>1, <2>5, <2>8
<1>. QED
  BY <1>7, <1>8, <1>9

\* So does everything else.
LEMMA OtherHours ==
    ASSUME HoursInv, PurgeIsLate, RowsAreLate, [Next]_vars, ~(RawTo1m \/ OneTo5m \/ FiveTo1h)
    PROVE  HoursInOrder' /\ (up' => FiveRecentlyDone')
<1>1. StorageTyped /\ ClocksRun /\ HoursInOrder /\ PurgeInv /\ (up => FiveRecentlyDone)
  BY DEF HoursInv, PurgeInv
<1>. USE TimesAreNumbers, HoursAreNumbers
<1>2. done' = done
  BY <1>1, OthersAreOnTime
<1>3. ASSUME UNCHANGED <<now, loop, up, faults>>, purge'.wake \in Nat,
             up => purge.wake <= purge'.wake
      PROVE  HoursInOrder' /\ (up' => FiveRecentlyDone')
  <2>1. HoursInOrder'
    BY <1>1, <1>2, <1>3 DEF HoursInOrder
  <2>2. HourDue' = HourDue
    BY <1>3 DEF HourDue
  <2>3. Delay(MaxFaults - faults, Period) \in Nat
    BY <1>1, DelayAdds
  <2>4. up' => FiveRecentlyDone'
    BY <1>1, <1>2, <1>3, <2>2, <2>3 DEF FiveRecentlyDone, Period
  <2>. QED
    BY <2>1, <2>4
<1>4. CASE \E s \in Sources, t \in 0..now : InsertRaw(s, t)
  <2>1. UNCHANGED <<now, loop, up, faults, purge>>
    BY <1>4 DEF InsertRaw
  <2>. QED
    BY <1>1, <1>3, <2>1
<1>5. CASE PurgeRaw \/ Purge1m \/ Purge5m
  <2>1. /\ UNCHANGED <<now, loop, up, faults>>
        /\ purge'.wake = purge.wake \/ purge'.wake = now + PurgeInterval
        /\ purge.wake <= now
    BY <1>1, <1>5 DEF PurgeRaw, Purge1m, Purge5m, history, PurgeDue, StorageTyped, PurgeTyped
  <2>2. purge'.wake \in Nat /\ purge.wake <= purge'.wake
    BY <1>1, <2>1
  <2>. QED
    BY <1>3, <2>1, <2>2
<1>6. ASSUME up, faults < MaxFaults, faults' = faults + 1
      PROVE  /\ Delay(faults', Period) = Delay(faults, Period) + Period
             /\ Delay(MaxFaults - faults', Period) + Period = Delay(MaxFaults - faults, Period)
             /\ Delay(faults, Period) \in Nat /\ Delay(MaxFaults - faults, Period) \in Nat
             /\ Delay(MaxFaults - faults', Period) \in Nat
  <2>1. /\ Delay(faults + 1, Period) = Delay(faults, Period) + Period
        /\ Delay(MaxFaults - (faults + 1), Period) + Period = Delay(MaxFaults - faults, Period)
        /\ Delay(faults, Period) \in Nat /\ Delay(MaxFaults - faults, Period) \in Nat
        /\ Delay(MaxFaults - (faults + 1), Period) \in Nat
    <3>1. MaxFaults \in Nat /\ faults \in 0..MaxFaults /\ Period \in Nat
      BY <1>1
    <3>. QED
      BY <1>6, <3>1, OneFaultMore
  <2>. QED
    BY <1>6, <2>1
<1>7. CASE LoopFails
  <2>1. /\ UNCHANGED <<now, up, purge>> /\ up /\ loop.wake <= now /\ faults < MaxFaults
        /\ faults' = faults + 1 /\ loop' = [next |-> "raw_to_1m", wake |-> now + Pause1h]
    BY <1>7 DEF LoopFails, Due
  <2>2. HourDue' = now + Period /\ HourDue >= now /\ HourDue' \in Nat
    BY <1>1, <2>1 DEF HourDue, ClocksRun, Period
  <2>3. HoursInOrder'
    BY <1>1, <1>2, <2>1 DEF HoursInOrder
  <2>4. \/ HourDue' <= done.h1 + Lag1h + Period + Delay(faults', Period)
        \/ HourDue' + Delay(MaxFaults - faults', Period) < purge.wake
    <3>1. \/ HourDue <= done.h1 + Lag1h + Period + Delay(faults, Period)
          \/ HourDue + Delay(MaxFaults - faults, Period) < purge.wake
      BY <1>1, <2>1 DEF FiveRecentlyDone
    <3>2. HourDue' <= HourDue + Period
      BY <1>1, <2>2
    <3>. QED
      BY <1>1, <1>6, <2>1, <2>2, <3>1, <3>2
  <2>5. FiveRecentlyDone'
    BY <1>2, <2>1, <2>4 DEF FiveRecentlyDone, Period
  <2>. QED
    BY <2>3, <2>5
<1>8. CASE PurgeFails
  <2>1. /\ UNCHANGED <<now, loop, up>> /\ up /\ purge.wake <= now /\ faults < MaxFaults
        /\ faults' = faults + 1 /\ purge'.wake = now + PurgeInterval
    BY <1>8 DEF PurgeFails, PurgeDue
  <2>2. HourDue' = HourDue
    BY <2>1 DEF HourDue
  <2>3. HoursInOrder'
    BY <1>1, <1>2, <2>1 DEF HoursInOrder
  <2>4. \/ HourDue <= done.h1 + Lag1h + Period + Delay(faults', Period)
        \/ HourDue + Delay(MaxFaults - faults', Period) < purge'.wake
    BY <1>1, <1>6, <2>1 DEF FiveRecentlyDone
  <2>5. FiveRecentlyDone'
    BY <1>2, <2>2, <2>4 DEF FiveRecentlyDone, Period
  <2>. QED
    BY <2>3, <2>5
<1>9. CASE Stop
  <2>1. ~up' /\ UNCHANGED <<now, loop>>
    BY <1>9 DEF Stop
  <2>. QED
    BY <1>1, <1>2, <2>1 DEF HoursInOrder
<1>10. CASE Start
  <2>1. /\ ~up /\ UNCHANGED <<now, faults>> /\ loop' = [next |-> "raw_to_1m", wake |-> now]
        /\ purge'.wake = now + PurgeInterval
    BY <1>10 DEF Start, history
  <2>2. HoursInOrder'
    BY <1>1, <1>2, <2>1 DEF HoursInOrder
  <2>3. HourDue' = now + Pause1m + Pause5m
    BY <1>1, <2>1 DEF HourDue
  <2>4. faults >= 1
    BY <1>1, <2>1 DEF ClocksRun
  <2>5. /\ Delay(MaxFaults - faults, Period) + Period <= Delay(MaxFaults, Period)
        /\ Delay(MaxFaults - faults, Period) \in Nat /\ Delay(MaxFaults, Period) \in Nat
    BY <1>1, <2>4, DelayAdds
  <2>6. Delay(MaxFaults, Period) < PurgeInterval + Pause1h
    BY DEF RowsAreLate
  <2>7. now + Pause1m + Pause5m + Delay(MaxFaults - faults, Period) < now + PurgeInterval
    <3>1. Delay(MaxFaults - faults, Period) + Pause1m + Pause5m < PurgeInterval
      BY <1>1, <2>5, <2>6 DEF Period
    <3>. QED
      BY <1>1, <2>5, <3>1
  <2>8. FiveRecentlyDone'
    BY <2>1, <2>3, <2>7 DEF FiveRecentlyDone, Period
  <2>. QED
    BY <2>2, <2>8
<1>11. CASE Tick
  <2>1. UNCHANGED <<loop, up, faults, purge>> /\ now' = now + 1
    BY <1>11 DEF Tick, history
  <2>2. HoursInOrder'
    BY <1>1, <1>2, <2>1 DEF HoursInOrder
  <2>3. HourDue' = HourDue
    BY <2>1 DEF HourDue
  <2>4. up' => FiveRecentlyDone'
    BY <1>1, <1>2, <2>1, <2>3 DEF FiveRecentlyDone, Period
  <2>. QED
    BY <2>2, <2>4
<1>12. CASE UNCHANGED vars
  <2>1. UNCHANGED <<now, loop, up, faults, purge>>
    BY <1>12 DEF vars, history
  <2>. QED
    BY <1>1, <1>3, <2>1
<1>. QED
  BY <1>4, <1>5, <1>7, <1>8, <1>9, <1>10, <1>11, <1>12 DEF Next

\* While a purge is due, old rows are in buckets of the next table that are final.
LEMMA OldRowsAreDone ==
    ASSUME HoursInv, PurgeIsLate, RowsAreLate, up, purge.wake <= now
    PROVE  /\ \A t \in Nat : t + Keep1m < now => t + Width5m <= done.m5
           /\ \A t \in Nat : t + Keep5m < now => t + Width1h <= done.h1
<1>1. StorageTyped /\ ClocksRun /\ RecentlyDone /\ FiveRecentlyDone
  BY DEF HoursInv, PurgeInv
<1>. USE TimesAreNumbers, HoursAreNumbers
<1>2. loop.wake >= now
  BY <1>1 DEF ClocksRun
<1>. DEFINE d5 == Delay(MaxFaults, Pause1m + Pause1h)
            dh == Delay(MaxFaults, Period)
<1>3. /\ Delay(faults, Pause1m + Pause1h) <= d5
      /\ Delay(MaxFaults - faults, Pause1m + Pause1h) \in Nat
      /\ Delay(faults, Pause1m + Pause1h) \in Nat /\ d5 \in Nat
  BY <1>1, DelayAdds
<1>4. /\ Delay(faults, Period) <= dh
      /\ Delay(MaxFaults - faults, Period) \in Nat
      /\ Delay(faults, Period) \in Nat /\ dh \in Nat
  BY <1>1, DelayAdds
<1>5. /\ Width5m + Lag5m + Period + d5 <= Keep1m + 1
      /\ Width1h + Lag1h + Period + dh <= Keep5m + 1
  BY DEF RowsAreLate
<1>. HIDE DEF d5, dh
<1>6. OneDue <= done.m5 + Lag5m + Period + Delay(faults, Pause1m + Pause1h)
  BY <1>1, <1>2, <1>3 DEF RecentlyDone, OneRecentlyDone
<1>7. HourDue <= done.h1 + Lag1h + Period + Delay(faults, Period)
  BY <1>1, <1>2, <1>4 DEF FiveRecentlyDone
<1>8. now <= done.m5 + Lag5m + Period + d5 /\ now <= done.h1 + Lag1h + Period + dh
  BY <1>1, <1>2, <1>3, <1>4, <1>6, <1>7
<1>. QED
  BY <1>1, <1>3, <1>4, <1>5, <1>8

\* A time between a multiple of the width and the next one is in the first's bucket.
LEMMA BucketIs ==
    ASSUME NEW t \in Nat, NEW w \in Nat \ {0}, NEW m \in Nat, m * w <= t, t < m * w + w
    PROVE  Bucket(t, w) = m * w
<1>. DEFINE q == t \div w
<1>1. q \in Nat /\ q * w <= t /\ t < q * w + w
  BY InBucket DEF Bucket
<1>2. ASSUME NEW i \in Nat, NEW j \in Nat, i < j PROVE i * w + w <= j * w
  <2>1. (i + 1) * w <= j * w /\ (i + 1) * w = i * w + w
    BY <1>2
  <2>. QED
    BY <2>1
<1>3. q * w \in Nat /\ m * w \in Nat
  BY <1>1
<1>. HIDE DEF q
<1>4. ~(q < m) /\ ~(m < q)
  BY <1>1, <1>2, <1>3
<1>5. q = m
  BY <1>1, <1>4
<1>. QED
  BY <1>5 DEF Bucket, q

\* The start of a bucket is in it.
LEMMA BucketOfStart ==
    ASSUME NEW t \in Nat, NEW w \in Nat \ {0}
    PROVE  Bucket(Bucket(t, w), w) = Bucket(t, w)
<1>. DEFINE q == t \div w
<1>1. q \in Nat /\ Bucket(t, w) = q * w /\ q * w \in Nat
  BY InBucket DEF Bucket
<1>. HIDE DEF q
<1>2. q * w <= q * w /\ q * w < q * w + w
  BY <1>1
<1>. QED
  BY <1>1, <1>2, BucketIs

\* A bucket that starts before another one ends does not start after it.
LEMMA BucketsInOrder ==
    ASSUME NEW w \in Nat \ {0}, NEW r \in Nat, NEW b \in Nat,
           r = Bucket(r, w), b = Bucket(b, w), r < b + w
    PROVE  r <= b
<1>. DEFINE i == r \div w
            j == b \div w
<1>1. i \in Nat /\ j \in Nat /\ r = i * w /\ b = j * w
  BY DEF Bucket
<1>. HIDE DEF i, j
<1>2. j * w + w = (j + 1) * w
  BY <1>1
<1>3. i * w < (j + 1) * w
  BY <1>1, <1>2
<1>4. ~(i >= j + 1)
  <2>1. ASSUME i >= j + 1 PROVE i * w >= (j + 1) * w
    BY <1>1, <2>1
  <2>2. i * w \in Nat /\ (j + 1) * w \in Nat
    BY <1>1
  <2>. QED
    BY <1>3, <2>1, <2>2
<1>5. i <= j
  BY <1>1, <1>4
<1>6. i * w <= j * w
  BY <1>1, <1>5
<1>. QED
  BY <1>1, <1>6

\* Narrow buckets lie within wide ones whose width is a multiple of theirs.
LEMMA NestedBuckets ==
    ASSUME NEW t \in Nat, NEW w \in Nat \ {0}, NEW k \in Nat, NEW v \in Nat \ {0}, v = k * w
    PROVE  /\ Bucket(t, v) <= Bucket(t, w)
           /\ Bucket(t, w) + w <= Bucket(t, v) + v
           /\ Bucket(Bucket(t, w), v) = Bucket(t, v)
<1>. DEFINE b == Bucket(t, v)
            c == Bucket(t, w)
            j == t \div v
<1>1. /\ b \in Nat /\ b <= t /\ t < b + v
      /\ c \in Nat /\ c <= t /\ t < c + w
  BY InBucket
<1>2. j \in Nat /\ b = j * v
  BY DEF Bucket
<1>3. c = Bucket(c, w)
  BY BucketOfStart
<1>. HIDE DEF b, c, j
<1>4. b = Bucket(b, w)
  <2>1. b = (j * k) * w /\ j * k \in Nat
    BY <1>2
  <2>2. (j * k) * w <= b /\ b < (j * k) * w + w
    BY <1>1, <2>1
  <2>. QED
    BY <1>1, <2>1, <2>2, BucketIs
<1>5. b + v = Bucket(b + v, w)
  <2>1. b + v = ((j + 1) * k) * w /\ (j + 1) * k \in Nat
    BY <1>2
  <2>2. ((j + 1) * k) * w <= b + v /\ b + v < ((j + 1) * k) * w + w
    BY <1>1, <2>1
  <2>3. b + v \in Nat
    BY <1>1
  <2>. QED
    BY <2>1, <2>2, <2>3, BucketIs
<1>6. b <= c
  BY <1>1, <1>3, <1>4, BucketsInOrder
<1>7. c + w <= b + v
  <2>1. c < b + v /\ b + v \in Nat
    BY <1>1
  <2>2. ~(b + v < c + w)
    <3>1. ASSUME b + v < c + w PROVE b + v <= c
      BY <1>1, <1>3, <1>5, <2>1, <3>1, BucketsInOrder
    <3>. QED
      BY <1>1, <2>1, <3>1
  <2>. QED
    BY <1>1, <2>2
<1>8. Bucket(c, v) = b
  <2>1. j * v <= c /\ c < j * v + v
    BY <1>1, <1>2, <1>6
  <2>. QED
    BY <1>1, <1>2, <2>1, BucketIs
<1>. QED
  BY <1>6, <1>7, <1>8 DEF b, c

-----------------------------------------------------------------------------
\* The elements of a finite set, numbered.
Numbering(S) == CHOOSE e \in Injection(S, 1..Cardinality(S)) : TRUE

\* A finite set can be numbered.
LEMMA CanBeNumbered ==
    ASSUME NEW S, IsFiniteSet(S)
    PROVE  /\ Cardinality(S) \in Nat
           /\ \A e \in S : Numbering(S)[e] \in 1..Cardinality(S)
           /\ \A d, e \in S : Numbering(S)[d] = Numbering(S)[e] => d = e
<1>. DEFINE n == Cardinality(S)
<1>1. n \in Nat
  BY FS_CardinalityType
<1>. HIDE DEF n
<1>2. IsFiniteSet(1..n) /\ Cardinality(1..n) = n
  <2>1. n \in Int /\ 1 \in Int
    BY <1>1
  <2>2. /\ IsFiniteSet(1..n) /\ Cardinality(1..n) = IF 1 > n THEN 0 ELSE n - 1 + 1
    BY <2>1, FS_Interval
  <2>. QED
    BY <1>1, <2>2
<1>3. ExistsBijection(S, 1..n)
  BY <1>2, FS_SameCardinalityBij DEF n
<1>4. \E e \in Injection(S, 1..n) : TRUE
  BY <1>3 DEF ExistsBijection, Bijection
<1>5. Numbering(S) \in Injection(S, 1..n)
  BY <1>4 DEF Numbering, n
<1>. QED
  BY <1>1, <1>5 DEF Injection, IsInjective, n

\* The samples behind rows, one by one.
Behind(from, rows) == UNION {{q} \X (1..(q.n * from[q])) : q \in rows}

\* They are finitely many.
LEMMA BehindIsFinite ==
    ASSUME NEW from, IsTable(from), NEW rows \in SUBSET BagToSet(from)
    PROVE  /\ IsFiniteSet(rows)
           /\ IsFiniteSet(Behind(from, rows))
           /\ SamplesOf(from, rows) = Cardinality(Behind(from, rows))
           /\ SamplesOf(from, rows) \in Nat
           /\ \A q \in rows : q.n \in Nat /\ from[q] \in Nat \ {0} /\ q.n * from[q] \in Nat
<1>. DEFINE times == [q \in rows |-> q.n * from[q]]
<1>1. IsFiniteSet(rows)
  BY FS_Subset DEF IsTable
<1>2. ASSUME NEW q \in rows
      PROVE  q.n \in Nat /\ from[q] \in Nat \ {0} /\ q.n * from[q] \in Nat
  <2>1. q.n \in Nat /\ from[q] \in Nat \ {0}
    BY DEF IsTable, IsABag, BagToSet, Row
  <2>. QED
    BY <2>1
<1>3. times \in [rows -> Nat]
  BY <1>2
<1>4. Behind(from, rows) = UNION {{q} \X (1..times[q]) : q \in rows}
  <2>1. {{q} \X (1..(q.n * from[q])) : q \in rows} = {{q} \X (1..times[q]) : q \in rows}
    OBVIOUS
  <2>. QED
    BY <2>1 DEF Behind
<1>. HIDE DEF times
<1>5. IsFiniteSet(Behind(from, rows)) /\ Cardinality(Behind(from, rows)) \in Nat
  BY <1>1, <1>3, <1>4, CountedIsFinite
<1>. QED
  BY <1>1, <1>2, <1>5 DEF SamplesOf, Behind

\* Peers are sampled, and finitely many.
LEMMA PeersAreSampled ==
    ASSUME IsFiniteSet(sampled), NEW x, NEW w
    PROVE  Peers(x, w) \subseteq sampled /\ IsFiniteSet(Peers(x, w)) /\ Cardinality(Peers(x, w)) \in Nat
<1>1. Peers(x, w) \subseteq sampled
  BY DEF Peers
<1>. QED
  BY <1>1, FS_Subset, FS_CardinalityType

\* If every sample of a wide bucket has a row for its narrow bucket that stands for
\* all of it, the rows of the wide bucket stand for as many samples as it has: each
\* sample is one of those behind its row, under its number in the narrow bucket.
LEMMA GroupCountsPeers ==
    ASSUME sampled \subseteq Row, IsFiniteSet(sampled),
           NEW from, IsTable(from), NEW rows \in SUBSET BagToSet(from),
           NEW w \in Nat \ {0}, NEW k \in Nat, NEW v \in Nat \ {0}, v = k * w,
           NEW x \in sampled, NEW r, r.src = x.src, Bucket(r.ts, v) = Bucket(x.ts, v),
           \A y \in Peers(x, v) : \E q \in rows :
               q.src = y.src /\ q.ts = Bucket(y.ts, w) /\ q.n >= Cardinality(Peers(y, w))
    PROVE  SamplesOf(from, GroupOf(rows, r, v)) >= Cardinality(Peers(x, v))
<1>. DEFINE group == GroupOf(rows, r, v)
            behind == Behind(from, group)
            P == Peers(x, v)
            RowFor(y, q) == q.src = y.src /\ q.ts = Bucket(y.ts, w) /\ q.n >= Cardinality(Peers(y, w))
            Q == [y \in P |-> CHOOSE q \in rows : RowFor(y, q)]
            f == [y \in P |-> <<Q[y], Numbering(Peers(y, w))[y]>>]
<1>1. group \in SUBSET BagToSet(from) /\ group \in SUBSET rows
  BY DEF GroupOf
<1>2. /\ IsFiniteSet(behind) /\ SamplesOf(from, group) = Cardinality(behind)
      /\ \A q \in group : q.n \in Nat /\ from[q] \in Nat \ {0} /\ q.n * from[q] \in Nat
  <2>. HIDE DEF group
  <2>. QED
    BY <1>1, BehindIsFinite
<1>3. P \subseteq sampled
  BY PeersAreSampled
<1>4. \A y \in P : Q[y] \in rows /\ RowFor(y, Q[y])
  <2>. HIDE DEF RowFor
  <2>1. \A y \in P : \E q \in rows : RowFor(y, q)
    BY DEF RowFor
  <2>. QED
    BY <2>1
<1>. HIDE DEF Q
<1>5. ASSUME NEW y \in P PROVE f[y] \in behind
  <2>. DEFINE i == Numbering(Peers(y, w))[y]
  <2>1. y \in sampled /\ y.ts \in Nat /\ y.src = x.src /\ Bucket(y.ts, v) = Bucket(x.ts, v)
    BY <1>3 DEF Peers, Row
  <2>2. y \in Peers(y, w)
    BY <2>1 DEF Peers
  <2>3. i \in 1..Cardinality(Peers(y, w)) /\ Cardinality(Peers(y, w)) \in Nat
    BY <2>2, PeersAreSampled, CanBeNumbered
  <2>4. Q[y] \in group
    <3>1. Bucket(Bucket(y.ts, w), v) = Bucket(y.ts, v)
      BY <2>1, NestedBuckets
    <3>2. Q[y] \in rows /\ Q[y].src = r.src /\ Bucket(Q[y].ts, v) = Bucket(r.ts, v)
      BY <1>4, <2>1, <3>1
    <3>. QED
      BY <3>2 DEF GroupOf
  <2>. HIDE DEF i, group
  <2>5. Q[y].n >= Cardinality(Peers(y, w))
    BY <1>4
  <2>6. i \in 1..(Q[y].n * from[Q[y]])
    <3>1. Q[y].n \in Nat /\ from[Q[y]] \in Nat \ {0} /\ Q[y].n * from[Q[y]] \in Nat
      BY <1>2, <2>4
    <3>2. Q[y].n * from[Q[y]] >= Q[y].n
      BY <3>1
    <3>. QED
      BY <2>3, <2>5, <3>1, <3>2
  <2>7. <<Q[y], i>> \in behind
    BY <2>4, <2>6 DEF Behind
  <2>8. f[y] = <<Q[y], i>>
    BY DEF i
  <2>. QED
    BY <2>7, <2>8
<1>6. ASSUME NEW y \in P, NEW z \in P, f[y] = f[z] PROVE y = z
  <2>1. /\ Q[y] = Q[z]
        /\ Numbering(Peers(y, w))[y] = Numbering(Peers(z, w))[z]
    BY <1>6
  <2>2. y.src = z.src /\ Bucket(y.ts, w) = Bucket(z.ts, w)
    BY <1>4, <2>1
  <2>3. Peers(y, w) = Peers(z, w) /\ y \in Peers(y, w) /\ z \in Peers(y, w)
    BY <1>3, <2>2 DEF Peers
  <2>. QED
    BY <2>1, <2>3, PeersAreSampled, CanBeNumbered
<1>7. f \in Injection(P, behind)
  <2>1. f = [y \in P |-> f[y]] /\ DOMAIN f = P
    OBVIOUS
  <2>. HIDE DEF f, P, behind
  <2>2. f \in [P -> behind]
    BY <1>5, <2>1
  <2>. QED
    BY <1>6, <2>1, <2>2 DEF Injection, IsInjective
<1>. HIDE DEF f, P, behind
<1>8. Cardinality(P) <= Cardinality(behind)
  BY <1>2, <1>7, FS_Injection
<1>9. Cardinality(P) \in Nat /\ Cardinality(behind) \in Nat
  BY <1>2, FS_CardinalityType, PeersAreSampled DEF P
<1>. QED
  BY <1>2, <1>8, <1>9 DEF P

\* Raw rows are samples, each once: a group of them stands for no more than its own.
LEMMA RawGroupIsPeers ==
    ASSUME sampled \subseteq Row, IsFiniteSet(sampled),
           NEW from, IsTable(from), NEW rows \in SUBSET BagToSet(from), rows \subseteq sampled,
           \A q \in rows : q.n = 1 /\ from[q] = 1,
           NEW v \in Nat \ {0},
           NEW x \in sampled, NEW r, r.src = x.src, Bucket(r.ts, v) = Bucket(x.ts, v)
    PROVE  SamplesOf(from, GroupOf(rows, r, v)) <= Cardinality(Peers(x, v))
<1>. DEFINE group == GroupOf(rows, r, v)
            behind == Behind(from, group)
            P == Peers(x, v)
            g == [c \in behind |-> c[1]]
<1>1. group \in SUBSET BagToSet(from) /\ group \in SUBSET rows /\ group \subseteq P
  BY DEF GroupOf, Peers
<1>2. IsFiniteSet(behind) /\ SamplesOf(from, group) = Cardinality(behind)
  <2>. HIDE DEF group
  <2>. QED
    BY <1>1, BehindIsFinite
<1>3. ASSUME NEW c \in behind PROVE c[1] \in group /\ c = <<c[1], 1>>
  <2>. HIDE DEF group
  <2>1. PICK q \in group : c \in {q} \X (1..(q.n * from[q]))
    BY DEF Behind
  <2>2. q.n * from[q] = 1
    BY <1>1
  <2>. QED
    BY <2>1, <2>2
<1>4. g \in Injection(behind, P)
  <2>1. \A c \in behind : g[c] \in P
    BY <1>1, <1>3
  <2>2. \A c, d \in behind : g[c] = g[d] => c = d
    BY <1>3
  <2>3. g = [c \in behind |-> g[c]] /\ DOMAIN g = behind
    OBVIOUS
  <2>. HIDE DEF g, P, behind
  <2>4. g \in [behind -> P]
    BY <2>1, <2>3
  <2>. QED
    BY <2>2, <2>3, <2>4 DEF Injection, IsInjective
<1>5. IsFiniteSet(P)
  BY PeersAreSampled
<1>. HIDE DEF g, P, behind
<1>6. Cardinality(behind) <= Cardinality(P)
  BY <1>4, <1>5, FS_Injection
<1>. QED
  BY <1>2, <1>6 DEF P

-----------------------------------------------------------------------------
(* The tables.                                                             *)

BucketsOf(table, width, final) ==
    \A r \in BagToSet(table) : r.ts = Bucket(r.ts, width) /\ r.ts < final

RowsAreBuckets ==
    /\ BucketsOf(m1, Width1m, done.m1)
    /\ BucketsOf(m5, Width5m, done.m5)
    /\ BucketsOf(h1, Width1h, done.h1)

\* What is final has its row until it is old, and until the next table has it.
Counted1m ==
    \A x \in sampled :
        /\ Bucket(x.ts, Width1m) + Width1m <= done.m1
        /\ \/ Bucket(x.ts, Width1m) + Keep1m >= now
           \/ Bucket(x.ts, Width1m) + Width5m > done.m5
        => \E r \in RowsOf(m1, x, Width1m) : r.n = Cardinality(Peers(x, Width1m))
Counted5m ==
    \A x \in sampled :
        /\ Bucket(x.ts, Width5m) + Width5m <= done.m5
        /\ \/ Bucket(x.ts, Width5m) + Keep5m >= now
           \/ Bucket(x.ts, Width5m) + Width1h > done.h1
        => \E r \in RowsOf(m5, x, Width5m) : r.n >= Cardinality(Peers(x, Width5m))
Counted1h ==
    \A x \in sampled :
        Bucket(x.ts, Width1h) + Width1h <= done.h1
        => \E r \in RowsOf(h1, x, Width1h) : r.n >= Cardinality(Peers(x, Width1h))

CountInv == HoursInv /\ RowsAreBuckets /\ Counted1m /\ Counted5m /\ Counted1h

\* An aggregation leaves buckets, all before what is final afterwards.
LEMMA AggregatedBuckets ==
    ASSUME NEW from, NEW to, IsTable(from), IsTable(to),
           NEW v \in Nat \ {0}, NEW before \in Nat,
           NEW old \in Nat, NEW new \in Nat, old <= new, BucketsOf(to, v, old),
           \A q \in BagToSet(from) : q.ts < before => q.ts < new
    PROVE  BucketsOf(Aggregated(from, to, v, before), v, new)
<1>. DEFINE rows == Selected(from, to, v, before)
            table == Aggregated(from, to, v, before)
<1>1. BagToSet(table) = BagToSet(to) \cup Grouped(from, rows, v)
  BY AggregationAdds
<1>2. ASSUME NEW r \in Grouped(from, rows, v) PROVE r.ts = Bucket(r.ts, v) /\ r.ts < new
  <2>1. PICK q \in rows : r.ts = Bucket(q.ts, v)
    BY DEF Grouped
  <2>2. q \in BagToSet(from) /\ q.ts < before /\ q.ts \in Nat
    BY DEF Selected, IsTable, Row
  <2>3. Bucket(q.ts, v) \in Nat /\ Bucket(q.ts, v) <= q.ts /\ Bucket(Bucket(q.ts, v), v) = Bucket(q.ts, v)
    BY <2>2, InBucket, BucketOfStart
  <2>. QED
    BY <2>1, <2>2, <2>3
<1>3. ASSUME NEW r \in BagToSet(to) PROVE r.ts = Bucket(r.ts, v) /\ r.ts < new
  <2>1. r.ts \in Nat
    BY DEF IsTable, Row
  <2>. QED
    BY <2>1 DEF BucketsOf
<1>. HIDE DEF rows, table
<1>. QED
  BY <1>1, <1>2, <1>3 DEF BucketsOf, table

\* The newest row is one of the rows, if there is one.
LEMMA NewestIsRow ==
    ASSUME NEW t, IsTable(t)
    PROVE  Newest(t) = 0 \/ \E r \in BagToSet(t) : Newest(t) = r.ts
<1>. DEFINE times == {0} \cup {r.ts : r \in BagToSet(t)}
<1>1. times \in SUBSET (0..MaxTime) /\ times # {} /\ MaxTime \in Nat
  BY DownsampleAssumption DEF IsTable, Row
<1>2. Max(times) \in times
  <2>. HIDE DEF times
  <2>. QED
    BY <1>1, GreatestExists
<1>. QED
  BY <1>2 DEF Newest

\* The aggregation that makes a bucket final selects a group of rows that stands
\* for all of its samples.
LEMMA FinalGroupCounts ==
    ASSUME sampled \subseteq Row, IsFiniteSet(sampled),
           NEW from, NEW to, IsTable(from), IsTable(to),
           NEW w \in Nat \ {0}, NEW v \in Nat \ {0}, \E k \in Nat : v = k * w,
           NEW before \in Nat, NEW old \in Nat, BucketsOf(to, v, old),
           NEW x \in sampled, old < Bucket(x.ts, v) + v, Bucket(x.ts, v) + v <= before,
           \A y \in Peers(x, v) : \E q \in BagToSet(from) :
               q.src = y.src /\ q.ts = Bucket(y.ts, w) /\ q.n >= Cardinality(Peers(y, w))
    PROVE  \E q \in Selected(from, to, v, before) :
               /\ q.src = x.src /\ Bucket(q.ts, v) = Bucket(x.ts, v)
               /\ SamplesOf(from, GroupOf(Selected(from, to, v, before), q, v))
                  >= Cardinality(Peers(x, v))
<1>. DEFINE rows == Selected(from, to, v, before)
            b == Bucket(x.ts, v)
<1>0. PICK k \in Nat : v = k * w
  OBVIOUS
<1>1. x.ts \in Nat /\ b \in Nat /\ b = Bucket(b, v)
  <2>1. x.ts \in Nat
    BY DEF Row
  <2>. QED
    BY <2>1, InBucket, BucketOfStart
<1>. HIDE DEF b
<1>2. Newest(to) \in Nat /\ Newest(to) <= b
  <2>1. CASE Newest(to) = 0
    BY <1>1, <2>1
  <2>2. CASE \E r \in BagToSet(to) : Newest(to) = r.ts
    <3>1. PICK r \in BagToSet(to) : Newest(to) = r.ts
      BY <2>2
    <3>2. r.ts \in Nat /\ r.ts = Bucket(r.ts, v) /\ r.ts < old
      BY DEF IsTable, Row, BucketsOf
    <3>3. r.ts < b + v
      BY <1>1, <3>2 DEF b
    <3>4. r.ts <= b
      BY <1>1, <3>2, <3>3, BucketsInOrder
    <3>. QED
      BY <3>1, <3>2, <3>4
  <2>. QED
    BY <2>1, <2>2, NewestIsRow
<1>3. ASSUME NEW y \in Peers(x, v)
      PROVE  \E q \in rows :
                 q.src = y.src /\ q.ts = Bucket(y.ts, w) /\ q.n >= Cardinality(Peers(y, w))
  <2>1. PICK q \in BagToSet(from) :
            q.src = y.src /\ q.ts = Bucket(y.ts, w) /\ q.n >= Cardinality(Peers(y, w))
    OBVIOUS
  <2>2. y.ts \in Nat /\ Bucket(y.ts, v) = b
    BY DEF Peers, Row, b
  <2>3. /\ Bucket(y.ts, w) \in Nat /\ Bucket(y.ts, w) <= y.ts /\ y.ts < b + v
        /\ b <= Bucket(y.ts, w)
    BY <1>0, <2>2, InBucket, NestedBuckets
  <2>4. q.ts < before /\ q.ts + v > Newest(to)
    BY <1>1, <1>2, <2>1, <2>2, <2>3 DEF b
  <2>. QED
    BY <2>1, <2>4 DEF Selected
<1>4. rows \in SUBSET BagToSet(from)
  BY DEF Selected
<1>. HIDE DEF rows
<1>5. PICK q \in rows : q.src = x.src /\ q.ts = Bucket(x.ts, w)
  <2>1. x \in Peers(x, v)
    BY DEF Peers
  <2>. QED
    BY <1>3, <2>1
<1>6. Bucket(q.ts, v) = Bucket(x.ts, v)
  <2>1. \A t \in Nat : Bucket(Bucket(t, w), v) = Bucket(t, v)
    BY <1>0, NestedBuckets
  <2>. QED
    BY <1>1, <1>5, <2>1
<1>7. SamplesOf(from, GroupOf(rows, q, v)) >= Cardinality(Peers(x, v))
  BY <1>0, <1>3, <1>4, <1>5, <1>6, GroupCountsPeers
<1>. QED
  BY <1>5, <1>6, <1>7 DEF rows

\* A selected group is a row of the table afterwards.
LEMMA GroupIsRow ==
    ASSUME NEW from, NEW to, IsTable(from), IsTable(to),
           NEW v \in Nat \ {0}, NEW before \in Nat,
           NEW x, NEW q \in Selected(from, to, v, before),
           q.src = x.src, Bucket(q.ts, v) = Bucket(x.ts, v)
    PROVE  \E r \in BagToSet(Aggregated(from, to, v, before)) :
               /\ r.src = x.src /\ r.ts = Bucket(x.ts, v)
               /\ r.n = SamplesOf(from, GroupOf(Selected(from, to, v, before), q, v))
<1>. DEFINE rows == Selected(from, to, v, before)
            own == [src |-> q.src, ts |-> Bucket(q.ts, v), n |-> SamplesOf(from, GroupOf(rows, q, v))]
<1>1. own \in Grouped(from, rows, v)
  BY DEF Grouped
<1>2. own \in BagToSet(Aggregated(from, to, v, before))
  <2>. HIDE DEF own
  <2>. QED
    BY <1>1, AggregationAdds
<1>3. own.src = x.src /\ own.ts = Bucket(x.ts, v) /\ own.n = SamplesOf(from, GroupOf(rows, q, v))
  OBVIOUS
<1>. QED
  BY <1>2, <1>3

\* The types that counting rests on.
LEMMA CountTypes ==
    ASSUME StorageTyped
    PROVE  /\ IsTable(raw) /\ IsTable(m1) /\ IsTable(m5) /\ IsTable(h1)
           /\ sampled \subseteq Row /\ IsFiniteSet(sampled)
           /\ \A x \in sampled : x.ts \in Nat /\ x.n = 1
           /\ BagToSet(raw) \subseteq sampled /\ \A q \in BagToSet(raw) : raw[q] = 1
           /\ done \in [{"m1", "m5", "h1"} -> 0..MaxTime]
           /\ done.m1 \in Nat /\ done.m5 \in Nat /\ done.h1 \in Nat /\ now \in Nat
  BY DownsampleAssumption DEF StorageTyped, TablesTyped, SamplesTyped, HistoryTyped, Row

\* Samples of a bucket that is final are all there.
LEMMA FinalPeersStay ==
    ASSUME PurgeInv, PurgeIsLate, [Next]_vars, NEW x \in sampled', NEW v \in Nat \ {0},
           sampled' = sampled \/ Bucket(x.ts, v) + v <= done.m1
    PROVE  x \in sampled /\ Peers(x, v)' = Peers(x, v)
<1>1. StorageTyped /\ DoneInOrder
  BY DEF PurgeInv
<1>2. CASE sampled' = sampled
  BY <1>2 DEF Peers, Bucket
<1>3. CASE sampled' # sampled
  <2>1. PICK s \in Sources, t \in 0..now : InsertRaw(s, t)
    BY <1>3 DEF Next, RawTo1m, OneTo5m, FiveTo1h, LoopFails, PurgeRaw, Purge1m, Purge5m,
           PurgeFails, Stop, Start, Tick, vars, history
  <2>. DEFINE y == [src |-> s, ts |-> t, n |-> 1]
  <2>2. /\ sampled' = sampled \cup {y} /\ y.ts = t /\ now <= t + MaxLate[s] /\ t \in Nat
        /\ y \in Row
    <3>1. sampled' \subseteq Row
      BY StorageStep, <1>1 DEF StorageTyped, SamplesTyped
    <3>. QED
      BY <1>1, <2>1, <3>1, TimesAreNumbers DEF InsertRaw
  <2>. HIDE DEF y
  <2>3. MaxLate[s] <= Lag1m /\ MaxLate[s] \in Nat
    BY DownsampleAssumption DEF PurgeIsLate
  <2>4. done.m1 <= t
    BY <1>1, <2>2, <2>3, TimesAreNumbers DEF DoneInOrder
  <2>5. Bucket(x.ts, v) + v <= done.m1
    BY <1>3
  <2>6. x \in Row /\ x.ts \in Nat
    BY <1>1, <2>2, CountTypes DEF Row
  <2>7. Bucket(x.ts, v) # Bucket(y.ts, v)
    <3>1. t < Bucket(t, v) + v /\ Bucket(t, v) \in Nat /\ Bucket(x.ts, v) \in Nat
      BY <2>2, <2>6, InBucket
    <3>. QED
      BY <1>1, <2>2, <2>4, <2>5, <3>1, TimesAreNumbers
  <2>8. x \in sampled
    BY <2>2, <2>7
  <2>9. {z \in sampled' : z.src = x.src /\ Bucket(z.ts, v) = Bucket(x.ts, v)}
        = {z \in sampled : z.src = x.src /\ Bucket(z.ts, v) = Bucket(x.ts, v)}
    BY <2>2, <2>7
  <2>. QED
    BY <2>8, <2>9 DEF Peers, Bucket
<1>. QED
  BY <1>2, <1>3

\* What every step leaves of the tables and of what is final.
LEMMA StepsInOrder ==
    ASSUME HoursInv, PurgeIsLate, RowsAreLate, [Next]_vars
    PROVE  /\ StorageTyped /\ StorageTyped' /\ PurgeInv /\ HoursInv'
           /\ done.m1 <= done'.m1 /\ done.m5 <= done'.m5 /\ done.h1 <= done'.h1
           /\ now <= now'
<1>1. PurgeInv /\ StorageTyped /\ StorageTyped'
  BY StorageStep DEF HoursInv, PurgeInv
<1>2. PurgeInv'
  BY <1>1, PurgeInvStep
<1>3. now <= now'
  <2>1. now' = now \/ now' = now + 1
    BY DEF Next, InsertRaw, RawTo1m, OneTo5m, FiveTo1h, LoopFails, PurgeRaw, Purge1m, Purge5m,
           PurgeFails, Stop, Start, Tick, vars
  <2>2. now \in Nat
    BY <1>1, CountTypes
  <2>. QED
    BY <2>1, <2>2
<1>4. CASE RawTo1m \/ OneTo5m \/ FiveTo1h
  BY <1>1, <1>2, <1>3, <1>4, AggregationIsOnTime, AggregatedHours DEF HoursInv
<1>5. CASE ~(RawTo1m \/ OneTo5m \/ FiveTo1h)
  BY <1>1, <1>2, <1>3, <1>5, OthersAreOnTime, OtherHours, CountTypes DEF HoursInv
<1>. QED
  BY <1>4, <1>5

\* Rows that stay and samples that are all there keep a bucket counted.
LEMMA RowStays ==
    ASSUME PurgeInv, PurgeIsLate, [Next]_vars, NEW x \in sampled', NEW v \in Nat \ {0},
           sampled' = sampled \/ Bucket(x.ts, v) + v <= done.m1,
           NEW old, NEW new, NEW r \in RowsOf(old, x, v), r \in BagToSet(new)
    PROVE  /\ r \in RowsOf(new, x, v)
           /\ Peers(x, v)' = Peers(x, v)
  BY FinalPeersStay DEF RowsOf

\* A purge leaves the rows of buckets that are young, or not in the next table.
LEMMA PurgeLeaves ==
    ASSUME NEW t, IsTable(t), NEW keep \in Nat, NEW new \in Purged(t, keep),
           NEW final \in Nat, NEW v \in Nat,
           \A ts \in Nat : ts + keep < now => ts + v <= final,
           NEW b \in Nat, b + keep >= now \/ b + v > final, now \in Nat,
           NEW r \in BagToSet(t), r.ts = b
    PROVE  r \in BagToSet(new)
<1>. SUFFICES ASSUME r \notin BagToSet(new) PROVE FALSE
  OBVIOUS
<1>1. r.ts + keep < now
  BY PurgeTakesOld
<1>. QED
  BY <1>1

\* The 1m table: an aggregation of the raw rows counts every bucket that it makes
\* final, exactly; its rows stay until their 5m bucket is final.
LEMMA MinutesStayCounted ==
    ASSUME CountInv, PurgeIsLate, RowsAreLate, [Next]_vars
    PROVE  Counted1m' /\ BucketsOf(m1, Width1m, done.m1)'
<1>1. HoursInv /\ RowsAreBuckets /\ Counted1m
  BY DEF CountInv
<1>2. /\ StorageTyped /\ StorageTyped' /\ PurgeInv
      /\ done.m1 <= done'.m1 /\ done.m5 <= done'.m5 /\ now <= now'
  BY <1>1, StepsInOrder
<1>3. /\ IsTable(raw) /\ IsTable(m1) /\ IsTable(m1')
      /\ sampled \subseteq Row /\ IsFiniteSet(sampled)
      /\ BagToSet(raw) \subseteq sampled /\ \A q \in BagToSet(raw) : raw[q] = 1
      /\ \A x \in sampled : x.ts \in Nat /\ x.n = 1
      /\ \A x \in sampled' : x.ts \in Nat
      /\ now \in Nat /\ now' \in Nat
      /\ done.m1 \in Nat /\ done'.m1 \in Nat /\ done.m5 \in Nat /\ done'.m5 \in Nat
  <2>1. /\ IsTable(m1') /\ \A x \in sampled' : x.ts \in Nat
        /\ now' \in Nat /\ done'.m1 \in Nat /\ done'.m5 \in Nat
    BY <1>2, DownsampleAssumption DEF StorageTyped, TablesTyped, SamplesTyped, HistoryTyped, Row
  <2>. QED
    BY <1>2, <2>1, CountTypes
<1>4. /\ Width1m \in Nat \ {0} /\ Width5m \in Nat \ {0} /\ Keep1m \in Nat /\ Lag1m \in Nat
      /\ 1 \in Nat \ {0}
  BY DownsampleAssumption
<1>5. BucketsOf(m1, Width1m, done.m1)
  BY <1>1 DEF RowsAreBuckets
<1>6. ASSUME ~RawTo1m
      PROVE  done'.m1 = done.m1
  BY <1>2, <1>6, CountTypes DEF Next, InsertRaw, OneTo5m, FiveTo1h, LoopFails, PurgeRaw, Purge1m,
     Purge5m, PurgeFails, Stop, Start, Tick, vars, history
<1>7. ASSUME NEW x \in sampled', Bucket(x.ts, Width1m) + Width1m <= done.m1,
             \/ Bucket(x.ts, Width1m) + Keep1m >= now'
             \/ Bucket(x.ts, Width1m) + Width5m > done'.m5
      PROVE  /\ \/ Bucket(x.ts, Width1m) + Keep1m >= now
                \/ Bucket(x.ts, Width1m) + Width5m > done.m5
             /\ \E r \in RowsOf(m1, x, Width1m) : r.n = Cardinality(Peers(x, Width1m))
  <2>1. x \in sampled
    BY <1>2, <1>4, <1>7, FinalPeersStay
  <2>2. Bucket(x.ts, Width1m) \in Nat
    BY <1>3, <1>4, InBucket
  <2>3. \/ Bucket(x.ts, Width1m) + Keep1m >= now
        \/ Bucket(x.ts, Width1m) + Width5m > done.m5
    BY <1>2, <1>3, <1>4, <1>7, <2>2
  <2>. QED
    BY <1>1, <1>7, <2>1, <2>3 DEF Counted1m
<1>8. ASSUME done'.m1 = done.m1,
             \A x \in sampled', r \in BagToSet(m1) :
                /\ r.ts = Bucket(x.ts, Width1m)
                /\ \/ Bucket(x.ts, Width1m) + Keep1m >= now
                   \/ Bucket(x.ts, Width1m) + Width5m > done.m5
                => r \in BagToSet(m1')
      PROVE  Counted1m'
  <2>1. ASSUME NEW x \in sampled', Bucket(x.ts, Width1m) + Width1m <= done'.m1,
               \/ Bucket(x.ts, Width1m) + Keep1m >= now'
               \/ Bucket(x.ts, Width1m) + Width5m > done'.m5
        PROVE  \E r \in RowsOf(m1', x, Width1m) : r.n = Cardinality(Peers(x, Width1m)')
    <3>1. PICK r \in RowsOf(m1, x, Width1m) : r.n = Cardinality(Peers(x, Width1m))
      BY <1>7, <1>8, <2>1
    <3>2. r \in BagToSet(m1')
      <4>1. r \in BagToSet(m1) /\ r.ts = Bucket(x.ts, Width1m)
        BY DEF RowsOf
      <4>. QED
        BY <1>7, <1>8, <2>1, <4>1
    <3>3. r \in RowsOf(m1', x, Width1m) /\ Peers(x, Width1m)' = Peers(x, Width1m)
      BY <1>2, <1>4, <1>8, <2>1, <3>2, RowStays
    <3>. QED
      BY <3>1, <3>3
  <2>. QED
    BY <2>1 DEF Counted1m, RowsOf, BagToSet, Bucket
<1>9. CASE RawTo1m
  <2>. DEFINE before == Before(Lag1m)
  <2>1. /\ done'.m1 = before /\ sampled' = sampled
        /\ m1' = Aggregated(raw, m1, Width1m, before)
        /\ now' = now /\ done'.m5 = done.m5
    BY <1>2, <1>9, CountTypes DEF RawTo1m
  <2>2. before \in Nat
    BY <1>3, <2>1
  <2>. HIDE DEF before
  <2>3. BucketsOf(m1', Width1m, done'.m1)
    BY <1>2, <1>3, <1>4, <1>5, <2>1, <2>2, AggregatedBuckets
  <2>4. BagToSet(m1) \subseteq BagToSet(m1')
    <3>1. BagToSet(m1') = BagToSet(m1) \cup Grouped(raw, Selected(raw, m1, Width1m, before), Width1m)
      <4>1. /\ IsTable(raw) /\ IsTable(m1) /\ Width1m \in Nat \ {0}
            /\ m1' = Aggregated(raw, m1, Width1m, before)
        BY <1>3, <1>4, <2>1
      <4>. QED
        BY <2>2, <4>1, AggregationAdds
    <3>. QED
      BY <3>1
  <2>5. ASSUME NEW x \in sampled', Bucket(x.ts, Width1m) + Width1m <= done'.m1,
               \/ Bucket(x.ts, Width1m) + Keep1m >= now'
               \/ Bucket(x.ts, Width1m) + Width5m > done'.m5
        PROVE  \E r \in RowsOf(m1', x, Width1m) : r.n = Cardinality(Peers(x, Width1m)')
    <3>1. Peers(x, Width1m)' = Peers(x, Width1m) /\ x \in sampled
      BY <1>2, <1>4, <2>1, FinalPeersStay
    <3>2. CASE Bucket(x.ts, Width1m) + Width1m <= done.m1
      <4>1. PICK r \in RowsOf(m1, x, Width1m) : r.n = Cardinality(Peers(x, Width1m))
        BY <1>7, <2>5, <3>2
      <4>2. r \in RowsOf(m1', x, Width1m)
        BY <2>4 DEF RowsOf
      <4>. QED
        BY <3>1, <4>1, <4>2
    <3>3. CASE ~(Bucket(x.ts, Width1m) + Width1m <= done.m1)
      <4>. DEFINE rows == Selected(raw, m1, Width1m, before)
      <4>1. Bucket(x.ts, Width1m) \in Nat
        BY <1>3, <1>4, <3>1, InBucket
      <4>2. done.m1 < Bucket(x.ts, Width1m) + Width1m /\ Bucket(x.ts, Width1m) + Width1m <= before
        BY <1>3, <1>4, <2>1, <2>5, <3>3, <4>1
      <4>3. ASSUME NEW y \in Peers(x, Width1m)
            PROVE  \E q \in BagToSet(raw) :
                       q.src = y.src /\ q.ts = Bucket(y.ts, 1) /\ q.n >= Cardinality(Peers(y, 1))
        <5>1. y \in sampled /\ Bucket(y.ts, Width1m) = Bucket(x.ts, Width1m)
          BY DEF Peers
        <5>2. y \in BagToSet(raw)
          <6>1. PurgedIsAggregated
            BY <1>2 DEF PurgeInv
          <6>2. y \notin BagToSet(raw) => Bucket(y.ts, Width1m) + Width1m <= done.m1
            BY <5>1, <6>1 DEF PurgedIsAggregated
          <6>. QED
            BY <3>3, <5>1, <6>2
        <5>3. \A t \in Nat : Bucket(t, 1) = t
          BY DEF Bucket
        <5>4. Peers(y, 1) = {y}
          <6>1. ASSUME NEW z \in Peers(y, 1) PROVE z = y
            <7>1. /\ z \in sampled /\ z.src = y.src /\ Bucket(z.ts, 1) = Bucket(y.ts, 1)
              BY DEF Peers
            <7>2. z.ts = y.ts /\ z.n = y.n /\ z \in Row /\ y \in Row
              BY <1>3, <5>1, <5>3, <7>1
            <7>. QED
              BY <7>1, <7>2 DEF Row
          <6>2. y \in Peers(y, 1)
            BY <5>1 DEF Peers
          <6>. QED
            BY <6>1, <6>2
        <5>5. Cardinality(Peers(y, 1)) = 1
          BY <5>4, FS_Singleton
        <5>6. y.ts = Bucket(y.ts, 1) /\ y.n >= Cardinality(Peers(y, 1))
          BY <1>3, <5>1, <5>3, <5>5
        <5>. QED
          BY <5>2, <5>6
      <4>4. \E k \in Nat : Width1m = k * 1
        <5>1. Width1m \in Nat /\ Width1m = Width1m * 1
          BY <1>4
        <5>. QED
          BY <5>1
      <4>5. PICK q \in rows :
                /\ q.src = x.src /\ Bucket(q.ts, Width1m) = Bucket(x.ts, Width1m)
                /\ SamplesOf(raw, GroupOf(rows, q, Width1m)) >= Cardinality(Peers(x, Width1m))
        <5>1. /\ sampled \subseteq Row /\ IsFiniteSet(sampled)
              /\ IsTable(raw) /\ IsTable(m1) /\ x \in sampled
              /\ 1 \in Nat \ {0} /\ Width1m \in Nat \ {0} /\ Width1m \in Nat
              /\ before \in Nat /\ done.m1 \in Nat
          BY <1>3, <1>4, <2>2, <3>1
        <5>. HIDE DEF rows
        <5>2. \E q \in Selected(raw, m1, Width1m, before) :
                /\ q.src = x.src /\ Bucket(q.ts, Width1m) = Bucket(x.ts, Width1m)
                /\ SamplesOf(raw, GroupOf(Selected(raw, m1, Width1m, before), q, Width1m))
                   >= Cardinality(Peers(x, Width1m))
          BY <1>5, <4>2, <4>3, <4>4, <5>1, FinalGroupCounts
        <5>. QED
          BY <5>2 DEF rows
      <4>6. PICK r \in BagToSet(m1') :
                /\ r.src = x.src /\ r.ts = Bucket(x.ts, Width1m)
                /\ r.n = SamplesOf(raw, GroupOf(rows, q, Width1m))
        <5>1. /\ IsTable(raw) /\ IsTable(m1) /\ Width1m \in Nat \ {0}
              /\ m1' = Aggregated(raw, m1, Width1m, before)
          BY <1>3, <1>4, <2>1
        <5>. QED
          BY <2>2, <4>5, <5>1, GroupIsRow
      <4>7. rows \in SUBSET BagToSet(raw)
        BY DEF Selected
      <4>. HIDE DEF rows
      <4>8. SamplesOf(raw, GroupOf(rows, q, Width1m)) <= Cardinality(Peers(x, Width1m))
        <5>1. rows \subseteq sampled /\ \A p \in rows : p.n = 1 /\ raw[p] = 1
          BY <1>3, <4>7
        <5>. QED
          BY <1>3, <1>4, <3>1, <4>5, <4>7, <5>1, RawGroupIsPeers
      <4>9. r.n = Cardinality(Peers(x, Width1m))
        <5>1. SamplesOf(raw, GroupOf(rows, q, Width1m)) \in Nat
          <6>1. GroupOf(rows, q, Width1m) \in SUBSET BagToSet(raw)
            BY <4>7 DEF GroupOf
          <6>. QED
            BY <1>3, <6>1, BehindIsFinite
        <5>2. Cardinality(Peers(x, Width1m)) \in Nat
          BY <1>3, PeersAreSampled
        <5>. QED
          BY <4>5, <4>6, <4>8, <5>1, <5>2
      <4>. QED
        BY <3>1, <4>6, <4>9 DEF RowsOf
    <3>. QED
      BY <3>2, <3>3
  <2>6. Counted1m'
    BY <2>5 DEF Counted1m, RowsOf, BagToSet, Bucket
  <2>. QED
    BY <2>3, <2>6 DEF BucketsOf, BagToSet, Bucket
<1>10. CASE Purge1m
  <2>1. m1' \in Purged(m1, Keep1m) /\ up /\ purge.wake <= now /\ done' = done
    BY <1>10 DEF Purge1m, PurgeDue, history
  <2>2. \A t \in Nat : t + Keep1m < now => t + Width5m <= done.m5
    BY <1>1, <2>1, OldRowsAreDone
  <2>3. ASSUME NEW x \in sampled', NEW r \in BagToSet(m1), r.ts = Bucket(x.ts, Width1m),
               \/ Bucket(x.ts, Width1m) + Keep1m >= now
               \/ Bucket(x.ts, Width1m) + Width5m > done.m5
        PROVE  r \in BagToSet(m1')
    <3>1. Bucket(x.ts, Width1m) \in Nat
      BY <1>3, <1>4, InBucket
    <3>. QED
      BY <1>3, <1>4, <2>1, <2>2, <2>3, <3>1, PurgeLeaves
  <2>4. BagToSet(m1') \subseteq BagToSet(m1)
    BY <1>3, <1>4, <2>1, PurgeTakesOld
  <2>5. BucketsOf(m1', Width1m, done'.m1)
    BY <1>5, <2>1, <2>4 DEF BucketsOf
  <2>. QED
    BY <1>8, <2>1, <2>3, <2>5 DEF BucketsOf, BagToSet, Bucket
<1>11. CASE ~(RawTo1m \/ Purge1m)
  <2>1. m1' = m1
    BY <1>11 DEF Next, InsertRaw, OneTo5m, FiveTo1h, LoopFails, PurgeRaw, Purge5m,
           PurgeFails, Stop, Start, Tick, vars, tables
  <2>2. Counted1m'
    BY <1>6, <1>8, <1>11, <2>1
  <2>. QED
    BY <1>5, <1>6, <1>11, <2>1, <2>2 DEF BucketsOf, BagToSet, Bucket
<1>. QED
  BY <1>9, <1>10, <1>11

\* The 5m table: an aggregation of the 1m rows makes no bucket final whose 1m
\* buckets are not, and these are still counted then.
LEMMA FivesStayCounted ==
    ASSUME CountInv, PurgeIsLate, RowsAreLate, [Next]_vars
    PROVE  Counted5m' /\ BucketsOf(m5, Width5m, done.m5)'
<1>1. HoursInv /\ RowsAreBuckets /\ Counted1m /\ Counted5m
  BY DEF CountInv
<1>2. /\ StorageTyped /\ StorageTyped' /\ PurgeInv /\ HoursInv'
      /\ done.m1 <= done'.m1 /\ done.m5 <= done'.m5 /\ done.h1 <= done'.h1 /\ now <= now'
  BY <1>1, StepsInOrder
<1>3. /\ IsTable(m1) /\ IsTable(m5)
      /\ sampled \subseteq Row /\ IsFiniteSet(sampled)
      /\ \A x \in sampled : x.ts \in Nat
      /\ \A x \in sampled' : x.ts \in Nat
      /\ now \in Nat /\ now' \in Nat
      /\ done.m1 \in Nat /\ done.m5 \in Nat /\ done.h1 \in Nat
      /\ done'.m5 \in Nat /\ done'.h1 \in Nat
  <2>1. /\ \A x \in sampled' : x.ts \in Nat
        /\ now' \in Nat /\ done'.m5 \in Nat /\ done'.h1 \in Nat
    BY <1>2, DownsampleAssumption DEF StorageTyped, SamplesTyped, HistoryTyped, Row
  <2>. QED
    BY <1>2, <2>1, CountTypes
<1>4. /\ Width1m \in Nat \ {0} /\ Width5m \in Nat \ {0} /\ Width1h \in Nat \ {0}
      /\ Keep5m \in Nat /\ Lag5m \in Nat
  BY DownsampleAssumption
<1>5. BucketsOf(m5, Width5m, done.m5) /\ BucketsOf(m1, Width1m, done.m1)
  BY <1>1 DEF RowsAreBuckets
<1>6. done.m5 <= done.m1
  BY <1>1, <1>2, <1>3 DEF HoursInv, HoursInOrder, PurgeInv, DoneInOrder
<1>7. ASSUME ~OneTo5m PROVE done'.m5 = done.m5
  BY <1>2, <1>7, CountTypes DEF Next, InsertRaw, RawTo1m, FiveTo1h, LoopFails, PurgeRaw, Purge1m,
     Purge5m, PurgeFails, Stop, Start, Tick, vars, history
<1>8. ASSUME NEW x \in sampled', Bucket(x.ts, Width5m) + Width5m <= done.m5,
             \/ Bucket(x.ts, Width5m) + Keep5m >= now'
             \/ Bucket(x.ts, Width5m) + Width1h > done'.h1
      PROVE  /\ \/ Bucket(x.ts, Width5m) + Keep5m >= now
                \/ Bucket(x.ts, Width5m) + Width1h > done.h1
             /\ \E r \in RowsOf(m5, x, Width5m) : r.n >= Cardinality(Peers(x, Width5m))
  <2>1. Bucket(x.ts, Width5m) \in Nat
    BY <1>3, <1>4, InBucket
  <2>2. x \in sampled
    <3>1. Bucket(x.ts, Width5m) + Width5m <= done.m1
      BY <1>3, <1>4, <1>6, <1>8, <2>1
    <3>. QED
      BY <1>2, <1>4, <3>1, FinalPeersStay
  <2>3. \/ Bucket(x.ts, Width5m) + Keep5m >= now
        \/ Bucket(x.ts, Width5m) + Width1h > done.h1
    BY <1>2, <1>3, <1>4, <1>8, <2>1
  <2>. QED
    BY <1>1, <1>8, <2>2, <2>3 DEF Counted5m
<1>9. ASSUME done'.m5 = done.m5,
             \A x \in sampled', r \in BagToSet(m5) :
                /\ r.ts = Bucket(x.ts, Width5m)
                /\ \/ Bucket(x.ts, Width5m) + Keep5m >= now
                   \/ Bucket(x.ts, Width5m) + Width1h > done.h1
                => r \in BagToSet(m5')
      PROVE  Counted5m'
  <2>1. ASSUME NEW x \in sampled', Bucket(x.ts, Width5m) + Width5m <= done'.m5,
             \/ Bucket(x.ts, Width5m) + Keep5m >= now'
             \/ Bucket(x.ts, Width5m) + Width1h > done'.h1
        PROVE  \E r \in RowsOf(m5', x, Width5m) : r.n >= Cardinality(Peers(x, Width5m)')
    <3>1. PICK r \in RowsOf(m5, x, Width5m) : r.n >= Cardinality(Peers(x, Width5m))
      BY <1>8, <1>9, <2>1
    <3>2. r \in BagToSet(m5')
      <4>1. r \in BagToSet(m5) /\ r.ts = Bucket(x.ts, Width5m)
        BY DEF RowsOf
      <4>. QED
        BY <1>8, <1>9, <2>1, <4>1
    <3>3. Bucket(x.ts, Width5m) + Width5m <= done.m1
      <4>1. Bucket(x.ts, Width5m) \in Nat
        BY <1>3, <1>4, InBucket
      <4>. QED
        BY <1>3, <1>4, <1>6, <1>9, <2>1, <4>1
    <3>4. r \in RowsOf(m5', x, Width5m) /\ Peers(x, Width5m)' = Peers(x, Width5m)
      BY <1>2, <1>4, <3>2, <3>3, RowStays
    <3>. QED
      BY <3>1, <3>4
  <2>. QED
    BY <2>1 DEF Counted5m, RowsOf, BagToSet, Bucket
<1>10. CASE OneTo5m
  <2>. DEFINE before == Before(Lag5m)
  <2>1. /\ done'.m5 = Min({before, done.m1}) /\ sampled' = sampled
        /\ m5' = Aggregated(m1, m5, Width5m, before)
        /\ now' = now
    BY <1>2, <1>10, CountTypes DEF OneTo5m
  <2>2. before \in Nat
    BY <1>2, <1>4, BeforeIsPast DEF StorageTyped
  <2>. HIDE DEF before
  <2>3. done'.m5 = IF before <= done.m1 THEN before ELSE done.m1
    BY <1>3, <2>1, <2>2, MinOfTwo
  <2>4. \A q \in BagToSet(m1) : q.ts < before => q.ts < done'.m5
    BY <1>5, <2>3 DEF BucketsOf
  <2>5. BucketsOf(m5', Width5m, done'.m5)
    <3>1. BucketsOf(Aggregated(m1, m5, Width5m, before), Width5m, done'.m5)
      BY <1>2, <1>3, <1>4, <1>5, <2>2, <2>4, AggregatedBuckets
    <3>. QED
      BY <2>1, <3>1
  <2>6. BagToSet(m5) \subseteq BagToSet(m5')
    <3>1. /\ IsTable(m1) /\ IsTable(m5) /\ Width5m \in Nat \ {0}
          /\ m5' = Aggregated(m1, m5, Width5m, before)
      BY <1>3, <1>4, <2>1
    <3>2. BagToSet(m5') = BagToSet(m5) \cup Grouped(m1, Selected(m1, m5, Width5m, before), Width5m)
      BY <2>2, <3>1, AggregationAdds
    <3>. QED
      BY <3>2
  <2>7. ASSUME NEW x \in sampled', Bucket(x.ts, Width5m) + Width5m <= done'.m5,
             \/ Bucket(x.ts, Width5m) + Keep5m >= now'
             \/ Bucket(x.ts, Width5m) + Width1h > done'.h1
        PROVE  \E r \in RowsOf(m5', x, Width5m) : r.n >= Cardinality(Peers(x, Width5m)')
    <3>1. Peers(x, Width5m)' = Peers(x, Width5m) /\ x \in sampled
      BY <1>2, <1>4, <2>1, FinalPeersStay
    <3>2. CASE Bucket(x.ts, Width5m) + Width5m <= done.m5
      <4>1. PICK r \in RowsOf(m5, x, Width5m) : r.n >= Cardinality(Peers(x, Width5m))
        BY <1>8, <2>7, <3>2
      <4>2. r \in RowsOf(m5', x, Width5m)
        BY <2>6 DEF RowsOf
      <4>. QED
        BY <3>1, <4>1, <4>2
    <3>3. CASE ~(Bucket(x.ts, Width5m) + Width5m <= done.m5)
      <4>. DEFINE rows == Selected(m1, m5, Width5m, before)
                  b == Bucket(x.ts, Width5m)
      <4>1. b \in Nat
        BY <1>3, <1>4, <3>1, InBucket
      <4>2. done.m5 < b + Width5m /\ b + Width5m <= before /\ b + Width5m <= done.m1
        <5>. HIDE DEF b
        <5>1. ~(b + Width5m <= done.m5) /\ b + Width5m <= done'.m5
          BY <2>7, <3>3 DEF b
        <5>. QED
          BY <1>3, <1>4, <2>2, <2>3, <4>1, <5>1
      <4>. HIDE DEF b
      <4>3. PICK k \in Nat : Width5m = k * Width1m
        BY DEF RowsAreLate
      <4>4. ASSUME NEW y \in Peers(x, Width5m)
            PROVE  \E q \in BagToSet(m1) :
                       /\ q.src = y.src /\ q.ts = Bucket(y.ts, Width1m)
                       /\ q.n >= Cardinality(Peers(y, Width1m))
        <5>. DEFINE c == Bucket(y.ts, Width1m)
        <5>1. y \in sampled /\ y.ts \in Nat /\ Bucket(y.ts, Width5m) = b
          BY <1>3 DEF Peers, b
        <5>2. c \in Nat /\ b <= c /\ c + Width1m <= b + Width5m
          <6>1. \A t \in Nat : /\ Bucket(t, Width5m) <= Bucket(t, Width1m)
                               /\ Bucket(t, Width1m) + Width1m <= Bucket(t, Width5m) + Width5m
            BY <1>4, <4>3, NestedBuckets
          <6>2. c \in Nat
            BY <1>4, <5>1, InBucket
          <6>. QED
            BY <5>1, <6>1, <6>2
        <5>. HIDE DEF c
        <5>3. c + Width1m <= done.m1 /\ c + Width5m > done.m5
          BY <1>3, <1>4, <4>1, <4>2, <5>2
        <5>4. \E q \in RowsOf(m1, y, Width1m) : q.n >= Cardinality(Peers(y, Width1m))
          <6>1. \E q \in RowsOf(m1, y, Width1m) : q.n = Cardinality(Peers(y, Width1m))
            BY <1>1, <5>1, <5>3 DEF Counted1m, c
          <6>2. Cardinality(Peers(y, Width1m)) \in Nat
            BY <1>3, PeersAreSampled
          <6>. QED
            BY <6>1, <6>2
        <5>. QED
          BY <5>4 DEF RowsOf
      <4>5. PICK q \in rows :
                /\ q.src = x.src /\ Bucket(q.ts, Width5m) = Bucket(x.ts, Width5m)
                /\ SamplesOf(m1, GroupOf(rows, q, Width5m)) >= Cardinality(Peers(x, Width5m))
        <5>1. /\ sampled \subseteq Row /\ IsFiniteSet(sampled)
              /\ IsTable(m1) /\ IsTable(m5) /\ x \in sampled
              /\ Width1m \in Nat \ {0} /\ Width5m \in Nat \ {0}
              /\ before \in Nat /\ done.m5 \in Nat
              /\ BucketsOf(m5, Width5m, done.m5)
          BY <1>3, <1>4, <1>5, <2>2, <3>1
        <5>2. \E i \in Nat : Width5m = i * Width1m
          BY DEF RowsAreLate
        <5>3. done.m5 < Bucket(x.ts, Width5m) + Width5m /\ Bucket(x.ts, Width5m) + Width5m <= before
          BY <4>2 DEF b
        <5>. HIDE DEF rows
        <5>4. \E q \in Selected(m1, m5, Width5m, before) :
                /\ q.src = x.src /\ Bucket(q.ts, Width5m) = Bucket(x.ts, Width5m)
                /\ SamplesOf(m1, GroupOf(Selected(m1, m5, Width5m, before), q, Width5m))
                   >= Cardinality(Peers(x, Width5m))
          BY <4>4, <5>1, <5>2, <5>3, FinalGroupCounts
        <5>. QED
          BY <5>4 DEF rows
      <4>6. PICK r \in BagToSet(m5') :
                /\ r.src = x.src /\ r.ts = Bucket(x.ts, Width5m)
                /\ r.n = SamplesOf(m1, GroupOf(rows, q, Width5m))
        <5>1. /\ IsTable(m1) /\ IsTable(m5) /\ Width5m \in Nat \ {0}
              /\ m5' = Aggregated(m1, m5, Width5m, before)
          BY <1>3, <1>4, <2>1
        <5>. QED
          BY <2>2, <4>5, <5>1, GroupIsRow
      <4>. QED
        BY <3>1, <4>5, <4>6 DEF RowsOf
    <3>. QED
      BY <3>2, <3>3
  <2>8. Counted5m'
    BY <2>7 DEF Counted5m, RowsOf, BagToSet, Bucket
  <2>. QED
    BY <2>5, <2>8 DEF BucketsOf, BagToSet, Bucket
<1>11. CASE Purge5m
  <2>1. m5' \in Purged(m5, Keep5m) /\ up /\ purge.wake <= now /\ done' = done
    BY <1>11 DEF Purge5m, PurgeDue, history
  <2>2. \A t \in Nat : t + Keep5m < now => t + Width1h <= done.h1
    BY <1>1, <2>1, OldRowsAreDone
  <2>3. ASSUME NEW x \in sampled', NEW r \in BagToSet(m5), r.ts = Bucket(x.ts, Width5m),
               \/ Bucket(x.ts, Width5m) + Keep5m >= now
               \/ Bucket(x.ts, Width5m) + Width1h > done.h1
        PROVE  r \in BagToSet(m5')
    <3>1. Bucket(x.ts, Width5m) \in Nat
      BY <1>3, <1>4, InBucket
    <3>. QED
      BY <1>3, <1>4, <2>1, <2>2, <2>3, <3>1, PurgeLeaves
  <2>4. BagToSet(m5') \subseteq BagToSet(m5)
    BY <1>3, <1>4, <2>1, PurgeTakesOld
  <2>5. BucketsOf(m5', Width5m, done'.m5)
    BY <1>5, <2>1, <2>4 DEF BucketsOf
  <2>. QED
    BY <1>9, <2>1, <2>3, <2>5 DEF BucketsOf, BagToSet, Bucket
<1>12. CASE ~(OneTo5m \/ Purge5m)
  <2>1. m5' = m5
    BY <1>12 DEF Next, InsertRaw, RawTo1m, FiveTo1h, LoopFails, PurgeRaw, Purge1m,
           PurgeFails, Stop, Start, Tick, vars, tables
  <2>2. Counted5m'
    BY <1>7, <1>9, <1>12, <2>1
  <2>. QED
    BY <1>5, <1>7, <1>12, <2>1, <2>2 DEF BucketsOf, BagToSet, Bucket
<1>. QED
  BY <1>10, <1>11, <1>12

\* The 1h table, which is never purged, in the same way from the 5m rows.
LEMMA HoursStayCounted ==
    ASSUME CountInv, PurgeIsLate, RowsAreLate, [Next]_vars
    PROVE  Counted1h' /\ BucketsOf(h1, Width1h, done.h1)'
<1>1. HoursInv /\ RowsAreBuckets /\ Counted5m /\ Counted1h
  BY DEF CountInv
<1>2. /\ StorageTyped /\ StorageTyped' /\ PurgeInv /\ HoursInv'
      /\ done.m1 <= done'.m1 /\ done.m5 <= done'.m5 /\ done.h1 <= done'.h1 /\ now <= now'
  BY <1>1, StepsInOrder
<1>3. /\ IsTable(m5) /\ IsTable(h1)
      /\ sampled \subseteq Row /\ IsFiniteSet(sampled)
      /\ \A x \in sampled : x.ts \in Nat
      /\ \A x \in sampled' : x.ts \in Nat
      /\ now \in Nat /\ now' \in Nat
      /\ done.m1 \in Nat /\ done.m5 \in Nat /\ done.h1 \in Nat
      /\ done'.m5 \in Nat /\ done'.h1 \in Nat
  <2>1. /\ \A x \in sampled' : x.ts \in Nat
        /\ now' \in Nat /\ done'.m5 \in Nat /\ done'.h1 \in Nat
    BY <1>2, DownsampleAssumption DEF StorageTyped, SamplesTyped, HistoryTyped, Row
  <2>. QED
    BY <1>2, <2>1, CountTypes
<1>4. /\ Width5m \in Nat \ {0} /\ Width1h \in Nat \ {0} /\ Width1h \in Nat \ {0}
      /\ Keep5m \in Nat /\ Lag1h \in Nat
  BY DownsampleAssumption
<1>5. BucketsOf(h1, Width1h, done.h1) /\ BucketsOf(m5, Width5m, done.m5)
  BY <1>1 DEF RowsAreBuckets
<1>6. done.h1 <= done.m1
  BY <1>1, <1>2, <1>3 DEF HoursInv, HoursInOrder, PurgeInv, DoneInOrder
<1>7. ASSUME ~FiveTo1h PROVE done'.h1 = done.h1
  BY <1>2, <1>7, CountTypes DEF Next, InsertRaw, RawTo1m, OneTo5m, LoopFails, PurgeRaw, Purge1m,
     Purge5m, PurgeFails, Stop, Start, Tick, vars, history
<1>8. ASSUME NEW x \in sampled', Bucket(x.ts, Width1h) + Width1h <= done.h1
      PROVE  \E r \in RowsOf(h1, x, Width1h) : r.n >= Cardinality(Peers(x, Width1h))
  <2>1. Bucket(x.ts, Width1h) \in Nat
    BY <1>3, <1>4, InBucket
  <2>2. x \in sampled
    <3>1. Bucket(x.ts, Width1h) + Width1h <= done.m1
      BY <1>3, <1>4, <1>6, <1>8, <2>1
    <3>. QED
      BY <1>2, <1>4, <3>1, FinalPeersStay
  <2>. QED
    BY <1>1, <1>8, <2>2 DEF Counted1h
<1>9. ASSUME done'.h1 = done.h1,
             BagToSet(h1) \subseteq BagToSet(h1')
      PROVE  Counted1h'
  <2>1. ASSUME NEW x \in sampled', Bucket(x.ts, Width1h) + Width1h <= done'.h1
        PROVE  \E r \in RowsOf(h1', x, Width1h) : r.n >= Cardinality(Peers(x, Width1h)')
    <3>1. PICK r \in RowsOf(h1, x, Width1h) : r.n >= Cardinality(Peers(x, Width1h))
      BY <1>8, <1>9, <2>1
    <3>2. r \in BagToSet(h1')
      <4>1. r \in BagToSet(h1) /\ r.ts = Bucket(x.ts, Width1h)
        BY DEF RowsOf
      <4>. QED
        BY <1>8, <1>9, <2>1, <4>1
    <3>3. Bucket(x.ts, Width1h) + Width1h <= done.m1
      <4>1. Bucket(x.ts, Width1h) \in Nat
        BY <1>3, <1>4, InBucket
      <4>. QED
        BY <1>3, <1>4, <1>6, <1>9, <2>1, <4>1
    <3>4. r \in RowsOf(h1', x, Width1h) /\ Peers(x, Width1h)' = Peers(x, Width1h)
      BY <1>2, <1>4, <3>2, <3>3, RowStays
    <3>. QED
      BY <3>1, <3>4
  <2>. QED
    BY <2>1 DEF Counted1h, RowsOf, BagToSet, Bucket
<1>10. CASE FiveTo1h
  <2>. DEFINE before == Before(Lag1h)
  <2>1. /\ done'.h1 = Min({before, done.m5}) /\ sampled' = sampled
        /\ h1' = Aggregated(m5, h1, Width1h, before)
        /\ now' = now
    BY <1>2, <1>10, CountTypes DEF FiveTo1h
  <2>2. before \in Nat
    BY <1>2, <1>4, BeforeIsPast DEF StorageTyped
  <2>. HIDE DEF before
  <2>3. done'.h1 = IF before <= done.m5 THEN before ELSE done.m5
    BY <1>3, <2>1, <2>2, MinOfTwo
  <2>4. \A q \in BagToSet(m5) : q.ts < before => q.ts < done'.h1
    BY <1>5, <2>3 DEF BucketsOf
  <2>5. BucketsOf(h1', Width1h, done'.h1)
    <3>1. BucketsOf(Aggregated(m5, h1, Width1h, before), Width1h, done'.h1)
      BY <1>2, <1>3, <1>4, <1>5, <2>2, <2>4, AggregatedBuckets
    <3>. QED
      BY <2>1, <3>1
  <2>6. BagToSet(h1) \subseteq BagToSet(h1')
    <3>1. /\ IsTable(m5) /\ IsTable(h1) /\ Width1h \in Nat \ {0}
          /\ h1' = Aggregated(m5, h1, Width1h, before)
      BY <1>3, <1>4, <2>1
    <3>2. BagToSet(h1') = BagToSet(h1) \cup Grouped(m5, Selected(m5, h1, Width1h, before), Width1h)
      BY <2>2, <3>1, AggregationAdds
    <3>. QED
      BY <3>2
  <2>7. ASSUME NEW x \in sampled', Bucket(x.ts, Width1h) + Width1h <= done'.h1
        PROVE  \E r \in RowsOf(h1', x, Width1h) : r.n >= Cardinality(Peers(x, Width1h)')
    <3>1. Peers(x, Width1h)' = Peers(x, Width1h) /\ x \in sampled
      BY <1>2, <1>4, <2>1, FinalPeersStay
    <3>2. CASE Bucket(x.ts, Width1h) + Width1h <= done.h1
      <4>1. PICK r \in RowsOf(h1, x, Width1h) : r.n >= Cardinality(Peers(x, Width1h))
        BY <1>8, <2>7, <3>2
      <4>2. r \in RowsOf(h1', x, Width1h)
        BY <2>6 DEF RowsOf
      <4>. QED
        BY <3>1, <4>1, <4>2
    <3>3. CASE ~(Bucket(x.ts, Width1h) + Width1h <= done.h1)
      <4>. DEFINE rows == Selected(m5, h1, Width1h, before)
                  b == Bucket(x.ts, Width1h)
      <4>1. b \in Nat
        BY <1>3, <1>4, <3>1, InBucket
      <4>2. done.h1 < b + Width1h /\ b + Width1h <= before /\ b + Width1h <= done.m5
        <5>. HIDE DEF b
        <5>1. ~(b + Width1h <= done.h1) /\ b + Width1h <= done'.h1
          BY <2>7, <3>3 DEF b
        <5>. QED
          BY <1>3, <1>4, <2>2, <2>3, <4>1, <5>1
      <4>. HIDE DEF b
      <4>3. PICK k \in Nat : Width1h = k * Width5m
        BY DEF RowsAreLate
      <4>4. ASSUME NEW y \in Peers(x, Width1h)
            PROVE  \E q \in BagToSet(m5) :
                       /\ q.src = y.src /\ q.ts = Bucket(y.ts, Width5m)
                       /\ q.n >= Cardinality(Peers(y, Width5m))
        <5>. DEFINE c == Bucket(y.ts, Width5m)
        <5>1. y \in sampled /\ y.ts \in Nat /\ Bucket(y.ts, Width1h) = b
          BY <1>3 DEF Peers, b
        <5>2. c \in Nat /\ b <= c /\ c + Width5m <= b + Width1h
          <6>1. \A t \in Nat : /\ Bucket(t, Width1h) <= Bucket(t, Width5m)
                               /\ Bucket(t, Width5m) + Width5m <= Bucket(t, Width1h) + Width1h
            BY <1>4, <4>3, NestedBuckets
          <6>2. c \in Nat
            BY <1>4, <5>1, InBucket
          <6>. QED
            BY <5>1, <6>1, <6>2
        <5>. HIDE DEF c
        <5>3. c + Width5m <= done.m5 /\ c + Width1h > done.h1
          BY <1>3, <1>4, <4>1, <4>2, <5>2
        <5>4. \E q \in RowsOf(m5, y, Width5m) : q.n >= Cardinality(Peers(y, Width5m))
          BY <1>1, <5>1, <5>3 DEF Counted5m, c
        <5>. QED
          BY <5>4 DEF RowsOf
      <4>5. PICK q \in rows :
                /\ q.src = x.src /\ Bucket(q.ts, Width1h) = Bucket(x.ts, Width1h)
                /\ SamplesOf(m5, GroupOf(rows, q, Width1h)) >= Cardinality(Peers(x, Width1h))
        <5>1. /\ sampled \subseteq Row /\ IsFiniteSet(sampled)
              /\ IsTable(m5) /\ IsTable(h1) /\ x \in sampled
              /\ Width5m \in Nat \ {0} /\ Width1h \in Nat \ {0}
              /\ before \in Nat /\ done.h1 \in Nat
              /\ BucketsOf(h1, Width1h, done.h1)
          BY <1>3, <1>4, <1>5, <2>2, <3>1
        <5>2. \E i \in Nat : Width1h = i * Width5m
          BY DEF RowsAreLate
        <5>3. done.h1 < Bucket(x.ts, Width1h) + Width1h /\ Bucket(x.ts, Width1h) + Width1h <= before
          BY <4>2 DEF b
        <5>. HIDE DEF rows
        <5>4. \E q \in Selected(m5, h1, Width1h, before) :
                /\ q.src = x.src /\ Bucket(q.ts, Width1h) = Bucket(x.ts, Width1h)
                /\ SamplesOf(m5, GroupOf(Selected(m5, h1, Width1h, before), q, Width1h))
                   >= Cardinality(Peers(x, Width1h))
          BY <4>4, <5>1, <5>2, <5>3, FinalGroupCounts
        <5>. QED
          BY <5>4 DEF rows
      <4>6. PICK r \in BagToSet(h1') :
                /\ r.src = x.src /\ r.ts = Bucket(x.ts, Width1h)
                /\ r.n = SamplesOf(m5, GroupOf(rows, q, Width1h))
        <5>1. /\ IsTable(m5) /\ IsTable(h1) /\ Width1h \in Nat \ {0}
              /\ h1' = Aggregated(m5, h1, Width1h, before)
          BY <1>3, <1>4, <2>1
        <5>. QED
          BY <2>2, <4>5, <5>1, GroupIsRow
      <4>. QED
        BY <3>1, <4>5, <4>6 DEF RowsOf
    <3>. QED
      BY <3>2, <3>3
  <2>8. Counted1h'
    BY <2>7 DEF Counted1h, RowsOf, BagToSet, Bucket
  <2>. QED
    BY <2>5, <2>8 DEF BucketsOf, BagToSet, Bucket
<1>12. CASE ~(FiveTo1h)
  <2>1. h1' = h1
    BY <1>12 DEF Next, InsertRaw, RawTo1m, OneTo5m, LoopFails, PurgeRaw, Purge1m, Purge5m,
           PurgeFails, Stop, Start, Tick, vars, tables
  <2>2. Counted1h'
    BY <1>7, <1>9, <1>12, <2>1
  <2>. QED
    BY <1>5, <1>7, <1>12, <2>1, <2>2 DEF BucketsOf, BagToSet, Bucket
<1>. QED
  BY <1>10, <1>12

\* Every step keeps what is final counted.
LEMMA CountInvStep == PurgeIsLate /\ RowsAreLate /\ CountInv /\ [Next]_vars => CountInv'
<1>. SUFFICES ASSUME PurgeIsLate, RowsAreLate, CountInv, [Next]_vars PROVE CountInv'
  OBVIOUS
<1>1. HoursInv'
  BY StepsInOrder DEF CountInv
<1>2. /\ Counted1m' /\ BucketsOf(m1, Width1m, done.m1)'
      /\ Counted5m' /\ BucketsOf(m5, Width5m, done.m5)'
      /\ Counted1h' /\ BucketsOf(h1, Width1h, done.h1)'
  BY MinutesStayCounted, FivesStayCounted, HoursStayCounted
<1>. QED
  BY <1>1, <1>2 DEF CountInv, RowsAreBuckets

\* At the start there is nothing to count.
LEMMA CountInvStart == PurgeIsLate /\ RowsAreLate /\ Init => CountInv
<1>. SUFFICES ASSUME PurgeIsLate, RowsAreLate, Init PROVE CountInv
  OBVIOUS
<1>1. PurgeInv /\ StorageTyped
  BY PurgeInvStart DEF PurgeInv
<1>2. /\ now = 0 /\ loop.wake = 0 /\ loop.next = "raw_to_1m"
      /\ sampled = {} /\ done.m5 = 0 /\ done.h1 = 0 /\ faults = 0
  BY DEF Init
<1>3. HoursInOrder
  BY <1>1, <1>2, TimesAreNumbers DEF HoursInOrder
<1>4. FiveRecentlyDone
  <2>1. HourDue = Pause1m + Pause5m
    BY <1>1, <1>2, TimesAreNumbers DEF HourDue
  <2>2. Delay(faults, Period) \in Nat
    BY <1>1, TimesAreNumbers, DelayAdds
  <2>. QED
    BY <1>1, <1>2, <2>1, <2>2, TimesAreNumbers, HoursAreNumbers DEF FiveRecentlyDone, Period
<1>5. RowsAreBuckets
  BY DEF Init, RowsAreBuckets, BucketsOf, EmptyBag, SetToBag, BagToSet
<1>. QED
  BY <1>1, <1>2, <1>3, <1>4, <1>5 DEF CountInv, HoursInv, Counted1m, Counted5m, Counted1h

\* With such settings every bucket that is final has a row, in every table, that
\* counts its samples: the 1m row exactly, the coarser ones at least all of them,
\* although each aggregation starts over at the newest bucket of its table, rows are
\* purged by age alone, statements fail and the server stops.
THEOREM FinishedBucketsAreCounted ==
    ASSUME PurgeIsLate, RowsAreLate
    PROVE  Spec => []FinishedIsCounted
<1>1. CountInv => FinishedIsCounted
  BY DEF CountInv, Counted1m, Counted5m, Counted1h, FinishedIsCounted
<1>2. Init => CountInv
  BY CountInvStart
<1>3. CountInv /\ [Next]_vars => CountInv'
  BY CountInvStep
<1>. QED
  BY <1>1, <1>2, <1>3, PTL DEF Spec

-----------------------------------------------------------------------------
(* The settings of config.py and of the SQL in downsample.py, in seconds.  *)

ShippedSettings ==
    /\ Width1m = 60 /\ Width5m = 300 /\ Width1h = 3600
    /\ Lag1m = 120 /\ Lag5m = 600 /\ Lag1h = 7200
    /\ Pause1m = 60 /\ Pause5m = 240 /\ Pause1h = 60
    /\ KeepRaw = 24 * 3600 /\ Keep1m = 7 * 86400 /\ Keep5m = 30 * 86400
    /\ PurgeInterval = 600
    /\ \A s \in Sources : MaxLate[s] <= 120

\* As shipped, nothing is purged before its aggregation when at most five statements fail
\* or stops happen between two whole rounds of _downsample_loop, and every sample of a
\* final bucket is counted when it is at most one.
THEOREM ShippedSettingsSuffice ==
    ASSUME ShippedSettings
    PROVE  /\ MaxFaults <= 5 => (Spec => []PurgedIsAggregated)
           /\ MaxFaults <= 1 => (Spec => []FinishedIsCounted)
<1>. DEFINE f == MaxFaults
<1>1. f \in Nat
  BY DownsampleAssumption
<1>2. f <= 5 => PurgeIsLate
  BY <1>1 DEF ShippedSettings, PurgeIsLate, Period, Delay
<1>3. f <= 1 => RowsAreLate
  <2>1. Width5m = 5 * Width1m /\ Width1h = 12 * Width5m
    BY DEF ShippedSettings
  <2>2. /\ \E k \in Nat : Width5m = k * Width1m
        /\ \E k \in Nat : Width1h = k * Width5m
    BY <2>1
  <2>. QED
    BY <1>1, <2>2 DEF ShippedSettings, RowsAreLate, Period, Delay
<1>4. f <= 5 => (Spec => []PurgedIsAggregated)
  BY <1>2, PurgesFollowAggregation
<1>5. f <= 1 => (Spec => []FinishedIsCounted)
  BY <1>1, <1>2, <1>3, FinishedBucketsAreCounted
<1>. QED
  BY <1>4, <1>5

=============================================================================
