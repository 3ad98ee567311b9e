------------------------------- MODULE StoresProofs -------------------------------
(***************************************************************************)
(* Theorems about what scans, scripts and runbooks leave in the database,  *)
(* and what is made of the logs in it: Inventory, for any hosts, scanners, *)
(* items and visits; CustomMetrics, for any names, scripts, runners and    *)
(* number of definitions; Runbooks, for any runbooks, target lists and     *)
(* number of requests; LogPatterns, for any patterns, delays and batches.  *)
(***************************************************************************)
EXTENDS Inventory, CustomMetrics, Runbooks, LogPatterns, FiniteSetTheorems, TLAPS

-----------------------------------------------------------------------------
(* Inventory.  Each store has its own way to merge what a scan finds into   *)
(* what is there, and none holds a lock from its first statement to its     *)
(* last.  The inductive invariant keeps, for each way, what its last        *)
(* statement relies on, and that a host whose scans overlap is in mixed.    *)

\* Only _store_backups clears a host's rows, only _store_keys looks a row up first.
StagesFit ==
    \A w \in Scanners : /\ scanner[w].pc = "clear" => store = "backups"
                        /\ scanner[w].pc = "insert" => store = "keys"

\* Two scans that store what they found on one host overlap.
OverlapsAreMixed ==
    \A v, w \in Scanners :
        v # w /\ Storing(v) /\ Storing(w) /\ scanner[v].of = scanner[w].of => scanner[v].of \in mixed

\* While _store_backups inserts, the host's rows are its own.
PutsFollowClear ==
    store = "backups" =>
        \A w \in Scanners : scanner[w].pc = "put" /\ scanner[w].of \notin mixed =>
            \A r \in rows : r.of = scanner[w].of => r.visit = scanner[w].visit

\* While _store_keys is about to insert a key, the host has no row of it.
InsertsAreNew ==
    store = "keys" =>
        \A w \in Scanners : scanner[w].pc = "insert" /\ scanner[w].of \notin mixed =>
            Existing(scanner[w].of, scanner[w].item) = {}

StoreInv ==
    /\ InventoryTypeOK /\ StagesFit /\ OverlapsAreMixed /\ PutsFollowClear /\ InsertsAreNew
    /\ StoredOnce

ItemScanner == [pc : {"put", "insert"}, of : HostsSeen, visit : 1..MaxScans,
                todo : SUBSET Items, item : Items]

\* A scan that found no row of its key stays with the key.
LEMMA KeyIsNew ==
    \A r \in ItemScanner : LET s == [r EXCEPT !.pc = "insert"] IN
        s \in Scanner /\ s.pc = "insert" /\ s.of = r.of /\ s.item = r.item /\ s.visit = r.visit
  BY DEF ItemScanner, Scanner

\* What a scanner's record holds at each of its places.
LEMMA ScannerShape ==
    ASSUME InventoryTypeOK, NEW w \in Scanners
    PROVE  /\ scanner[w].pc \in {"rest", "probe", "clear", "put", "insert"}
           /\ scanner[w].pc # "rest" => scanner[w].of \in HostsSeen /\ scanner[w].visit \in 1..MaxScans
           /\ Storing(w) => scanner[w].todo \subseteq Items
           /\ scanner[w].pc \in {"put", "insert"} =>
                /\ scanner[w].item \in Items
                /\ scanner[w] \in ItemScanner
                /\ \A i \in Items : NewRow(w, i) \in InventoryRow
  BY DEF InventoryTypeOK, Scanner, Storing, NewRow, InventoryRow, ItemScanner

\* The next item or the end of a visit: the scanner stays on its host.
LEMMA NextItem ==
    ASSUME InventoryTypeOK, NEW w \in Scanners, scanner[w].pc # "rest",
           NEW todo \in SUBSET Items, PutNext(w, todo)
    PROVE  /\ scanner' \in [Scanners -> Scanner]
           /\ \A v \in Scanners \ {w} : scanner'[v] = scanner[v]
           /\ scanner'[w].pc \in {"rest", "put"}
           /\ scanner'[w].pc = "put" => /\ scanner'[w].of = scanner[w].of
                                        /\ scanner'[w].visit = scanner[w].visit
<1>1. CASE scanner' = [scanner EXCEPT ![w] = Resting]
  BY <1>1 DEF InventoryTypeOK, Resting, Scanner
<1>2. ASSUME NEW i \in todo,
             scanner' = [scanner EXCEPT ![w] =
                [pc |-> "put", of |-> scanner[w].of, visit |-> scanner[w].visit,
                 todo |-> todo \ {i}, item |-> i]]
      PROVE  /\ scanner' \in [Scanners -> Scanner]
             /\ \A v \in Scanners \ {w} : scanner'[v] = scanner[v]
             /\ scanner'[w].pc = "put" /\ scanner'[w].of = scanner[w].of
             /\ scanner'[w].visit = scanner[w].visit
  BY <1>2, ScannerShape DEF InventoryTypeOK, Scanner
<1>3. QED
  BY <1>1, <1>2 DEF PutNext, Go

\* What a step of a scan does to the rows and to its scanner, in one place.
ScanStep(w) ==
    \/ \E h \in HostsSeen : Visit(w, h)
    \/ \E items \in SUBSET Items : ScanEnds(w, items)
    \/ Clear(w) \/ Put1(w) \/ SelectKey(w) \/ InsertKey(w) \/ ScanFails(w)

\* Every step keeps the stores and scanners well typed, and a scan moves no other.
LEMMA InventoryTypes ==
    ASSUME InventoryTypeOK, [InventoryNext]_inventoryVars
    PROVE  /\ InventoryTypeOK'
           /\ \A w \in Scanners : ScanStep(w) =>
                \A v \in Scanners \ {w} : scanner'[v] = scanner[v]
<1> DEFINE Fine(w) == InventoryTypeOK' /\ \A v \in Scanners \ {w} : scanner'[v] = scanner[v]
<1>1. ASSUME NEW w \in Scanners, NEW h \in HostsSeen, Visit(w, h) PROVE Fine(w)
  <2>1. visits + 1 \in 1..MaxScans
    BY <1>1, InventoryAssumption DEF Visit, InventoryTypeOK
  <2>2. [pc |-> "probe", of |-> h, visit |-> visits + 1] \in Scanner
    BY <2>1 DEF Scanner
  <2>3. QED
    BY <1>1, <2>1, <2>2, InventoryAssumption DEF Visit, Go, InventoryTypeOK
<1>2. ASSUME NEW w \in Scanners, NEW items \in SUBSET Items, ScanEnds(w, items) PROVE Fine(w)
  <2>1. scanner[w].pc = "probe" /\ scanner[w].of \in HostsSeen /\ scanner[w].visit \in 1..MaxScans
    BY <1>2, ScannerShape DEF ScanEnds
  <2>2. [pc |-> "clear", of |-> scanner[w].of, visit |-> scanner[w].visit, todo |-> items] \in Scanner
    BY <2>1 DEF Scanner
  <2>3. scanner' \in [Scanners -> Scanner] /\ \A v \in Scanners \ {w} : scanner'[v] = scanner[v]
    BY <1>2, <2>1, <2>2, NextItem DEF ScanEnds, Go, InventoryTypeOK
  <2>4. QED
    BY <1>2, <2>1, <2>3 DEF ScanEnds, InventoryTypeOK
<1>3. ASSUME NEW w \in Scanners, Clear(w) PROVE Fine(w)
  <2>1. Storing(w) /\ scanner[w].pc # "rest" /\ scanner[w].of \in HostsSeen
    BY <1>3, ScannerShape DEF Clear, Storing
  <2>2. PutNext(w, scanner[w].todo) /\ scanner[w].todo \in SUBSET Items
    BY <1>3, <2>1, ScannerShape DEF Clear
  <2>3. QED
    BY <1>3, <2>1, <2>2, NextItem DEF Clear, Cleared, InventoryTypeOK
<1>4. ASSUME NEW w \in Scanners, Put1(w) PROVE Fine(w)
  <2>1. /\ scanner[w].pc # "rest" /\ scanner[w].todo \in SUBSET Items /\ scanner[w].item \in Items
        /\ NewRow(w, scanner[w].item) \in InventoryRow /\ PutNext(w, scanner[w].todo)
    BY <1>4, ScannerShape DEF Put1, Storing
  <2>2. rows' \subseteq rows \cup {NewRow(w, scanner[w].item)}
    BY <1>4 DEF Put1, PutRow, InventoryTypeOK, Stores
  <2>3. QED
    BY <1>4, <2>1, <2>2, NextItem DEF Put1, InventoryTypeOK
<1>5. ASSUME NEW w \in Scanners, SelectKey(w) PROVE Fine(w)
  <2>1. scanner[w].pc # "rest" /\ scanner[w].todo \in SUBSET Items
    BY <1>5, ScannerShape DEF SelectKey, Storing
  <2>2. [scanner[w] EXCEPT !.pc = "insert"] \in Scanner
    BY <1>5, ScannerShape, KeyIsNew DEF SelectKey
  <2>3. scanner' \in [Scanners -> Scanner] /\ \A v \in Scanners \ {w} : scanner'[v] = scanner[v]
    BY <1>5, <2>1, <2>2, NextItem DEF SelectKey, Go, InventoryTypeOK
  <2>4. QED
    BY <1>5, <2>3 DEF SelectKey, InventoryTypeOK
<1>6. ASSUME NEW w \in Scanners, InsertKey(w) PROVE Fine(w)
  <2>1. /\ scanner[w].pc # "rest" /\ scanner[w].todo \in SUBSET Items
        /\ NewRow(w, scanner[w].item) \in InventoryRow
    BY <1>6, ScannerShape DEF InsertKey, Storing
  <2>2. Resting \in Scanner
    BY DEF Resting, Scanner
  <2>3. scanner' \in [Scanners -> Scanner] /\ \A v \in Scanners \ {w} : scanner'[v] = scanner[v]
    BY <1>6, <2>1, <2>2, NextItem DEF InsertKey, Go, InventoryTypeOK
  <2>4. QED
    BY <1>6, <2>1, <2>3 DEF InsertKey, InventoryTypeOK
<1>7. ASSUME NEW w \in Scanners, ScanFails(w) PROVE Fine(w)
  BY <1>7 DEF ScanFails, Go, Resting, Scanner, InventoryTypeOK
<1>8. \A w \in Scanners : ScanStep(w) => Fine(w)
  BY <1>1, <1>2, <1>3, <1>4, <1>5, <1>6, <1>7 DEF ScanStep
<1>9. CASE \E r \in rows : DeleteJob(r)
  BY <1>8, <1>9 DEF DeleteJob, InventoryTypeOK
<1>10. CASE UNCHANGED inventoryVars
  BY <1>8, <1>10 DEF inventoryVars, InventoryTypeOK
<1>11. QED
  BY <1>8, <1>9, <1>10 DEF InventoryNext, ScanStep

\* The stores and scans are well typed in every reachable state, for any hosts, items,
\* scanners and visits.
THEOREM InventoryIsTyped == InventorySpec => []InventoryTypeOK
<1>1. InventoryInit => InventoryTypeOK
  BY InventoryAssumption DEF InventoryInit, InventoryTypeOK, Scanner, Resting
<1>2. QED
  BY <1>1, InventoryTypes, PTL DEF InventorySpec

\* The stages of a scan, and which hosts are mixed, survive every step.
LEMMA StagesStep ==
    ASSUME StoreInv, [InventoryNext]_inventoryVars
    PROVE  StagesFit' /\ OverlapsAreMixed'
<1>0. InventoryTypeOK /\ StagesFit /\ OverlapsAreMixed
  BY DEF StoreInv
<1>1. ASSUME NEW w \in Scanners, ScanStep(w) PROVE StagesFit' /\ OverlapsAreMixed'
  <2>1. /\ \A v \in Scanners \ {w} : scanner'[v] = scanner[v]
        /\ store' = store
    BY <1>0, <1>1, InventoryTypes DEF ScanStep, Visit, ScanEnds, Clear, Put1, SelectKey, InsertKey,
                                      ScanFails
  <2>2. /\ scanner'[w].pc = "clear" => store = "backups"
        /\ scanner'[w].pc = "insert" => store = "keys"
        /\ Storing(w)' => scanner'[w].of = scanner[w].of /\ (Storing(w) \/ \E items \in SUBSET Items : ScanEnds(w, items))
    <3>1. CASE \E h \in HostsSeen : Visit(w, h)
      BY <1>0, <3>1 DEF Visit, Go, InventoryTypeOK, Storing
    <3>2. ASSUME NEW items \in SUBSET Items, ScanEnds(w, items), store = "backups"
          PROVE  scanner'[w].pc = "clear" /\ scanner'[w].of = scanner[w].of
      BY <1>0, <3>2 DEF ScanEnds, Go, InventoryTypeOK
    <3>3. ASSUME NEW todo \in SUBSET Items, PutNext(w, todo), scanner[w].pc # "rest"
          PROVE  scanner'[w].pc \in {"rest", "put"} /\ (Storing(w)' => scanner'[w].of = scanner[w].of)
      BY <1>0, <3>3, NextItem DEF Storing
    <3>4. CASE \E items \in SUBSET Items : ScanEnds(w, items)
      BY <3>2, <3>3, <3>4 DEF ScanEnds
    <3>5. CASE Clear(w) \/ Put1(w)
      BY <1>0, <3>3, <3>5, ScannerShape DEF Clear, Put1, Storing
    <3>6. CASE SelectKey(w) /\ ~PutNext(w, scanner[w].todo)
      <4>1. scanner[w] \in ItemScanner /\ scanner'[w] = [scanner[w] EXCEPT !.pc = "insert"]
            /\ store = "keys" /\ scanner[w].pc = "put"
        BY <1>0, <3>6, ScannerShape DEF SelectKey, Go, InventoryTypeOK
      <4>2. QED
        BY <4>1, KeyIsNew DEF Storing
    <3>7. CASE (SelectKey(w) \/ InsertKey(w)) /\ PutNext(w, scanner[w].todo)
      BY <1>0, <3>3, <3>7, ScannerShape DEF SelectKey, InsertKey, Storing
    <3>8. CASE InsertKey(w) /\ ~PutNext(w, scanner[w].todo)
      BY <1>0, <3>8 DEF InsertKey, Go, Resting, InventoryTypeOK, Storing
    <3>9. CASE ScanFails(w)
      BY <1>0, <3>9 DEF ScanFails, Go, Resting, InventoryTypeOK, Storing
    <3>10. QED
      BY <1>1, <3>1, <3>4, <3>5, <3>6, <3>7, <3>8, <3>9 DEF ScanStep
  <2>3. StagesFit'
    BY <1>0, <2>1, <2>2 DEF StagesFit
  <2>4. ASSUME NEW v \in Scanners, v # w, Storing(v), Storing(w)', scanner[v].of = scanner'[w].of
        PROVE  scanner[v].of \in mixed'
    <3>1. scanner[v].of = scanner[w].of
      BY <2>2, <2>4
    <3>2. Shared(w)
      BY <2>4, <3>1 DEF Shared
    <3>3. CASE \E items \in SUBSET Items : ScanEnds(w, items)
      BY <3>1, <3>2, <3>3 DEF ScanEnds
    <3>4. CASE Storing(w)
      <4>1. scanner[v].of \in mixed
        BY <1>0, <2>4, <3>1, <3>4 DEF OverlapsAreMixed
      <4>2. mixed \subseteq mixed'
        BY <1>1, <3>2 DEF ScanStep, Visit, ScanEnds, Clear, Put1, SelectKey, InsertKey, ScanFails
      <4>3. QED
        BY <4>1, <4>2
    <3>5. QED
      BY <2>2, <2>4, <3>3, <3>4
  <2>5. ASSUME NEW u \in Scanners, NEW v \in Scanners, u # v, u # w, v # w, Storing(u), Storing(v),
               scanner[u].of = scanner[v].of
        PROVE  scanner[u].of \in mixed'
    <3>1. scanner[u].of \in mixed
      BY <1>0, <2>5 DEF OverlapsAreMixed
    <3>2. Clear(w) /\ scanner[w].of = scanner[u].of => Shared(w)
      BY <2>5 DEF Shared
    <3>3. QED
      BY <1>1, <3>1, <3>2 DEF ScanStep, Visit, ScanEnds, Clear, Put1, SelectKey, InsertKey, ScanFails
  <2>6. \A v \in Scanners \ {w} : Storing(v)' <=> Storing(v)
    BY <2>1 DEF Storing
  <2>7. OverlapsAreMixed'
    BY <2>1, <2>4, <2>5, <2>6 DEF OverlapsAreMixed
  <2>8. QED
    BY <2>3, <2>7
<1>2. CASE UNCHANGED <<store, scanner, mixed>>
  BY <1>0, <1>2 DEF StagesFit, OverlapsAreMixed, Storing
<1>3. QED
  BY <1>1, <1>2 DEF InventoryNext, inventoryVars, ScanStep, DeleteJob

\* What a step does to the rows: a backup scan clears its host's or adds one of its
\* own, a key scan adds one for a key that has none, the other stores replace.
LEMMA RowsStep ==
    ASSUME InventoryTypeOK, StagesFit, [InventoryNext]_inventoryVars
    PROVE  \/ rows' \subseteq rows /\ (store = "keys" => rows' = rows)
           \/ \E w \in Scanners : LET new == NewRow(w, scanner[w].item) IN
                /\ rows' \subseteq rows \cup {new}
                /\ store = "backups" => scanner[w].pc = "put"
                /\ store = "keys" => /\ scanner[w].pc = "insert" /\ rows \subseteq rows'
                                     /\ Conflict(scanner[w].of, scanner[w].item) = {}
                /\ store \in {"updates", "crons"} =>
                     (new \in rows' => \A r \in rows' \ {new} : r \notin Conflict(new.of, new.item))
<1>1. ASSUME NEW w \in Scanners, Put1(w) PROVE
           LET new == NewRow(w, scanner[w].item) IN
                \/ rows' = rows
                \/ /\ rows' \subseteq rows \cup {new}
                   /\ store = "backups" => scanner[w].pc = "put"
                   /\ store # "keys"
                   /\ store \in {"updates", "crons"} =>
                        (new \in rows' => \A r \in rows' \ {new} : r \notin Conflict(new.of, new.item))
  <2>1. scanner[w].pc = "put" /\ store \in {"backups", "updates", "crons"}
    BY <1>1 DEF Put1, InventoryTypeOK, Stores
  <2>2. NewRow(w, scanner[w].item).of = scanner[w].of
        /\ NewRow(w, scanner[w].item).item = scanner[w].item
    BY DEF NewRow
  <2>3. QED
    BY <1>1, <2>1, <2>2 DEF Put1, PutRow
<1>2. ASSUME NEW w \in Scanners, InsertKey(w) PROVE
           LET new == NewRow(w, scanner[w].item) IN
                \/ rows' = rows
                \/ /\ rows' \subseteq rows \cup {new} /\ rows \subseteq rows'
                   /\ scanner[w].pc = "insert" /\ store = "keys"
                   /\ Conflict(scanner[w].of, scanner[w].item) = {}
  BY <1>2 DEF InsertKey, StagesFit
<1>3. ASSUME NEW w \in Scanners, Clear(w) PROVE rows' \subseteq rows /\ store = "backups"
  BY <1>3 DEF Clear, Cleared, StagesFit
<1>4. ASSUME \A w \in Scanners : ~Put1(w) /\ ~InsertKey(w) /\ ~Clear(w)
      PROVE  rows' \subseteq rows /\ (store = "keys" => rows' = rows)
  BY <1>4 DEF InventoryNext, inventoryVars, Visit, ScanEnds, SelectKey, ScanFails, DeleteJob
<1>5. QED
  BY <1>1, <1>2, <1>3, <1>4

\* Only a backup scan that is alone on its host makes it clean again.
LEMMA MixedStep ==
    ASSUME InventoryTypeOK, StagesFit, [InventoryNext]_inventoryVars, NEW h \in mixed, h \notin mixed'
    PROVE  \E w \in Scanners : /\ Clear(w) /\ scanner[w].of = h /\ store = "backups"
                               /\ \A v \in Scanners \ {w} : ~(Storing(v) /\ scanner[v].of = h)
<1>1. PICK w \in Scanners : Clear(w) /\ scanner[w].of = h /\ ~Shared(w)
  BY DEF InventoryNext, inventoryVars, Visit, ScanEnds, Clear, Put1, SelectKey, InsertKey, ScanFails,
         DeleteJob
<1>2. QED
  BY <1>1 DEF Shared, StagesFit, Clear

\* A step keeps each store's things shown once.
LEMMA StoreStep == StoreInv /\ [InventoryNext]_inventoryVars => StoreInv'
<1> SUFFICES ASSUME StoreInv, [InventoryNext]_inventoryVars
             PROVE  PutsFollowClear' /\ InsertsAreNew' /\ StoredOnce'
  BY InventoryTypes, StagesStep DEF StoreInv
<1>0. /\ InventoryTypeOK /\ StagesFit /\ OverlapsAreMixed /\ PutsFollowClear /\ InsertsAreNew
      /\ StoredOnce /\ store' = store /\ store \in Stores
  BY DEF StoreInv, InventoryTypeOK, InventoryNext, inventoryVars, Visit, ScanEnds, Clear, Put1,
         SelectKey, InsertKey, ScanFails, DeleteJob
<1>1. ASSUME NEW w \in Scanners, NEW v \in Scanners, v # w, scanner[v].of = scanner[w].of,
             Storing(v), Storing(w), scanner[w].of \notin mixed
      PROVE  FALSE
  BY <1>0, <1>1 DEF OverlapsAreMixed
<1>2. ASSUME NEW w \in Scanners, scanner'[w] # scanner[w]
      PROVE  ScanStep(w)
  <2>1. CASE \E v \in Scanners : ScanStep(v)
    BY <1>0, <1>2, <2>1, InventoryTypes
  <2>2. QED
    BY <1>2, <2>1 DEF InventoryNext, inventoryVars, ScanStep, DeleteJob
<1>3. PutsFollowClear'
  <2> SUFFICES ASSUME store = "backups", NEW w \in Scanners, scanner'[w].pc = "put",
                      scanner'[w].of \notin mixed', NEW r \in rows', r.of = scanner'[w].of
               PROVE  r.visit = scanner'[w].visit
    BY <1>0 DEF PutsFollowClear
  <2>1. CASE Clear(w)
    <3>1. scanner'[w].of = scanner[w].of
      BY <1>0, <2>1, NextItem, ScannerShape DEF Clear, Storing
    <3>2. QED
      BY <2>1, <3>1 DEF Clear, Cleared
  <2>2. CASE ~Clear(w)
    <3>1. scanner[w].pc = "put" /\ scanner'[w].of = scanner[w].of /\ scanner'[w].visit = scanner[w].visit
      <4>1. CASE scanner'[w] = scanner[w]
        BY <4>1
      <4>2. CASE ScanStep(w)
        <5>1. Put1(w)
          BY <1>0, <2>2, <4>2 DEF ScanStep, Visit, ScanEnds, SelectKey, InsertKey, ScanFails, Go, Resting,
               InventoryTypeOK, StagesFit
        <5>2. QED
          BY <1>0, <5>1, NextItem, ScannerShape DEF Put1, Storing
      <4>3. QED
        BY <1>2, <4>1, <4>2
    <3>2. Storing(w)
      BY <3>1 DEF Storing
    <3>3. scanner[w].of \notin mixed
      BY <1>0, <2>2, <3>1, <3>2, MixedStep
    <3>4. CASE r \in rows
      BY <1>0, <3>1, <3>3, <3>4 DEF PutsFollowClear
    <3>5. CASE r \notin rows
      <4>1. PICK v \in Scanners : r = NewRow(v, scanner[v].item) /\ scanner[v].pc = "put"
        BY <1>0, <3>5, RowsStep
      <4>2. Storing(v) /\ r.of = scanner[v].of /\ r.visit = scanner[v].visit
        BY <4>1 DEF Storing, NewRow
      <4>3. v = w
        BY <1>1, <3>1, <3>2, <3>3, <4>2
      <4>4. QED
        BY <3>1, <4>2, <4>3
    <3>6. QED
      BY <3>4, <3>5
  <2>3. QED
    BY <2>1, <2>2
<1>4. InsertsAreNew'
  <2> SUFFICES ASSUME store = "keys", NEW w \in Scanners, scanner'[w].pc = "insert",
                      scanner'[w].of \notin mixed', NEW r \in rows', r.of = scanner'[w].of,
                      r.item = scanner'[w].item
               PROVE  FALSE
    BY <1>0 DEF InsertsAreNew, Existing
  <2>1. scanner'[w].of \notin mixed
    BY <1>0, MixedStep
  <2>2. CASE scanner'[w] # scanner[w]
    <3>1. SelectKey(w) /\ scanner[w].pc # "rest"
      <4>1. ASSUME NEW todo \in SUBSET Items, PutNext(w, todo), scanner[w].pc # "rest" PROVE FALSE
        BY <1>0, <4>1, NextItem
      <4>2. scanner[w].pc # "rest" => scanner[w].pc \in {"probe", "clear", "put", "insert"}
        BY <1>0, ScannerShape
      <4>3. Storing(w) => scanner[w].todo \in SUBSET Items
        BY <1>0, ScannerShape
      <4>4. ~(\E h \in HostsSeen : Visit(w, h))
        BY <1>0 DEF Visit, Go, InventoryTypeOK
      <4>5. ~(\E items \in SUBSET Items : ScanEnds(w, items))
        BY <1>0, <4>1 DEF ScanEnds
      <4>6. ~Clear(w) /\ ~Put1(w)
        BY <1>0, <4>1, <4>3 DEF Clear, Put1, Storing
      <4>7. ~InsertKey(w) /\ ~ScanFails(w)
        BY <1>0, <4>1, <4>3 DEF InsertKey, ScanFails, Storing, Go, Resting, InventoryTypeOK
      <4>8. SelectKey(w)
        BY <1>2, <2>2, <4>4, <4>5, <4>6, <4>7 DEF ScanStep
      <4>9. QED
        BY <4>8 DEF SelectKey
    <3>2. ~PutNext(w, scanner[w].todo)
      BY <1>0, <3>1, NextItem, ScannerShape DEF SelectKey, Storing
    <3>3. /\ Existing(scanner[w].of, scanner[w].item) = {} /\ rows' = rows
          /\ scanner[w] \in ItemScanner /\ scanner'[w] = [scanner[w] EXCEPT !.pc = "insert"]
      BY <1>0, <3>1, <3>2, ScannerShape DEF SelectKey, Go, InventoryTypeOK
    <3>4. QED
      BY <3>3, KeyIsNew DEF Existing
  <2>3. CASE scanner'[w] = scanner[w]
    <3>1. r \notin rows
      BY <1>0, <2>1, <2>3 DEF InsertsAreNew, Existing
    <3>2. PICK v \in Scanners : r = NewRow(v, scanner[v].item) /\ scanner[v].pc = "insert" /\ InsertKey(v)
      <4>1. PICK v \in Scanners : rows' \subseteq rows \cup {NewRow(v, scanner[v].item)} /\ InsertKey(v)
        BY <1>0, <3>1 DEF InventoryNext, inventoryVars, Visit, ScanEnds, Clear, Put1, SelectKey,
             InsertKey, ScanFails, DeleteJob, StagesFit
      <4>2. QED
        BY <3>1, <4>1 DEF InsertKey
    <3>3. Storing(v) /\ r.of = scanner[v].of
      BY <3>2 DEF Storing, NewRow
    <3>4. v = w
      BY <1>1, <2>1, <2>3, <3>3 DEF Storing
    <3>5. scanner'[w].pc # "insert"
      BY <1>0, <3>2, <3>4, NextItem, ScannerShape DEF InsertKey, Go, Resting, InventoryTypeOK, Storing
    <3>6. QED
      BY <3>5
  <2>4. QED
    BY <2>2, <2>3
<1>5. StoredOnce'
  <2> DEFINE Once(r, s) == r.of = s.of /\ r.visit # s.visit
                           /\ (store = "backups" => r.of \notin mixed')
                           /\ (store = "keys" => r.of \notin mixed' \/ r.of # "local")
                           /\ (store \in {"updates", "crons"} => r.of # "local")
  <2>1. ASSUME NEW r \in rows, NEW s \in rows, r \in rows', s \in rows', Once(r, s)
        PROVE  store # "backups" /\ r.item # s.item
    <3>1. CASE r.of \in mixed /\ r.of \notin mixed'
      <4>1. PICK w \in Scanners : Clear(w) /\ scanner[w].of = r.of
        BY <1>0, <3>1, MixedStep
      <4>2. QED
        BY <2>1, <4>1 DEF Clear, Cleared
    <3>2. CASE r.of \notin mixed \/ r.of \in mixed'
      BY <1>0, <2>1, <3>2 DEF StoredOnce
    <3>3. QED
      BY <3>1, <3>2
  <2>2. ASSUME NEW r \in rows', r \notin rows, NEW s \in rows', r # s,
               Once(r, s) \/ Once(s, r)
        PROVE  store # "backups" /\ r.item # s.item
    <3>1. PICK w \in Scanners :
             /\ r = NewRow(w, scanner[w].item) /\ rows' \subseteq rows \cup {r}
             /\ store = "backups" => scanner[w].pc = "put"
             /\ store = "keys" => scanner[w].pc = "insert"
                                  /\ Conflict(scanner[w].of, scanner[w].item) = {}
             /\ store \in {"updates", "crons"} => \A t \in rows' \ {r} : t \notin Conflict(r.of, r.item)
      BY <1>0, <2>2, RowsStep
    <3>2. s \in rows /\ r.of = scanner[w].of /\ r.item = scanner[w].item /\ r.visit = scanner[w].visit
      BY <2>2, <3>1 DEF NewRow
    <3>3. CASE store = "backups"
      <4>1. r.of \notin mixed /\ s.of = r.of
        <5>1. r.of \notin mixed'
          BY <2>2, <3>3
        <5>2. ASSUME r.of \in mixed PROVE FALSE
          <6>1. PICK v \in Scanners : Clear(v) /\ scanner[v].of = r.of
            BY <1>0, <5>1, <5>2, MixedStep
          <6>2. QED
            BY <2>2, <6>1 DEF Clear, Cleared
        <5>3. QED
          BY <2>2, <5>2
      <4>2. QED
        BY <1>0, <2>2, <3>1, <3>2, <3>3, <4>1 DEF PutsFollowClear
    <3>4. CASE store = "keys"
      <4>1. mixed \subseteq mixed'
        BY <1>0, <3>4, MixedStep
      <4>2. CASE r.of = "local"
        BY <1>0, <2>2, <3>1, <3>2, <3>4, <4>1, <4>2 DEF InsertsAreNew, Existing
      <4>3. CASE r.of # "local"
        BY <2>2, <3>1, <3>2, <3>4, <4>3 DEF Conflict, Existing
      <4>4. QED
        BY <4>2, <4>3
    <3>5. CASE store \in {"updates", "crons"}
      BY <2>2, <3>1, <3>2, <3>5 DEF Conflict, Existing
    <3>6. QED
      BY <1>0, <3>3, <3>4, <3>5 DEF Stores
  <2>3. ASSUME NEW r \in rows', NEW s \in rows', Once(r, s)
        PROVE  store # "backups" /\ r.item # s.item
    BY <2>1, <2>2, <2>3
  <2>4. QED
    BY <1>0, <2>3 DEF StoredOnce
<1>6. QED
  BY <1>3, <1>4, <1>5

\* The tables start empty and the scanners at rest.
LEMMA StoreInit == InventoryInit => StoreInv
<1>1. InventoryInit => InventoryTypeOK
  BY InventoryAssumption DEF InventoryInit, InventoryTypeOK, Scanner, Resting
<1>2. QED
  BY <1>1 DEF InventoryInit, StoreInv, StagesFit, OverlapsAreMixed, PutsFollowClear, InsertsAreNew,
              StoredOnce, Storing, Resting

\* Whatever scans overlap, fail or find, a store shows each thing once: backups of one
\* visit, one row of a key, of a server's updates and of each of its jobs.
THEOREM ThingsAreStoredOnce == InventorySpec => []StoredOnce
<1>1. StoreInv => StoredOnce
  BY DEF StoreInv
<1>2. QED
  BY <1>1, StoreInit, StoreStep, PTL DEF InventorySpec

-----------------------------------------------------------------------------
(* CustomMetrics.                                                          *)

\* What was listed of an id that is still there is still true of it: a definition is
\* never changed in place, and its id is never given to another one.
IsCurrent(m) ==
    /\ m.id \in 1..lastDef
    /\ m.id \in DOMAIN defs => m.script = defs[m.id].script

ListingsAreCurrent ==
    /\ \A r \in DOMAIN running : IsCurrent(running[r])
    /\ \A m \in queue : IsCurrent(m)

CustomInv == CustomTypeOK /\ ListingsAreCurrent /\ ValueIsOwn

LEMMA NothingInEmpty == DOMAIN Empty = {} /\ \A S : Empty \in [{} -> S]
  BY DEF Empty

LEMMA CustomInvInit == ASSUME CustomInit PROVE CustomInv
  <1>. USE CustomAssumption
  <1>1. CustomTypeOK
    BY NothingInEmpty DEF CustomInit, CustomTypeOK
  <1>2. ListingsAreCurrent /\ ValueIsOwn
    BY NothingInEmpty DEF CustomInit, ListingsAreCurrent, ValueIsOwn
  <1>. QED
    BY <1>1, <1>2 DEF CustomInv

\* What a runner takes over is a listing.
LEMMA ListedIsCurrent ==
    ASSUME CustomInv, NEW d \in DOMAIN defs
    PROVE  AsListed(d) \in Listing /\ IsCurrent(AsListed(d))
  <1>1. defs[d] \in Definition /\ d \in 1..lastDef /\ d \in DefIds
    BY CustomAssumption DEF CustomInv, CustomTypeOK, DefIds
  <1>. QED
    BY <1>1 DEF AsListed, Listing, Definition, IsCurrent

-----------------------------------------------------------------------------
(* Editing.                                                                *)

LEMMA DefineKeeps ==
    ASSUME CustomInv, NEW n \in MetricNames, NEW s \in Scripts, DefineMetric(n, s)
    PROVE  CustomInv'
  <1>. USE CustomAssumption DEF CustomInv
  <1>. DEFINE new == [name |-> n, script |-> s, value |-> "none"]
              kept == (DOMAIN defs) \ Named(n)
  <1>1. /\ lastDef \in Nat /\ lastDef + 1 \in 0..MaxDefinitions /\ lastDef' = lastDef + 1
        /\ DOMAIN defs \subseteq 1..lastDef
        /\ UNCHANGED <<running, queue, due>>
    BY DEF DefineMetric, CustomTypeOK
  <1>2. /\ DOMAIN defs' = kept \cup {lastDef + 1}
        /\ defs' = [d \in kept \cup {lastDef + 1} |-> IF d = lastDef + 1 THEN new ELSE defs[d]]
    BY DEF DefineMetric
  <1>3. \A d \in DOMAIN defs' :
          \/ d = lastDef + 1 /\ defs'[d] = new
          \/ d \in DOMAIN defs /\ d # lastDef + 1 /\ defs'[d] = defs[d]
    BY <1>1, <1>2
  <1>4. CustomTypeOK'
    <2>1. new \in Definition
      BY DEF Definition
    <2>2. \A d \in DOMAIN defs' : defs'[d] \in Definition
      BY <1>3, <2>1 DEF CustomTypeOK
    <2>3. defs' \in [DOMAIN defs' -> Definition]
      BY <1>2, <2>2
    <2>4. DOMAIN defs' \subseteq 1..(lastDef + 1)
      BY <1>1, <1>2
    <2>. QED
      BY <1>1, <2>3, <2>4 DEF CustomTypeOK
  <1>5. ASSUME NEW m, IsCurrent(m) PROVE IsCurrent(m)'
    BY <1>1, <1>3, <1>5 DEF IsCurrent
  <1>6. ListingsAreCurrent'
    BY <1>1, <1>5 DEF ListingsAreCurrent, IsCurrent
  <1>7. ValueIsOwn'
    BY <1>3 DEF ValueIsOwn
  <1>. QED
    BY <1>4, <1>6, <1>7

LEMMA DeleteKeeps ==
    ASSUME CustomInv, NEW d \in DefIds, DeleteMetric(d)
    PROVE  CustomInv'
  <1>. USE DEF CustomInv
  <1>1. /\ DOMAIN defs' = (DOMAIN defs) \ {d}
        /\ defs' = [x \in (DOMAIN defs) \ {d} |-> defs[x]]
        /\ UNCHANGED <<lastDef, running, queue, due>>
    BY DEF DeleteMetric, Pop
  <1>2. CustomTypeOK'
    BY <1>1 DEF CustomTypeOK
  <1>. QED
    BY <1>1, <1>2 DEF ListingsAreCurrent, IsCurrent, ValueIsOwn

-----------------------------------------------------------------------------
(* Running.                                                                *)

LEMMA StartRunKeeps ==
    ASSUME CustomInv,
           \/ ListDue
           \/ \E m \in queue : RunNext(m)
           \/ \E r \in Runners, d \in DefIds : RunByHand(r, d)
    PROVE  CustomInv'
  <1>. USE DEF CustomInv
  <1>1. UNCHANGED <<defs, lastDef, due>>
    BY DEF ListDue, RunNext, RunByHand
  <1>2. CASE ListDue
    <2>1. queue' = {AsListed(d) : d \in (DOMAIN defs) \cap due} /\ UNCHANGED running
      BY <1>2 DEF ListDue
    <2>2. \A m \in queue' : m \in Listing /\ IsCurrent(m)
      BY <2>1, ListedIsCurrent
    <2>. QED
      BY <1>1, <2>1, <2>2 DEF CustomTypeOK, ListingsAreCurrent, IsCurrent, ValueIsOwn
  <1>3. ASSUME NEW r \in Runners, NEW m \in Listing, IsCurrent(m),
               running' = Put(running, r, m), queue' \subseteq queue
        PROVE  CustomInv'
    <2>1. /\ DOMAIN running' = (DOMAIN running) \cup {r}
          /\ running' = [x \in (DOMAIN running) \cup {r} |-> IF x = r THEN m ELSE running[x]]
      BY <1>3 DEF Put
    <2>2. \A x \in DOMAIN running' : running'[x] \in Listing /\ IsCurrent(running'[x])
      BY <1>3, <2>1 DEF CustomTypeOK, ListingsAreCurrent
    <2>3. running' \in [DOMAIN running' -> Listing]
      BY <2>1, <2>2
    <2>4. CustomTypeOK'
      BY <1>1, <1>3, <2>1, <2>3 DEF CustomTypeOK
    <2>5. ListingsAreCurrent'
      BY <1>1, <1>3, <2>2 DEF ListingsAreCurrent, IsCurrent
    <2>. QED
      BY <1>1, <2>4, <2>5 DEF ValueIsOwn
  <1>4. CASE \E m \in queue : RunNext(m)
    BY <1>3, <1>4, CustomAssumption DEF RunNext, CustomTypeOK, ListingsAreCurrent
  <1>5. CASE \E r \in Runners, d \in DefIds : RunByHand(r, d)
    BY <1>3, <1>5, ListedIsCurrent DEF RunByHand
  <1>. QED
    BY <1>2, <1>4, <1>5

\* The result goes to the id of the listing, and that is the script of the listing.
LEMMA EndRunKeeps ==
    ASSUME CustomInv, NEW r \in Runners, RunEnds(r) \/ RunFails(r)
    PROVE  CustomInv'
  <1>. USE DEF CustomInv
  <1>. DEFINE m == running[r]
  <1>1. /\ r \in DOMAIN running
        /\ DOMAIN running' = (DOMAIN running) \ {r}
        /\ running' = [x \in (DOMAIN running) \ {r} |-> running[x]]
        /\ UNCHANGED <<lastDef, queue>>
        /\ due' \subseteq due
    BY DEF RunEnds, RunFails, Pop
  <1>2. m \in Listing /\ IsCurrent(m)
    BY <1>1 DEF CustomTypeOK, ListingsAreCurrent
  <1>3. /\ DOMAIN defs' = DOMAIN defs
        /\ defs' = [d \in DOMAIN defs |-> defs'[d]]
        /\ \A d \in DOMAIN defs :
             \/ defs'[d] = defs[d]
             \/ d = m.id /\ defs'[d] = [defs[d] EXCEPT !.value = m.script]
    <2>1. CASE UNCHANGED defs
      BY <2>1 DEF CustomTypeOK
    <2>2. CASE defs' = [d \in DOMAIN defs |->
                          IF d \in RowsOf(m) THEN [defs[d] EXCEPT !.value = m.script] ELSE defs[d]]
      BY <2>2 DEF RowsOf
    <2>. QED
      BY <2>1, <2>2 DEF RunEnds, RunFails
  <1>4. ASSUME NEW d \in DOMAIN defs
        PROVE  /\ defs'[d] \in Definition
               /\ defs'[d].script = defs[d].script
               /\ defs'[d].value \in {"none", defs[d].script}
    <2>1. defs[d] \in Definition /\ defs[d].value \in {"none", defs[d].script}
      BY DEF CustomTypeOK, ValueIsOwn
    <2>2. CASE defs'[d] = defs[d]
      BY <2>1, <2>2
    <2>3. CASE d = m.id /\ defs'[d] = [defs[d] EXCEPT !.value = m.script]
      <3>1. m.script = defs[d].script
        BY <1>2, <2>3 DEF IsCurrent
      <3>. QED
        BY <2>1, <2>3, <3>1 DEF Definition
    <2>. QED
      BY <1>3, <2>2, <2>3
  <1>5. CustomTypeOK'
    <2>1. defs' \in [DOMAIN defs' -> Definition]
      BY <1>3, <1>4
    <2>. QED
      BY <1>1, <1>3, <2>1 DEF CustomTypeOK
  <1>6. ListingsAreCurrent'
    BY <1>1, <1>3, <1>4 DEF ListingsAreCurrent, IsCurrent
  <1>7. ValueIsOwn'
    BY <1>3, <1>4 DEF ValueIsOwn
  <1>. QED
    BY <1>5, <1>6, <1>7

LEMMA RestKeeps ==
    ASSUME CustomInv, CustomRestart \/ \E d \in DefIds : IntervalPasses(d)
    PROVE  CustomInv'
  <1>. USE DEF CustomInv
  <1>1. CASE CustomRestart
    <2>1. CustomTypeOK'
      BY <1>1, NothingInEmpty DEF CustomRestart, CustomTypeOK
    <2>. QED
      BY <1>1, <2>1, NothingInEmpty DEF CustomRestart, ListingsAreCurrent, ValueIsOwn
  <1>2. CASE \E d \in DefIds : IntervalPasses(d)
    BY <1>2 DEF IntervalPasses, CustomTypeOK, ListingsAreCurrent, IsCurrent, ValueIsOwn
  <1>. QED
    BY <1>1, <1>2

-----------------------------------------------------------------------------

LEMMA CustomInvNext == ASSUME CustomInv, [CustomNext]_customVars PROVE CustomInv'
  <1>1. CASE UNCHANGED customVars
    BY <1>1 DEF customVars, CustomInv, CustomTypeOK, ListingsAreCurrent, IsCurrent, ValueIsOwn
  <1>2. CASE CustomNext
    <2>1. CASE \E n \in MetricNames, s \in Scripts : DefineMetric(n, s)
      BY <2>1, DefineKeeps
    <2>2. CASE \E d \in DefIds : DeleteMetric(d)
      BY <2>2, DeleteKeeps
    <2>3. CASE \/ ListDue
               \/ \E m \in queue : RunNext(m)
               \/ \E r \in Runners, d \in DefIds : RunByHand(r, d)
      BY <2>3, StartRunKeeps
    <2>4. CASE \E r \in Runners : RunEnds(r) \/ RunFails(r)
      BY <2>4, EndRunKeeps
    <2>5. CASE CustomRestart \/ \E d \in DefIds : IntervalPasses(d)
      BY <2>5, RestKeeps
    <2>. QED
      BY <1>2, <2>1, <2>2, <2>3, <2>4, <2>5 DEF CustomNext
  <1>. QED
    BY <1>1, <1>2

\* Every state of CustomMetrics is well typed.
THEOREM MetricsAreTyped == CustomSpec => []CustomTypeOK
  <1>1. CustomInv => CustomTypeOK
    BY DEF CustomInv
  <1>. QED
    BY <1>1, CustomInvInit, CustomInvNext, PTL DEF CustomSpec

\* The value of a metric was computed by its own script, whatever was replaced or
\* deleted while it ran.
THEOREM ValuesAreOwn == CustomSpec => []ValueIsOwn
  <1>1. CustomInv => ValueIsOwn
    BY DEF CustomInv
  <1>. QED
    BY <1>1, CustomInvInit, CustomInvNext, PTL DEF CustomSpec

-----------------------------------------------------------------------------
(* Runbooks.                                                               *)

\* A task that looks its run up again has logged it.
SelectsAreLogged ==
    \A k \in DOMAIN task : task[k].pc = "select" => Logged(k[1], k[2])

RunbooksInv == RunbooksTypeOK /\ SelectsAreLogged /\ NoRunWithoutTrace

LEMMA NoTasksInEmpty == DOMAIN Empty = {} /\ \A S : Empty \in [{} -> S]
  BY DEF Empty

LEMMA RunbooksInvInit == ASSUME RunbooksInit PROVE RunbooksInv
  <1>. USE RunbooksAssumption, NoTasksInEmpty
  <1>1. AnyVersion \in Versions
    BY DEF AnyVersion
  <1>2. RunbooksTypeOK
    <2>1. DOMAIN books = Builtins /\ books \in [Builtins -> Versions]
      BY <1>1 DEF RunbooksInit
    <2>. QED
      BY <2>1 DEF RunbooksInit, RunbooksTypeOK
  <1>3. SelectsAreLogged /\ NoRunWithoutTrace
    BY DEF RunbooksInit, SelectsAreLogged, NoRunWithoutTrace
  <1>. QED
    BY <1>2, <1>3 DEF RunbooksInv

-----------------------------------------------------------------------------
(* What a step may do to tasks, when it neither starts a request nor logs  *)
(* a run: it drops those that have logged or are noted as broken.          *)

LEMMA DroppedAreAccounted ==
    ASSUME RunbooksInv, UNCHANGED <<request, runs>>,
           DOMAIN task' \subseteq DOMAIN task,
           \A k \in DOMAIN task' : task'[k] = task[k],
           broke \subseteq broke',
           \A k \in (DOMAIN task) \ DOMAIN task' : Logged(k[1], k[2]) \/ k \in broke'
    PROVE  SelectsAreLogged' /\ NoRunWithoutTrace'
  <1>1. SelectsAreLogged'
    BY DEF RunbooksInv, SelectsAreLogged, Logged
  <1>2. NoRunWithoutTrace'
    <2>. SUFFICES ASSUME NEW r \in DOMAIN request', NEW t \in request'[r].targets
                  PROVE  \/ <<r, t>> \in DOMAIN task'
                         \/ Logged(r, t)'
                         \/ <<r, t>> \in broke'
      BY DEF NoRunWithoutTrace
    <2>1. <<r, t>> \in DOMAIN task \/ Logged(r, t) \/ <<r, t>> \in broke
      BY DEF RunbooksInv, NoRunWithoutTrace
    <2>2. Logged(r, t) => Logged(r, t)'
      BY DEF Logged
    <2>3. <<r, t>>[1] = r /\ <<r, t>>[2] = t
      OBVIOUS
    <2>. QED
      BY <2>1, <2>2, <2>3
  <1>. QED
    BY <1>1, <1>2

-----------------------------------------------------------------------------
(* Editing a runbook touches no request.                                   *)

LEMMA EditKeeps ==
    ASSUME RunbooksInv, NEW s \in Slugs, NEW v \in Versions,
           CreateCustom(s, v) \/ UpdateCustom(s, v) \/ DeleteCustom(s)
    PROVE  RunbooksInv'
  <1>1. UNCHANGED <<request, task, runs, second, broke>>
    BY DEF CreateCustom, UpdateCustom, DeleteCustom
  <1>2. DOMAIN books' \subseteq Slugs /\ books' \in [DOMAIN books' -> Versions]
    <2>. USE DEF RunbooksInv, RunbooksTypeOK
    <2>1. CASE DeleteCustom(s)
      BY <2>1 DEF DeleteCustom, Pop
    <2>2. CASE CreateCustom(s, v) \/ UpdateCustom(s, v)
      <3>1. books' = [x \in (DOMAIN books) \cup {s} |-> IF x = s THEN v ELSE books[x]]
        BY <2>2 DEF CreateCustom, UpdateCustom, Put
      <3>. QED
        BY <3>1
    <2>. QED
      BY <2>1, <2>2
  <1>. QED
    BY <1>1, <1>2 DEF RunbooksInv, RunbooksTypeOK, SelectsAreLogged, NoRunWithoutTrace, Logged

-----------------------------------------------------------------------------
(* Executing.                                                              *)

LEMMA ExecuteKeeps ==
    ASSUME RunbooksInv, NEW s \in Slugs, NEW targets \in TargetLists, Execute(s, targets)
    PROVE  RunbooksInv'
  <1>. USE DEF RunbooksInv
  <1>. DEFINE n == Len(request) + 1
              new == [slug |-> s, script |-> books[s], targets |-> targets]
              fresh == {<<n, t>> : t \in targets}
              start == [pc |-> "exec", started |-> second]
  <1>1. new \in BookRequest
    BY DEF Execute, RunbooksTypeOK, BookRequest
  <1>2. /\ request \in Seq(BookRequest)
        /\ request' = Append(request, new)
        /\ UNCHANGED <<books, runs, second, broke>>
    BY DEF Execute, RunbooksTypeOK
  <1>3. /\ request' \in Seq(BookRequest)
        /\ DOMAIN request' = (DOMAIN request) \cup {n}
        /\ request'[n] = new /\ n \notin DOMAIN request
        /\ \A r \in DOMAIN request : request'[r] = request[r]
    BY <1>1, <1>2
  <1>4. /\ DOMAIN task' = (DOMAIN task) \cup fresh
        /\ task' = [k \in (DOMAIN task) \cup fresh |-> IF k \in DOMAIN task THEN task[k] ELSE start]
    BY DEF Execute
  <1>5. \A k \in fresh : k \in (DOMAIN request') \X RunTargets
    BY <1>3 DEF RunTargets
  <1>6. RunbooksTypeOK'
    <2>1. start \in Task
      BY DEF RunbooksTypeOK, Task
    <2>2. task' \in [DOMAIN task' -> Task]
      BY <1>4, <2>1 DEF RunbooksTypeOK
    <2>3. DOMAIN task' \subseteq (DOMAIN request') \X RunTargets
      BY <1>3, <1>4, <1>5 DEF RunbooksTypeOK
    <2>4. broke' \subseteq (DOMAIN request') \X RunTargets
      BY <1>2, <1>3 DEF RunbooksTypeOK
    <2>. QED
      BY <1>2, <1>3, <2>2, <2>3, <2>4 DEF RunbooksTypeOK
  <1>7. SelectsAreLogged'
    BY <1>2, <1>4 DEF SelectsAreLogged, Logged
  <1>8. NoRunWithoutTrace'
    <2>. SUFFICES ASSUME NEW r \in DOMAIN request', NEW t \in request'[r].targets
                  PROVE  \/ <<r, t>> \in DOMAIN task'
                         \/ Logged(r, t)'
                         \/ <<r, t>> \in broke'
      BY DEF NoRunWithoutTrace
    <2>1. CASE r = n
      BY <1>3, <1>4, <2>1
    <2>2. CASE r \in DOMAIN request
      <3>1. t \in request[r].targets
        BY <1>3, <2>2
      <3>2. <<r, t>> \in DOMAIN task \/ Logged(r, t) \/ <<r, t>> \in broke
        BY <2>2, <3>1 DEF NoRunWithoutTrace
      <3>. QED
        BY <1>2, <1>4, <3>2 DEF Logged
    <2>. QED
      BY <1>3, <2>1, <2>2
  <1>. QED
    BY <1>6, <1>7, <1>8

LEMMA LogKeeps ==
    ASSUME RunbooksInv, NEW k \in DOMAIN task, LogRun(k)
    PROVE  RunbooksInv'
  <1>. USE DEF RunbooksInv
  <1>. DEFINE row == [slug |-> request[k[1]].slug, script |-> request[k[1]].script,
                      target |-> k[2], started |-> task[k].started, by |-> k[1]]
              done == [pc |-> "select", started |-> task[k].started]
  <1>1. /\ k[1] \in DOMAIN request /\ k[2] \in RunTargets
        /\ task[k] \in Task
        /\ request[k[1]] \in BookRequest
        /\ k[1] \in Nat \ {0}
    BY DEF RunbooksTypeOK
  <1>2. row \in Run /\ done \in Task
    BY <1>1 DEF Run, Task, BookRequest
  <1>3. /\ runs \in Seq(Run) /\ runs' = Append(runs, row)
        /\ task' = [x \in (DOMAIN task) \cup {k} |-> IF x = k THEN done ELSE task[x]]
        /\ DOMAIN task' = DOMAIN task
        /\ UNCHANGED <<books, request, second, broke>>
    BY DEF LogRun, Put, RunbooksTypeOK
  <1>4. /\ runs' \in Seq(Run)
        /\ DOMAIN runs' = (DOMAIN runs) \cup {Len(runs) + 1}
        /\ runs'[Len(runs) + 1] = row
        /\ \A i \in DOMAIN runs : runs'[i] = runs[i]
    BY <1>2, <1>3
  <1>5. \A r, t : Logged(r, t) => Logged(r, t)'
    BY <1>4 DEF Logged
  <1>6. Logged(k[1], k[2])'
    BY <1>3, <1>4 DEF Logged
  <1>7. RunbooksTypeOK'
    <2>1. task' \in [DOMAIN task' -> Task]
      BY <1>2, <1>3 DEF RunbooksTypeOK
    <2>. QED
      BY <1>3, <1>4, <2>1 DEF RunbooksTypeOK
  <1>8. SelectsAreLogged'
    <2>. SUFFICES ASSUME NEW x \in DOMAIN task', task'[x].pc = "select"
                  PROVE  Logged(x[1], x[2])'
      BY DEF SelectsAreLogged
    <2>1. CASE x = k
      BY <1>6, <2>1
    <2>2. CASE x # k
      BY <1>3, <1>5, <2>2 DEF SelectsAreLogged
    <2>. QED
      BY <2>1, <2>2
  <1>9. NoRunWithoutTrace'
    BY <1>3, <1>5 DEF NoRunWithoutTrace
  <1>. QED
    BY <1>7, <1>8, <1>9

\* A task goes when it has found its run, with an exception, or with the process.
LEMMA EndKeeps ==
    ASSUME RunbooksInv,
           \/ \E k \in DOMAIN task : SelectRun(k) \/ TaskFails(k)
           \/ RunbooksRestart
    PROVE  RunbooksInv'
  <1>. USE DEF RunbooksInv
  <1>1. ASSUME NEW k \in DOMAIN task, SelectRun(k) PROVE RunbooksInv'
    <2>1. /\ DOMAIN task' = (DOMAIN task) \ {k}
          /\ task' = [x \in (DOMAIN task) \ {k} |-> task[x]]
          /\ task[k].pc = "select"
          /\ UNCHANGED <<books, request, runs, second, broke>>
      BY <1>1 DEF SelectRun, Pop
    <2>2. RunbooksTypeOK'
      BY <2>1 DEF RunbooksTypeOK
    <2>3. Logged(k[1], k[2])
      BY <2>1 DEF SelectsAreLogged
    <2>. QED
      BY <2>1, <2>2, <2>3, DroppedAreAccounted
  <1>2. ASSUME NEW k \in DOMAIN task, TaskFails(k) PROVE RunbooksInv'
    <2>1. /\ DOMAIN task' = (DOMAIN task) \ {k}
          /\ task' = [x \in (DOMAIN task) \ {k} |-> task[x]]
          /\ broke' = broke \cup {k}
          /\ UNCHANGED <<books, request, runs, second>>
      BY <1>2 DEF TaskFails, Survivors
    <2>2. RunbooksTypeOK'
      BY <2>1 DEF RunbooksTypeOK
    <2>. QED
      BY <2>1, <2>2, DroppedAreAccounted
  <1>3. CASE RunbooksRestart
    <2>1. /\ DOMAIN task' = {} /\ task' = Empty
          /\ broke' = broke \cup DOMAIN task
          /\ UNCHANGED <<books, request, runs, second>>
      BY <1>3, NoTasksInEmpty DEF RunbooksRestart
    <2>2. RunbooksTypeOK'
      BY <2>1, NoTasksInEmpty DEF RunbooksTypeOK
    <2>. QED
      BY <2>1, <2>2, DroppedAreAccounted
  <1>. QED
    BY <1>1, <1>2, <1>3

-----------------------------------------------------------------------------

LEMMA RunbooksInvNext == ASSUME RunbooksInv, [RunbooksNext]_runbooksVars PROVE RunbooksInv'
  <1>1. CASE UNCHANGED runbooksVars
    BY <1>1 DEF runbooksVars, RunbooksInv, RunbooksTypeOK, SelectsAreLogged,
                NoRunWithoutTrace, Logged
  <1>2. CASE SecondPasses
    <2>1. second' \in 1..MaxSecond
      BY <1>2, RunbooksAssumption DEF SecondPasses, RunbooksInv, RunbooksTypeOK
    <2>. QED
      BY <1>2, <2>1 DEF SecondPasses, RunbooksInv, RunbooksTypeOK, SelectsAreLogged,
                        NoRunWithoutTrace, Logged
  <1>3. CASE RunbooksNext
    <2>1. CASE \E s \in Slugs, v \in Versions : CreateCustom(s, v) \/ UpdateCustom(s, v)
      BY <2>1, EditKeeps
    <2>2. CASE \E s \in Slugs : DeleteCustom(s)
      <3>1. PICK v \in Versions : TRUE
        BY RunbooksAssumption
      <3>. QED
        BY <2>2, <3>1, EditKeeps
    <2>3. CASE \E s \in Slugs, targets \in TargetLists : Execute(s, targets)
      BY <2>3, ExecuteKeeps
    <2>4. CASE \E k \in DOMAIN task : LogRun(k)
      BY <2>4, LogKeeps
    <2>5. CASE \/ \E k \in DOMAIN task : SelectRun(k) \/ TaskFails(k)
               \/ RunbooksRestart
      BY <2>5, EndKeeps
    <2>. QED
      BY <1>2, <1>3, <2>1, <2>2, <2>3, <2>4, <2>5 DEF RunbooksNext
  <1>. QED
    BY <1>1, <1>3

\* Every state of Runbooks is well typed.
THEOREM RunbooksAreTyped == RunbooksSpec => []RunbooksTypeOK
  <1>1. RunbooksInv => RunbooksTypeOK
    BY DEF RunbooksInv
  <1>. QED
    BY <1>1, RunbooksInvInit, RunbooksInvNext, PTL DEF RunbooksSpec

\* Every target a request was started on is running, logged or known to have failed.
THEOREM RunsLeaveTraces == RunbooksSpec => []NoRunWithoutTrace
  <1>1. RunbooksInv => NoRunWithoutTrace
    BY DEF RunbooksInv
  <1>. QED
    BY <1>1, RunbooksInvInit, RunbooksInvNext, PTL DEF RunbooksSpec

-----------------------------------------------------------------------------
(* Log patterns: the inductive invariant.                                  *)

\* When pattern p is counted next, at the latest.
Deadline(p) ==
    IF scan.todo = {} THEN scan.wake + MaxScan
    ELSE IF p \in scan.todo THEN scan.since + MaxScan
    ELSE scan.since + MaxScan + Pause + MaxScan

\* Shipping, waking up and scanning are in time, and nothing was fired or failed in
\* the future.
ScansOnTime ==
    /\ scan.since <= instant
    /\ scan.todo = {} => instant <= scan.wake
    /\ scan.todo = {} => scan.wake <= instant + Pause
    /\ scan.todo # {} => instant <= scan.since + MaxScan
    /\ \A b \in written : instant <= b.ts + MaxShip
    /\ \A p \in DOMAIN fired : fired[p].ts <= instant
    /\ \A p \in DOMAIN trouble.last : trouble.last[p] <= instant

PatternsTyped == PatternsTypeOK /\ IsFiniteSet(written \cup agentLogs)

\* While the window of a burst is open, it is reported or counted before it closes.
BurstIsInTime ==
    \A p \in Watched, from \in Units :
        (instant < from + Window(p) /\ SumOf(Burst(p, from)) >= Patterns[p].threshold)
        => (Reported(p, from) \/ Deadline(p) < from + Window(p))

PatternsInv == PatternsTyped /\ ScansOnTime /\ BurstIsInTime /\ BurstIsReported

-----------------------------------------------------------------------------
(* Patterns and sums.                                                      *)

\* No window is longer than the hour the scan looks back, and every threshold counts.
LEMMA WindowsFit ==
    ASSUME NEW p \in Watched
    PROVE  /\ Window(p) \in Nat /\ Window(p) <= Hour
           /\ Patterns[p].threshold \in Nat \ {0}
           /\ LongestBurst(p) \in Int
           /\ LongestBurst(p) + MaxShip + Pause + 2 * MaxScan + 1 = Window(p)
<1>. USE PatternsAssumption
<1>1. Patterns[p].window \in 5..60 /\ Patterns[p].threshold \in Nat \ {0}
  BY DEF Patterns
<1>2. \A m \in Nat, w \in 5..60 : m * w \in Nat /\ m * w <= 60 * m
  OBVIOUS
<1>3. Window(p) \in Nat /\ Window(p) <= Hour
  BY <1>1, <1>2 DEF Window, Hour
<1>. QED
  BY <1>1, <1>3 DEF LongestBurst

\* A batch counts for all of its entries.
LEMMA EntriesAreFinite ==
    ASSUME NEW S, IsFiniteSet(S), S \subseteq LogBatch
    PROVE  IsFiniteSet(UNION {{b} \X (1..b.count) : b \in S})
<1>. DEFINE Own(b) == {b} \X (1..b.count)
            all == {Own(b) : b \in S}
            f == [b \in S |-> Own(b)]
<1>1. \A b \in S : IsFiniteSet(Own(b))
  <2>. SUFFICES ASSUME NEW b \in S PROVE IsFiniteSet(Own(b))
    OBVIOUS
  <2>1. IsFiniteSet({b})
    BY FS_Singleton
  <2>2. IsFiniteSet(1..b.count)
    <3>. HIDE DEF Own, all, f
    <3>1. b \in LogBatch /\ BatchSizes \subseteq Nat
      BY PatternsAssumption
    <3>2. b.count \in Nat
      BY <3>1 DEF LogBatch
    <3>3. b.count \in Int /\ 1 \in Int
      BY <3>2
    <3>. QED
      BY <3>3, FS_Interval
  <2>. QED
    BY <2>1, <2>2, FS_Product
<1>2. IsFiniteSet(all)
  <2>1. f \in Surjection(S, all)
    BY DEF Surjection
  <2>. HIDE DEF f, all
  <2>. QED
    BY <2>1, FS_Surjection
<1>3. \A s \in all : IsFiniteSet(s)
  BY <1>1
<1>4. IsFiniteSet(UNION all)
  <2>. HIDE DEF all
  <2>. QED
    BY <1>2, <1>3, FS_UNION
<1>. QED
  BY <1>4

\* More batches are not fewer entries; none of them, none.
LEMMA SumsGrow ==
    ASSUME NEW T, IsFiniteSet(T), T \subseteq LogBatch, NEW S \in SUBSET T
    PROVE  SumOf(S) \in Nat /\ SumOf(T) \in Nat /\ SumOf(S) <= SumOf(T)
<1>. DEFINE E(X) == UNION {{b} \X (1..b.count) : b \in X}
<1>1. IsFiniteSet(E(T)) /\ E(S) \in SUBSET E(T)
  BY EntriesAreFinite
<1>2. SumOf(S) = Cardinality(E(S)) /\ SumOf(T) = Cardinality(E(T))
  BY DEF SumOf
<1>. HIDE DEF E
<1>3. IsFiniteSet(E(S)) /\ Cardinality(E(S)) <= Cardinality(E(T))
  BY <1>1, FS_Subset
<1>. QED
  BY <1>1, <1>2, <1>3, FS_CardinalityType

LEMMA NoSum == SumOf({}) = 0
<1>1. UNION {{b} \X (1..b.count) : b \in {}} = {}
  OBVIOUS
<1>. QED
  BY <1>1, FS_EmptySet DEF SumOf

\* A burst is of written batches, none when the longest one is negative.
LEMMA BurstShape ==
    ASSUME PatternsTyped, NEW p \in Watched, NEW from \in Units,
           SumOf(Burst(p, from)) >= Patterns[p].threshold
    PROVE  0 <= LongestBurst(p)
<1>. SUFFICES ASSUME LongestBurst(p) < 0 PROVE FALSE
  BY WindowsFit
<1>1. \A t \in Nat : t \notin from..(from + LongestBurst(p))
  BY WindowsFit, PatternsAssumption DEF Units
<1>2. \A b \in written \cup agentLogs : b.ts \in Nat
  BY PatternsAssumption DEF PatternsTyped, PatternsTypeOK, LogBatch, Units
<1>3. Burst(p, from) = {}
  BY <1>1, <1>2 DEF Burst
<1>. QED
  BY <1>3, NoSum, WindowsFit

\* The next count is at most a pause and two scans away.
LEMMA DeadlineIsNear ==
    ASSUME PatternsTyped, ScansOnTime, NEW p \in Watched
    PROVE  /\ Deadline(p) \in Int
           /\ instant <= Deadline(p)
           /\ Deadline(p) <= instant + Pause + 2 * MaxScan
BY PatternsAssumption DEF PatternsTyped, PatternsTypeOK, ScansOnTime, Deadline, Units

\* After the last batch of a burst has been shipped, it is all that a count needs.
LEMMA BurstIsDetected ==
    ASSUME PatternsTyped, ScansOnTime, NEW p \in Watched, NEW from \in Units,
           SumOf(Burst(p, from)) >= Patterns[p].threshold,
           instant < from + Window(p), instant > from + LongestBurst(p) + MaxShip
    PROVE  Detected(p)
<1>. USE PatternsAssumption
<1>1. Burst(p, from) \subseteq Matching(p)
  <2>. SUFFICES ASSUME NEW b \in Burst(p, from) PROVE b \in Matching(p)
    OBVIOUS
  <2>1. b.ts \in Nat /\ b.pattern = p /\ b.ts >= from /\ b.ts <= from + LongestBurst(p)
    BY WindowsFit DEF Burst, PatternsTyped, PatternsTypeOK, LogBatch, Units
  <2>2. b \in agentLogs
    BY <2>1, WindowsFit DEF Burst, ScansOnTime, PatternsTyped, PatternsTypeOK, Units
  <2>3. Hour \in Nat
    BY DEF Hour
  <2>4. b.ts + Window(p) > instant /\ b.ts + Hour > instant
    BY <2>1, <2>3, WindowsFit DEF PatternsTyped, PatternsTypeOK, Units
  <2>. QED
    BY <2>1, <2>2, <2>4 DEF Matching
<1>2. IsFiniteSet(Matching(p)) /\ Matching(p) \subseteq LogBatch
  <2>1. Matching(p) \in SUBSET (written \cup agentLogs)
    BY DEF Matching
  <2>. QED
    BY <2>1, FS_Subset DEF PatternsTyped, PatternsTypeOK
<1>3. SumOf(Burst(p, from)) \in Nat /\ SumOf(Matching(p)) \in Nat
      /\ SumOf(Burst(p, from)) <= SumOf(Matching(p))
  BY <1>1, <1>2, SumsGrow
<1>. QED
  BY <1>3, WindowsFit DEF Detected

-----------------------------------------------------------------------------
(* Types and times.                                                        *)

\* The fields of a scan that has counted one pattern.
LEMMA ScannedShape ==
    ASSUME NEW s \in [todo : SUBSET Watched, wake : Nat, since : Units],
           NEW rest \in SUBSET Watched, NEW wake \in Nat
    PROVE  LET u == [s EXCEPT !.todo = rest, !.wake = wake] IN
             /\ u \in [todo : SUBSET Watched, wake : Nat, since : Units]
             /\ u.todo = rest /\ u.wake = wake /\ u.since = s.since
OBVIOUS

LEMMA PatternCounted ==
    ASSUME PatternsTyped, NEW p \in scan.todo, Scanned(p)
    PROVE  /\ scan' \in [todo : SUBSET Watched, wake : Nat, since : Units]
           /\ scan'.todo = scan.todo \ {p} /\ scan'.since = scan.since
           /\ scan'.todo = {} => scan'.wake = instant + Pause
<1>. DEFINE rest == scan.todo \ {p}
            wake == IF rest = {} THEN instant + Pause ELSE scan.wake
<1>1. scan \in [todo : SUBSET Watched, wake : Nat, since : Units]
  BY DEF PatternsTyped, PatternsTypeOK
<1>2. rest \in SUBSET Watched
  BY <1>1
<1>3. wake \in Nat
  BY <1>1, PatternsAssumption DEF PatternsTyped, PatternsTypeOK, Units
<1>4. scan' = [scan EXCEPT !.todo = rest, !.wake = wake]
  BY DEF Scanned
<1>5. rest = {} => wake = instant + Pause
  OBVIOUS
<1>6. rest = scan.todo \ {p}
  OBVIOUS
<1>. HIDE DEF rest, wake
<1>. QED
  BY <1>1, <1>2, <1>3, <1>4, <1>5, <1>6, ScannedShape

LEMMA PatternsTypes ==
    ASSUME PatternsTyped, [PatternsNext]_patternsVars
    PROVE  PatternsTyped'
<1>. USE PatternsAssumption DEF PatternsTyped, PatternsTypeOK
<1>1. ASSUME NEW b \in LogBatch, WriteBatch(b) PROVE PatternsTyped'
  <2>1. written' \cup agentLogs' = (written \cup agentLogs) \cup {b}
    BY <1>1 DEF WriteBatch
  <2>2. IsFiniteSet(written' \cup agentLogs')
    BY <2>1, FS_AddElement
  <2>. QED
    BY <1>1, <2>2 DEF WriteBatch
<1>2. ASSUME NEW b \in written, ShipBatch(b) PROVE PatternsTyped'
  <2>1. written' \cup agentLogs' = written \cup agentLogs
    BY <1>2 DEF ShipBatch
  <2>. QED
    BY <1>2, <2>1 DEF ShipBatch
<1>3. CASE StartScan
  BY <1>3 DEF StartScan
<1>4. ASSUME NEW p \in Watched, Fire(p)
      PROVE  DOMAIN fired' \subseteq Watched /\ fired' \in [DOMAIN fired' -> Alert]
  <2>1. [ts |-> instant, acked |-> FALSE] \in Alert
    BY DEF Alert
  <2>. QED
    BY <1>4, <2>1 DEF Fire, Put
<1>5. ASSUME NEW p \in scan.todo, Scanned(p)
      PROVE  scan' \in [todo : SUBSET Watched, wake : Nat, since : Units]
  BY <1>5, PatternCounted
<1>6. ASSUME NEW p \in Watched, ScanPattern(p) PROVE PatternsTyped'
  BY <1>6, <1>4, <1>5 DEF ScanPattern
<1>7. ASSUME NEW p \in Watched, PatternFails(p) PROVE PatternsTyped'
  BY <1>7, <1>5 DEF PatternFails, Put
<1>8. ASSUME NEW p \in Watched, ScanByHand(p) PROVE PatternsTyped'
  BY <1>8, <1>4 DEF ScanByHand
<1>9. ASSUME NEW p \in DOMAIN fired, AckFired(p) PROVE PatternsTyped'
  <2>1. [fired[p] EXCEPT !.acked = TRUE] \in Alert
    BY DEF Alert
  <2>2. DOMAIN fired' = DOMAIN fired /\ fired' \in [DOMAIN fired -> Alert]
    BY <1>9, <2>1 DEF AckFired
  <2>. QED
    BY <1>9, <2>2 DEF AckFired
<1>10. CASE PatternsRestart
  BY <1>10 DEF PatternsRestart, Units
<1>11. CASE UnitPasses
  BY <1>11 DEF UnitPasses, Units
<1>12. CASE UNCHANGED patternsVars
  BY <1>12 DEF patternsVars
<1>. QED
  BY <1>1, <1>2, <1>3, <1>6, <1>7, <1>8, <1>9, <1>10, <1>11, <1>12 DEF PatternsNext

\* What a step does to the clock, the scan, the alerts and the history of failures.
LEMMA PatternsSteps ==
    ASSUME PatternsTyped, PatternsTyped', ScansOnTime, [PatternsNext]_patternsVars
    PROVE  ScansOnTime'
<1>. USE PatternsAssumption DEF PatternsTyped, PatternsTypeOK, ScansOnTime, LogBatch, Units
<1>1. ASSUME NEW b \in LogBatch, WriteBatch(b) PROVE ScansOnTime'
  BY <1>1 DEF WriteBatch
<1>2. ASSUME NEW b \in written, ShipBatch(b) PROVE ScansOnTime'
  BY <1>2 DEF ShipBatch
<1>3. CASE StartScan
  BY <1>3 DEF StartScan
<1>4. ASSUME NEW p \in Watched, Fire(p), instant' = instant
      PROVE  \A q \in DOMAIN fired' : fired'[q].ts <= instant'
  BY <1>4 DEF Fire, Put
<1>5. ASSUME NEW p \in scan.todo, Scanned(p), instant' = instant
      PROVE  /\ scan'.since <= instant'
             /\ scan'.todo = {} => instant' <= scan'.wake
             /\ scan'.todo = {} => scan'.wake <= instant' + Pause
             /\ scan'.todo # {} => instant' <= scan'.since + MaxScan
  <2>1. /\ scan'.todo = scan.todo \ {p} /\ scan'.since = scan.since
        /\ scan'.todo = {} => scan'.wake = instant + Pause
    <3>. HIDE DEF PatternsTyped
    <3>. QED
      BY <1>5, PatternCounted
  <2>2. scan.todo # {}
    OBVIOUS
  <2>. QED
    BY <1>5, <2>1, <2>2
<1>6. ASSUME NEW p \in Watched, ScanPattern(p) PROVE ScansOnTime'
  BY <1>6, <1>4, <1>5 DEF ScanPattern
<1>7. ASSUME NEW p \in Watched, PatternFails(p) PROVE ScansOnTime'
  BY <1>7, <1>5 DEF PatternFails, Put
<1>8. ASSUME NEW p \in Watched, ScanByHand(p) PROVE ScansOnTime'
  BY <1>8, <1>4 DEF ScanByHand
<1>9. ASSUME NEW p \in DOMAIN fired, AckFired(p) PROVE ScansOnTime'
  <2>1. \A q \in DOMAIN fired : fired'[q].ts = fired[q].ts
    BY <1>9 DEF AckFired, Alert
  <2>2. DOMAIN fired' = DOMAIN fired
    BY <1>9 DEF AckFired
  <2>. QED
    BY <1>9, <2>1, <2>2 DEF AckFired
<1>10. CASE PatternsRestart
  BY <1>10 DEF PatternsRestart
<1>11. CASE UnitPasses
  BY <1>11 DEF UnitPasses, Alert
<1>12. CASE UNCHANGED patternsVars
  BY <1>12 DEF patternsVars
<1>. QED
  BY <1>1, <1>2, <1>3, <1>6, <1>7, <1>8, <1>9, <1>10, <1>11, <1>12 DEF PatternsNext

\* What was reported stays reported.
LEMMA ReportsStay ==
    ASSUME PatternsTyped, ScansOnTime, [PatternsNext]_patternsVars,
           NEW p \in Watched, NEW from \in Units, Reported(p, from)
    PROVE  Reported(p, from)'
<1>. USE PatternsAssumption DEF PatternsTyped, PatternsTypeOK, Units
<1>1. ASSUME p \in DOMAIN fired
      PROVE  p \in DOMAIN fired' /\ fired'[p].ts \in Nat /\ fired'[p].ts >= fired[p].ts
  <2>1. fired[p].ts \in Nat /\ fired[p].ts <= instant /\ instant \in Nat
    BY <1>1 DEF Alert, ScansOnTime
  <2>2. ASSUME NEW q \in Watched, Fire(q) PROVE p \in DOMAIN fired' /\ fired'[p].ts \in Nat /\ fired'[p].ts >= fired[p].ts
    BY <1>1, <2>1, <2>2 DEF Fire, Put
  <2>3. ASSUME NEW q \in DOMAIN fired, AckFired(q)
        PROVE p \in DOMAIN fired' /\ fired'[p].ts = fired[p].ts
    BY <1>1, <2>3 DEF AckFired, Alert
  <2>. QED
    BY <1>1, <2>1, <2>2, <2>3 DEF PatternsNext, patternsVars, WriteBatch, ShipBatch, StartScan,
       ScanPattern, PatternFails, ScanByHand, PatternsRestart, UnitPasses
<1>2. ASSUME p \in DOMAIN trouble.last
      PROVE  /\ p \in DOMAIN trouble'.last
             /\ trouble'.last[p] \in Nat /\ trouble'.last[p] >= trouble.last[p]
  <2>1. trouble.last[p] \in Nat /\ trouble.last[p] <= instant /\ instant \in Nat
    BY <1>2 DEF ScansOnTime
  <2>2. CASE trouble' = trouble
    BY <1>2, <2>1, <2>2
  <2>3. ASSUME NEW q \in Watched, PatternFails(q)
        PROVE  /\ p \in DOMAIN trouble'.last
               /\ trouble'.last[p] \in Nat /\ trouble'.last[p] >= trouble.last[p]
    BY <1>2, <2>1, <2>3 DEF PatternFails, Put
  <2>4. CASE PatternsRestart
    BY <1>2, <2>1, <2>4 DEF PatternsRestart
  <2>. QED
    BY <2>2, <2>3, <2>4 DEF PatternsNext, patternsVars, WriteBatch, ShipBatch, StartScan,
       ScanPattern, ScanByHand, AckFired, UnitPasses
<1>. QED
  BY <1>1, <1>2 DEF Reported, Alert

\* A count of p, or its failure, reports a burst that is all there.
LEMMA CountReports ==
    ASSUME PatternsTyped, ScansOnTime, NEW p \in Watched, NEW from \in Units,
           from <= instant,
           \/ Detected(p) /\ Fire(p)
           \/ PatternFails(p)
           \/ PatternsRestart
    PROVE  Reported(p, from)'
<1>. USE PatternsAssumption DEF PatternsTyped, PatternsTypeOK, Units
<1>1. CASE Detected(p) /\ Fire(p) /\ Duplicate(p)
  BY <1>1 DEF Fire, Duplicate, Reported, Alert
<1>2. CASE Detected(p) /\ Fire(p) /\ ~Duplicate(p)
  BY <1>2 DEF Fire, Reported, Put
<1>3. CASE PatternFails(p)
  BY <1>3 DEF PatternFails, Reported, Put
<1>4. CASE PatternsRestart
  BY <1>4 DEF PatternsRestart, Reported
<1>. QED
  BY <1>1, <1>2, <1>3, <1>4

\* Nothing else puts the next count off.
LEMMA DeadlineStays ==
    ASSUME PatternsTyped, ScansOnTime, [PatternsNext]_patternsVars, NEW p \in Watched,
           ~ScanPattern(p), ~PatternFails(p), ~PatternsRestart
    PROVE  Deadline(p)' <= Deadline(p)
<1>. USE PatternsAssumption DEF PatternsTyped, PatternsTypeOK, ScansOnTime, Units
<1>1. CASE scan' = scan
  BY <1>1 DEF Deadline
<1>2. CASE StartScan
  BY <1>2 DEF StartScan, Deadline
<1>3. ASSUME NEW q \in scan.todo, q # p, Scanned(q) PROVE Deadline(p)' <= Deadline(p)
  <2>1. scan'.since = scan.since /\ scan'.todo = scan.todo \ {q} /\ scan.todo # {}
    BY <1>3, PatternCounted
  <2>2. scan'.todo = {} => p \notin scan.todo
    BY <1>3, <2>1
  <2>3. scan'.todo = {} => scan'.wake = instant + Pause
    BY <1>3, PatternCounted
  <2>4. p \in scan'.todo <=> p \in scan.todo
    BY <1>3, <2>1
  <2>. QED
    BY <2>1, <2>2, <2>3, <2>4 DEF Deadline
<1>. QED
  BY <1>1, <1>2, <1>3 DEF PatternsNext, patternsVars, WriteBatch, ShipBatch,
     ScanPattern, PatternFails, ScanByHand, AckFired, UnitPasses

\* An entry written now belongs to no burst whose last entry was shipped.
LEMMA BurstIsOver ==
    ASSUME PatternsTyped, ScansOnTime, [PatternsNext]_patternsVars,
           NEW p \in Watched, NEW from \in Units, instant > from + LongestBurst(p)
    PROVE  Burst(p, from)' = Burst(p, from)
<1>. USE PatternsAssumption DEF PatternsTyped, PatternsTypeOK, Units
<1>1. ASSUME NEW b \in LogBatch, WriteBatch(b) PROVE Burst(p, from)' = Burst(p, from)
  <2>1. b.ts \notin from..(from + LongestBurst(p))
    BY <1>1, WindowsFit DEF WriteBatch
  <2>2. written' \cup agentLogs' = (written \cup agentLogs) \cup {b}
    BY <1>1 DEF WriteBatch
  <2>3. LongestBurst(p)' = LongestBurst(p)
    BY DEF LongestBurst, Window
  <2>. QED
    BY <2>1, <2>2, <2>3 DEF Burst
<1>2. CASE written' \cup agentLogs' = written \cup agentLogs
  BY <1>2 DEF Burst
<1>3. ASSUME NEW b \in written, ShipBatch(b)
      PROVE  written' \cup agentLogs' = written \cup agentLogs
  BY <1>3 DEF ShipBatch
<1>. QED
  BY <1>1, <1>2, <1>3 DEF PatternsNext, patternsVars, StartScan,
     ScanPattern, PatternFails, ScanByHand, AckFired, PatternsRestart, UnitPasses

-----------------------------------------------------------------------------
(* Bursts.                                                                 *)

LEMMA BurstStep ==
    ASSUME PatternsInv, PatternsTyped', ScansOnTime', [PatternsNext]_patternsVars
    PROVE  BurstIsInTime'
<1>. USE PatternsAssumption DEF PatternsInv
<1>. SUFFICES ASSUME NEW p \in Watched, NEW from \in Units,
                     instant' < from + Window(p),
                     SumOf(Burst(p, from)') >= Patterns[p].threshold
              PROVE  Reported(p, from)' \/ Deadline(p)' < from + Window(p)
  BY DEF BurstIsInTime, Window, SumOf
<1>0. instant \in Nat /\ instant' \in Nat /\ from \in Nat /\ instant <= instant'
  BY DEF PatternsTyped, PatternsTypeOK, Units, PatternsNext, patternsVars, WriteBatch, ShipBatch,
     StartScan, ScanPattern, PatternFails, ScanByHand, AckFired, PatternsRestart, UnitPasses
<1>1. CASE instant' <= from + LongestBurst(p) + MaxShip
  <2>1. Deadline(p)' \in Int /\ Deadline(p)' <= instant' + Pause + 2 * MaxScan
    BY PatternsAssumption DEF PatternsTyped, PatternsTypeOK, ScansOnTime, Deadline, Units
  <2>. QED
    BY <1>0, <1>1, <2>1, WindowsFit
<1>2. CASE instant' > from + LongestBurst(p) + MaxShip
  <2>1. instant' <= instant + 1 /\ (instant' # instant => UnitPasses)
    BY DEF PatternsTyped, PatternsTypeOK, Units, PatternsNext, patternsVars, WriteBatch, ShipBatch,
       StartScan, ScanPattern, PatternFails, ScanByHand, AckFired, PatternsRestart, UnitPasses
  <2>2. Burst(p, from)' = Burst(p, from)
    <3>1. CASE instant > from + LongestBurst(p)
      BY <3>1, BurstIsOver
    <3>2. CASE instant <= from + LongestBurst(p)
      <4>1. UnitPasses
        BY <1>0, <1>2, <2>1, <3>2, WindowsFit, PatternsAssumption
      <4>. QED
        BY <4>1 DEF UnitPasses, Burst
    <3>. QED
      BY <1>0, <3>1, <3>2, WindowsFit
  <2>3. SumOf(Burst(p, from)) >= Patterns[p].threshold
    BY <2>2
  <2>4. Reported(p, from) \/ Deadline(p) < from + Window(p)
    BY <1>0, <2>3, WindowsFit DEF BurstIsInTime
  <2>5. CASE Reported(p, from)
    BY <2>5, ReportsStay
  <2>6. CASE ScanPattern(p) \/ PatternFails(p) \/ PatternsRestart
    <3>1. instant' = instant
      BY <2>6 DEF ScanPattern, PatternFails, PatternsRestart
    <3>2. from <= instant
      BY <1>0, <1>2, <2>3, <3>1, BurstShape, WindowsFit, PatternsAssumption
    <3>3. Detected(p)
      BY <1>0, <1>2, <2>3, <3>1, BurstIsDetected
    <3>. QED
      BY <2>6, <3>2, <3>3, CountReports DEF ScanPattern
  <2>7. CASE Deadline(p) < from + Window(p)
             /\ ~(ScanPattern(p) \/ PatternFails(p) \/ PatternsRestart)
    <3>1. Deadline(p)' <= Deadline(p)
      BY <2>7, DeadlineStays
    <3>2. Deadline(p) \in Int
      BY DeadlineIsNear
    <3>3. Deadline(p)' \in Int
      BY PatternsAssumption DEF PatternsTyped, PatternsTypeOK, ScansOnTime, Deadline, Units
    <3>. QED
      BY <1>0, <2>7, <3>1, <3>2, <3>3, WindowsFit
  <2>. QED
    BY <2>4, <2>5, <2>6, <2>7
<1>. QED
  BY <1>0, <1>1, <1>2, WindowsFit, PatternsAssumption

\* When the window closes, the burst was counted or its count has failed: the count was
\* due before, and the clock does not pass the due time of a count.
LEMMA ReportStep ==
    ASSUME PatternsInv, PatternsTyped', ScansOnTime', [PatternsNext]_patternsVars
    PROVE  BurstIsReported'
<1>. USE PatternsAssumption DEF PatternsInv
<1>. SUFFICES ASSUME NEW p \in Watched, NEW from \in Units,
                     instant' = from + Window(p),
                     SumOf(Burst(p, from)') >= Patterns[p].threshold
              PROVE  Reported(p, from)'
  BY DEF BurstIsReported, Window, SumOf
<1>0. instant \in Nat /\ instant' \in Nat /\ from \in Nat /\ instant <= instant'
      /\ instant' <= instant + 1 /\ (instant' # instant => UnitPasses)
  BY DEF PatternsTyped, PatternsTypeOK, Units, PatternsNext, patternsVars, WriteBatch, ShipBatch,
     StartScan, ScanPattern, PatternFails, ScanByHand, AckFired, PatternsRestart, UnitPasses
<1>1. Burst(p, from)' = Burst(p, from)
  <2>1. CASE UnitPasses
    BY <2>1 DEF UnitPasses, Burst
  <2>2. CASE instant' = instant
    <3>1. instant > from + LongestBurst(p)
      BY <1>0, <2>2, WindowsFit, PatternsAssumption
    <3>. QED
      BY <3>1, BurstIsOver
  <2>. QED
    BY <1>0, <2>1, <2>2
<1>2. SumOf(Burst(p, from)) >= Patterns[p].threshold
  BY <1>1
<1>3. CASE instant' = instant
  <2>1. Reported(p, from)
    BY <1>2, <1>3 DEF BurstIsReported
  <2>. QED
    BY <2>1, ReportsStay
<1>4. CASE instant' # instant
  <2>1. UnitPasses /\ instant < from + Window(p)
    BY <1>0, <1>4, WindowsFit
  <2>2. Reported(p, from) \/ Deadline(p) < from + Window(p)
    BY <1>2, <2>1 DEF BurstIsInTime
  <2>3. instant < Deadline(p)
    BY <2>1 DEF UnitPasses, Deadline, PatternsTyped, PatternsTypeOK, Units
  <2>4. Deadline(p) \in Int
    BY DeadlineIsNear
  <2>5. Reported(p, from)
    BY <1>0, <1>4, <2>2, <2>3, <2>4, WindowsFit
  <2>. QED
    BY <2>5, ReportsStay
<1>. QED
  BY <1>3, <1>4

LEMMA PatternsStart == PatternsInit => PatternsInv
<1>. SUFFICES ASSUME PatternsInit PROVE PatternsInv
  OBVIOUS
<1>. USE PatternsAssumption
<1>0. DOMAIN Empty = {} /\ \A S : Empty \in [{} -> S]
  BY DEF Empty
<1>1. PatternsTyped
  <2>1. IsFiniteSet(written \cup agentLogs)
    <3>1. written \cup agentLogs = {}
      BY DEF PatternsInit
    <3>. QED
      BY <3>1, FS_EmptySet
  <2>. QED
    BY <1>0, <2>1 DEF PatternsInit, PatternsTyped, PatternsTypeOK, NoTrouble, Units
<1>2. ScansOnTime
  BY <1>0 DEF PatternsInit, ScansOnTime, NoTrouble
<1>3. \A p \in Watched, from \in Units : ~(SumOf(Burst(p, from)) >= Patterns[p].threshold)
  <2>. SUFFICES ASSUME NEW p \in Watched, NEW from \in Units
                PROVE  ~(SumOf(Burst(p, from)) >= Patterns[p].threshold)
    OBVIOUS
  <2>1. Burst(p, from) = {}
    BY DEF PatternsInit, Burst
  <2>. QED
    BY <2>1, NoSum, WindowsFit
<1>. QED
  BY <1>1, <1>2, <1>3 DEF PatternsInv, BurstIsInTime, BurstIsReported

LEMMA PatternsStep == PatternsInv /\ [PatternsNext]_patternsVars => PatternsInv'
<1>. SUFFICES ASSUME PatternsInv, [PatternsNext]_patternsVars PROVE PatternsInv'
  OBVIOUS
<1>1. PatternsTyped'
  BY PatternsTypes DEF PatternsInv
<1>2. ScansOnTime'
  BY <1>1, PatternsSteps DEF PatternsInv
<1>3. BurstIsInTime'
  BY <1>1, <1>2, BurstStep
<1>4. BurstIsReported'
  BY <1>1, <1>2, ReportStep
<1>. QED
  BY <1>1, <1>2, <1>3, <1>4 DEF PatternsInv

\* The clock, the batches, the scan and the alerts of log_patterns.py are well typed.
THEOREM PatternsAreTyped == PatternsSpec => []PatternsTypeOK
<1>1. PatternsInv => PatternsTypeOK
  BY DEF PatternsInv, PatternsTyped
<1>. QED
  BY <1>1, PatternsStart, PatternsStep, PTL DEF PatternsSpec

\* However entries are late, scans overlap with requests and alerts are acknowledged,
\* scan_patterns reports every burst by the end of its window, or one of its scans failed
\* or was cut off meanwhile.
THEOREM BurstsAreReported == PatternsSpec => []BurstIsReported
<1>1. PatternsInv => BurstIsReported
  BY DEF PatternsInv
<1>. QED
  BY <1>1, PatternsStart, PatternsStep, PTL DEF PatternsSpec

===================================================================================
