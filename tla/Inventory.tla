-------------------------------- MODULE Inventory --------------------------------
(***************************************************************************)
(* What scans of the hosts leave in the database: pending updates, backups *)
(* and SSH keys (vpsmon/intel.py), cron jobs (vpsmon/cron_monitor.py).  A  *)
(* loop visits the local host and every server, a request of an operator   *)
(* does the same at the same time, and each store merges what was found in *)
(* its own way.  The four stores share nothing, so one is checked at a     *)
(* time.                                                                   *)
(*                                                                         *)
(* Rows of the local host have server_id NULL: NULL is equal to nothing in *)
(* a UNIQUE constraint and in =, and only IS finds it.                     *)
(***************************************************************************)
EXTENDS Naturals, FiniteSets

CONSTANTS
    RemoteHosts,
    Scanners,     \* the loop and requests
    Items,        \* what a host may have: backups, keys, jobs
    ScanCap,      \* entries a script prints: 50
    MaxScans      \* bound: visits of a host

ASSUME InventoryAssumption ==
    /\ "local" \notin RemoteHosts
    /\ ScanCap \in Nat /\ MaxScans \in Nat

VARIABLES
    store,      \* which of the four
    rows,       \* its table; a row is dated by the visit that inserted it
    scanner,
    visits,
    mixed       \* history: hosts two scans stored at the same time

inventoryVars == <<store, rows, scanner, visits, mixed>>

Stores == {"updates", "backups", "keys", "crons"}
HostsSeen == {"local"} \cup RemoteHosts
InventoryRow == [of : HostsSeen, item : Items, visit : 1..MaxScans]

Resting == [pc |-> "rest"]
Scanner == [pc : {"rest"}]
    \cup [pc : {"probe"}, of : HostsSeen, visit : 1..MaxScans]
    \cup [pc : {"clear"}, of : HostsSeen, visit : 1..MaxScans, todo : SUBSET Items]
    \cup [pc : {"put", "insert"}, of : HostsSeen, visit : 1..MaxScans,
          todo : SUBSET Items, item : Items]

AnyItem == CHOOSE i \in Items : TRUE

InventoryInit ==
    /\ store \in Stores
    /\ rows = {}
    /\ scanner = [w \in Scanners |-> Resting]
    /\ visits = 0
    /\ mixed = {}

\* Rows that WHERE server_id IS ? AND item = ? finds.
Existing(h, i) == {r \in rows : r.of = h /\ r.item = i}
\* Rows an INSERT conflicts with: NULL never does.
Conflict(h, i) == IF h = "local" THEN {} ELSE Existing(h, i)
NewRow(w, i) == [of |-> scanner[w].of, item |-> i, visit |-> scanner[w].visit]
Storing(w) == scanner[w].pc \in {"clear", "put", "insert"}
Shared(w) == \E v \in Scanners \ {w} : Storing(v) /\ scanner[v].of = scanner[w].of

Go(w, to) == scanner' = [scanner EXCEPT ![w] = to]

\* The next item, or the next host.
PutNext(w, todo) ==
    IF todo = {} THEN Go(w, Resting)
    ELSE \E i \in todo : Go(w, [pc |-> "put", of |-> scanner[w].of, visit |-> scanner[w].visit,
                                todo |-> todo \ {i}, item |-> i])

-----------------------------------------------------------------------------

\* A scan reaches a host; what it found elsewhere is another visit.
Visit(w, h) ==
    /\ scanner[w].pc = "rest"
    /\ visits < MaxScans
    /\ visits' = visits + 1
    /\ Go(w, [pc |-> "probe", of |-> h, visit |-> visits + 1])
    /\ UNCHANGED <<store, rows, mixed>>

(* What a scan may find; nothing when the script failed or did not end.     *)

\* One summary of the updates.
UpdatesFound == {{}, {AnyItem}}
\* Restic, borg, files and cron hints, of which the script prints the first.
BackupsFound == {items \in SUBSET Items : Cardinality(items) <= ScanCap}
\* The lines of all authorized_keys whose fingerprint could be computed.
KeysFound == SUBSET Items
\* Crontabs and timers, the first of them.
JobsFound == {items \in SUBSET Items : Cardinality(items) <= ScanCap}

Found == [updates |-> UpdatesFound, backups |-> BackupsFound, keys |-> KeysFound,
          crons |-> JobsFound]

ScanEnds(w, items) ==
    /\ scanner[w].pc = "probe"
    /\ items \in Found[store]
    /\ IF store = "backups"
         THEN Go(w, [pc |-> "clear", of |-> scanner[w].of, visit |-> scanner[w].visit,
                     todo |-> items])
         ELSE PutNext(w, items)
    /\ mixed' = IF Shared(w) THEN mixed \cup {scanner[w].of} ELSE mixed
    /\ UNCHANGED <<store, rows, visits>>

\* Mutant: DELETE ... WHERE server_id = ?, which finds no row of the local host.
ClearedEqual(h) == IF h = "local" THEN rows ELSE {r \in rows : r.of # h}
Cleared(h) == {r \in rows : r.of # h}

Clear(w) ==
    /\ scanner[w].pc = "clear"
    /\ rows' = Cleared(scanner[w].of)
    /\ PutNext(w, scanner[w].todo)
    /\ mixed' = IF Shared(w) THEN mixed ELSE mixed \ {scanner[w].of}
    /\ UNCHANGED <<store, visits>>

\* INSERT; ON CONFLICT DO UPDATE; INSERT OR IGNORE.
PutRow(w) ==
    LET h == scanner[w].of
        i == scanner[w].item IN
    CASE store = "backups" -> rows' = rows \cup {NewRow(w, i)}
      [] store = "updates" -> rows' = (rows \ Conflict(h, i)) \cup {NewRow(w, i)}
      [] store = "crons" -> rows' = IF Conflict(h, i) = {} THEN rows \cup {NewRow(w, i)} ELSE rows

Put1(w) ==
    /\ scanner[w].pc = "put"
    /\ store # "keys"
    /\ PutRow(w)
    /\ PutNext(w, scanner[w].todo)
    /\ UNCHANGED <<store, visits, mixed>>

\* A known key gets a new last_seen and keeps its first_seen.
SelectKey(w) ==
    /\ scanner[w].pc = "put"
    /\ store = "keys"
    /\ IF Existing(scanner[w].of, scanner[w].item) # {}
         THEN PutNext(w, scanner[w].todo)
         ELSE Go(w, [scanner[w] EXCEPT !.pc = "insert"])
    /\ UNCHANGED <<store, rows, visits, mixed>>

\* The key may have been stored since the SELECT: a conflict ends the visit.
InsertKey(w) ==
    /\ scanner[w].pc = "insert"
    /\ IF Conflict(scanner[w].of, scanner[w].item) # {}
         THEN Go(w, Resting) /\ UNCHANGED rows
         ELSE /\ rows' = rows \cup {NewRow(w, scanner[w].item)}
              /\ PutNext(w, scanner[w].todo)
    /\ UNCHANGED <<store, visits, mixed>>

\* An exception ends the visit, a restart the scan: what was stored stays.
ScanFails(w) ==
    /\ scanner[w].pc # "rest"
    /\ Go(w, Resting)
    /\ UNCHANGED <<store, rows, visits, mixed>>

\* handle_cron_delete: of the jobs only, by id.
DeleteJob(r) ==
    /\ store = "crons"
    /\ rows' = rows \ {r}
    /\ UNCHANGED <<store, scanner, visits, mixed>>

InventoryNext ==
    \/ \E w \in Scanners :
         \/ \E h \in HostsSeen : Visit(w, h)
         \/ \E items \in SUBSET Items : ScanEnds(w, items)
         \/ Clear(w) \/ Put1(w) \/ SelectKey(w) \/ InsertKey(w) \/ ScanFails(w)
    \/ \E r \in rows : DeleteJob(r)

InventorySpec == InventoryInit /\ [][InventoryNext]_inventoryVars

-----------------------------------------------------------------------------
(* Properties.                                                             *)

\* Every state is well typed.
InventoryTypeOK ==
    /\ store \in Stores
    /\ rows \subseteq InventoryRow
    /\ scanner \in [Scanners -> Scanner]
    /\ visits \in 0..MaxScans
    /\ mixed \subseteq HostsSeen

\* A store shows each thing once: all backups of a host come from one visit,
\* unless two scans of it overlapped and no clean one followed; a key has one row,
\* unless overlapping scans of the local host, whose NULL escapes the UNIQUE
\* constraint, inserted it twice; a server has one row of updates and one per job.
\* (The local host collects a row of updates and of every job with each visit.)
StoredOnce ==
    \A r1, r2 \in rows :
        /\ r1.of = r2.of /\ r1.visit # r2.visit
        /\ store = "backups" => r1.of \notin mixed
        /\ store = "keys" => r1.of \notin mixed \/ r1.of # "local"
        /\ store \in {"updates", "crons"} => r1.of # "local"
        => store # "backups" /\ r1.item # r2.item

=============================================================================
