-------------------------------- MODULE Snapshots --------------------------------
(***************************************************************************)
(* Snapshots that are probed over SSH and kept for a week: databases       *)
(* (vpsmon/databases.py), web servers (webanalytics.py), Windows checks    *)
(* (windows_checks.py) and docker images (docker_updates.py).  One kind at *)
(* a time: they share nothing but the servers table.                       *)
(*                                                                         *)
(* Rows of one target that are equally old (kept or expired) are one       *)
(* element.  The clock is left out: a row expires at any time.             *)
(***************************************************************************)
EXTENDS ServerTable

CONSTANTS
    MaxChecks,        \* bound: Windows checks of one target in a row
    MaxSnapFaults     \* bound: exceptions of statements and restarts

ASSUME SnapshotsAssumption ==
    MaxChecks \in Nat \ {0} /\ MaxSnapFaults \in Nat /\ Hosts \ OddHosts # {}

VARIABLES
    kind,         \* which of the four
    snapshots,    \* its table
    worker,       \* the loop and one request
    snapFaults

snapVars == <<kind, snapshots, worker, snapFaults>>
snapshotsVars == <<tableVars, snapVars>>

Kinds == {"db", "web", "windows", "images"}
Local == 0
Targets == {Local} \cup ServerIds
Workers == {"loop", "request"}

\* Scripts run on one target in a row: the detection of databases; the analysis of
\* the log; IIS, RDP, updates and scheduled tasks; the check of the images.
Checks == [db |-> 1, web |-> 1, windows |-> IF MaxChecks < 4 THEN MaxChecks ELSE 4,
           images |-> 1]

(* What the last line of an output that starts with a brace is: a reading,  *)
(* an object that names an error, or nothing that parses (also when ssh     *)
(* failed or was killed at its timeout).                                    *)

\* The object the detection prints begins and ends on lines of their own, and the
\* brace alone does not parse: no database is ever found, and the probes of
\* postgres, mysql and redis and their _store are never reached.
DbAnswers == {"nothing"}
\* An access log that is missing or cannot be analysed is an error.
WebAnswers == {"reading", "error", "nothing"}
\* A failed script still prints a reading: false or -1.
WindowsAnswers == {"reading", "nothing"}
\* No docker on the host, or a check that failed, is an error.
ImageAnswers == {"reading", "error", "nothing"}

Answers == CASE kind = "db" -> DbAnswers
             [] kind = "web" -> WebAnswers
             [] kind = "windows" -> WindowsAnswers
             [] kind = "images" -> ImageAnswers

HasLoop == kind # "images"

AtRest == [pc |-> "sleep"]
At(pc, cur, left, todo) == [pc |-> pc, cur |-> cur, left |-> left, todo |-> todo]
Worker == [pc : {"sleep"}]
    \cup [pc : {"list", "prune"}]
    \cup [pc : {"lookup", "probe", "drop"}, cur : Targets, left : 1..MaxChecks,
          todo : SUBSET ServerIds]

SnapshotsInit ==
    /\ TableInit
    /\ kind \in Kinds
    /\ snapshots = {}
    /\ worker = [w \in Workers |-> AtRest]
    /\ snapFaults = 0

Move(w, to) == worker' = [worker EXCEPT ![w] = to]

-----------------------------------------------------------------------------
(* Where a worker goes next.                                               *)

\* What the loop does when its last target is done: only web prunes here.
LoopDone == [pc |-> IF kind = "web" THEN "prune" ELSE "sleep"]

AfterTarget(w) ==
    LET me == worker[w] IN
    CASE w = "request" -> Move(w, AtRest)
      [] w = "loop" /\ me.cur = Local -> Move(w, [pc |-> "list"])
      [] OTHER -> IF me.todo = {} THEN Move(w, LoopDone)
                  ELSE \E s \in me.todo :
                         Move(w, At("lookup", s, Checks[kind], me.todo \ {s}))

\* The next of the target's checks, or the next target.
AfterCheck(w) ==
    LET me == worker[w] IN
    IF me.left > 1 THEN Move(w, At("lookup", me.cur, me.left - 1, me.todo))
    ELSE AfterTarget(w)

-----------------------------------------------------------------------------

\* The loop begins with the local host, the Windows loop with the list.
Wake ==
    /\ HasLoop
    /\ worker["loop"].pc = "sleep"
    /\ Move("loop", IF kind = "windows" THEN [pc |-> "list"]
                    ELSE At("lookup", Local, Checks[kind], {}))
    /\ UNCHANGED <<tableVars, kind, snapshots, snapFaults>>

Request(s) ==
    /\ worker["request"].pc = "sleep"
    /\ kind = "windows" => s # Local
    /\ Move("request", At("lookup", s, Checks[kind], {}))
    /\ UNCHANGED <<tableVars, kind, snapshots, snapFaults>>

\* list_servers, then only enabled servers; Windows also asks for each whether
\* its agent reports that system.
List ==
    /\ worker["loop"].pc = "list"
    /\ \E due \in IF kind = "windows" THEN SUBSET Enabled ELSE {Enabled} :
         IF due = {} THEN Move("loop", LoopDone)
         ELSE \E s \in due : Move("loop", At("lookup", s, Checks[kind], due \ {s}))
    /\ UNCHANGED <<tableVars, kind, snapshots, snapFaults>>

\* get_server: a server deleted since the list was read is answered with an
\* error and nothing is stored.
Lookup(w) ==
    /\ worker[w].pc = "lookup"
    /\ IF worker[w].cur \in Listed \cup {Local}
         THEN Move(w, [worker[w] EXCEPT !.pc = "probe"])
         ELSE AfterCheck(w)
    /\ UNCHANGED <<tableVars, kind, snapshots, snapFaults>>

\* What parses is inserted at once (the INSERT reads nothing), errors too: only the
\* Windows checks look, and their _store goes on with the DELETE.
ProbeEnds(w) ==
    /\ worker[w].pc = "probe"
    /\ \E answer \in Answers :
         IF answer = "nothing" THEN AfterCheck(w) /\ UNCHANGED snapshots
         ELSE /\ snapshots' = snapshots \cup {[of |-> worker[w].cur, expired |-> FALSE]}
              /\ IF kind = "windows" THEN Move(w, [worker[w] EXCEPT !.pc = "drop"])
                 ELSE AfterCheck(w)
    /\ UNCHANGED <<tableVars, kind, snapFaults>>

\* Mutant: only rows of the server that was just probed are dropped.
KeptOf(s) == {r \in snapshots : r.of = s => ~r.expired}
Kept(s) == {r \in snapshots : ~r.expired}

\* The second statement of _store: rows of all servers older than seven days.
DropOld(w) ==
    /\ worker[w].pc = "drop"
    /\ snapshots' = Kept(worker[w].cur)
    /\ AfterCheck(w)
    /\ UNCHANGED <<tableVars, kind, snapFaults>>

Prune ==
    /\ worker["loop"].pc = "prune"
    /\ snapshots' = {r \in snapshots : ~r.expired}
    /\ Move("loop", AtRest)
    /\ UNCHANGED <<tableVars, kind, snapFaults>>

\* An exception: the next server if there is one, otherwise the end of the round
\* (of the local host: without the list); a request answers 500.
SnapFails(w) ==
    /\ worker[w].pc # "sleep"
    /\ snapFaults < MaxSnapFaults
    /\ snapFaults' = snapFaults + 1
    /\ CASE w = "request" \/ worker[w].pc = "prune" -> Move(w, AtRest)
         [] w = "loop" /\ worker[w].pc = "list" -> Move(w, LoopDone)
         [] OTHER -> IF worker[w].cur = Local THEN Move(w, LoopDone)
                     ELSE IF kind = "windows" THEN AfterCheck(w) ELSE AfterTarget(w)
    /\ UNCHANGED <<tableVars, kind, snapshots>>

SnapRestart ==
    /\ snapFaults < MaxSnapFaults
    /\ snapFaults' = snapFaults + 1
    /\ worker' = [w \in Workers |-> AtRest]
    /\ UNCHANGED <<tableVars, kind, snapshots>>

Expire(r) ==
    /\ r \in snapshots /\ ~r.expired
    /\ snapshots' = (snapshots \ {r}) \cup {[r EXCEPT !.expired = TRUE]}
    /\ UNCHANGED <<tableVars, kind, worker, snapFaults>>

\* Which host a server has makes no difference here: a port that does not parse makes
\* the answer "nothing" or the worker fail.
AnyHost == CHOOSE h \in Hosts : h \notin OddHosts

EditTable ==
    /\ \/ AddServer(AnyHost)
       \/ \E s \in ServerIds, e \in BOOLEAN : UpdateServer(s, [host |-> AnyHost, enabled |-> e])
       \/ \E s \in ServerIds : DeleteServer(s)
    /\ UNCHANGED snapVars

WorkerStep(w) ==
    \/ Lookup(w) \/ ProbeEnds(w) \/ DropOld(w)
    \/ w = "loop" /\ (Wake \/ List \/ Prune)

SnapshotsNext ==
    \/ EditTable
    \/ \E s \in Targets : Request(s)
    \/ \E w \in Workers : WorkerStep(w) \/ SnapFails(w)
    \/ SnapRestart
    \/ \E r \in snapshots : Expire(r)

\* Every statement and every probe ends (30 s each, 120 s for images).
SnapshotsFairness == \A w \in Workers : WF_snapshotsVars(WorkerStep(w))

SnapshotsSpec == SnapshotsInit /\ [][SnapshotsNext]_snapshotsVars /\ SnapshotsFairness

-----------------------------------------------------------------------------
(* Properties.                                                             *)

\* Every state is well typed, and only servers that were added are stored.
SnapshotsTypeOK ==
    /\ lastId \in 0..MaxServers
    /\ Listed \subseteq 1..lastId /\ servers \in [Listed -> ServerRow]
    /\ kind \in Kinds
    /\ snapshots \subseteq [of : {Local} \cup 1..lastId, expired : BOOLEAN]
    /\ worker \in [Workers -> Worker]
    /\ snapFaults \in 0..MaxSnapFaults

\* Expired snapshots go away, those of deleted servers too: of web servers as
\* long as the loop runs, of Windows as long as some check is stored (the DELETE
\* is part of _store); the images have no retention at all.
SnapshotsExpire ==
    []<>(kind = "web" \/ \E w \in Workers : worker[w].pc = "drop")
        => []<>(\A r \in snapshots : ~r.expired)

=============================================================================
