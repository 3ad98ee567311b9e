------------------------------ MODULE RecordsProofs ------------------------------
(***************************************************************************)
(* Theorems about Terminal, for any connections and servers; about         *)
(* Snapshots, for any hosts, targets and checks; and about MCRecords,      *)
(* which runs them side by side with the stores and the feeds.             *)
(***************************************************************************)
EXTENDS MCRecords, StoresProofs, FeedsProofs, TLAPS

-----------------------------------------------------------------------------
(* Terminal.  What a handler holds depends on where it is: the pipes only  *)
(* while it bridges, the connection and the shell only inside of async     *)
(* with.                                                                   *)

HoldsByStage(t) ==
    /\ t.pc # "bridge" => t.out # "running" /\ t.inp # "running"
    /\ t.pc \in {"new", "lookup", "open", "connect", "close", "done"} =>
         t.ssh # "connected" /\ t.shell # "running"
    /\ t.pc \in {"new", "lookup", "open", "connect", "process"} => t.shell = "none"
    /\ t.pc \in {"new", "lookup", "open"} => t.openRow = "none"
    /\ t.pc = "done" /\ t.openRow # "none" => t.closeRow # "none"

TerminalInv == TerminalTypeOK /\ \A s \in Sessions : HoldsByStage(term[s])

LEMMA TerminalStart == TerminalInit => TerminalInv
<1>. SUFFICES ASSUME TerminalInit PROVE TerminalInv
  OBVIOUS
<1>1. \A t \in TermServers \cup {"local"} : NewTerm(t) \in TermRow /\ HoldsByStage(NewTerm(t))
  BY DEF NewTerm, TermRow, Ends, HoldsByStage
<1>. QED
  BY <1>1 DEF TerminalInit, TerminalInv, TerminalTypeOK

\* A step of one handler, pipe or side keeps all that its own record promises.
LEMMA TermSet ==
    ASSUME TerminalInv, NEW s \in Sessions, NEW new \in TermRow,
           SetTerm(s, new), HoldsByStage(new)
    PROVE  TerminalInv'
BY DEF TerminalInv, TerminalTypeOK, SetTerm

\* A session that only goes on.
LEMMA TermGoes ==
    ASSUME TerminalInv, NEW s \in Sessions, NEW p, Goto(s, p),
           \/ term[s].pc = "new" /\ p \in {"done", "open", "lookup"}
           \/ term[s].pc = "lookup" /\ p \in {"done", "open"}
           \/ term[s].pc = "connect" /\ p = "close"
           \/ term[s].pc \in {"process", "banner"} /\ p = "exit"
    PROVE  TerminalInv'
<1>. DEFINE t == term[s]
            u == [t EXCEPT !.pc = p]
<1>1. t \in TermRow /\ HoldsByStage(t)
  BY DEF TerminalInv, TerminalTypeOK
<1>2. u \in TermRow
  BY <1>1 DEF TermRow
<1>3. /\ u.pc = p /\ u.ssh = t.ssh /\ u.shell = t.shell /\ u.out = t.out /\ u.inp = t.inp
      /\ u.openRow = t.openRow /\ u.closeRow = t.closeRow
  BY <1>1 DEF TermRow
<1>4. SetTerm(s, u)
  BY DEF Goto
<1>. HIDE DEF u
<1>5. HoldsByStage(u)
  BY <1>1, <1>3 DEF HoldsByStage
<1>. QED
  BY <1>2, <1>4, <1>5, TermSet

\* What a restart does to the pipes and the closing row of a session.
LEMMA PipesCut ==
    ASSUME NEW t \in TermRow, NEW end \in Ends
    PROVE  LET u == [t EXCEPT !.out = "ended", !.inp = "ended", !.closeRow = end] IN
             /\ u \in TermRow
             /\ u.pc = t.pc /\ u.ssh = t.ssh /\ u.shell = t.shell
             /\ u.out = "ended" /\ u.inp = "ended" /\ u.closeRow = end
BY DEF TermRow

LEMMA TerminalStep == TerminalInv /\ [TerminalNext]_terminalVars => TerminalInv'
<1>. SUFFICES ASSUME TerminalInv, [TerminalNext]_terminalVars PROVE TerminalInv'
  OBVIOUS
<1>1. \A s \in Sessions : term[s] \in TermRow /\ HoldsByStage(term[s])
  BY DEF TerminalInv, TerminalTypeOK
<1>2. ASSUME NEW t \in TermServers, RemoveTermServer(t) PROVE TerminalInv'
  BY <1>2 DEF RemoveTermServer, TerminalInv, TerminalTypeOK
<1>3. ASSUME NEW s \in Sessions, BrowserLeaves(s) PROVE TerminalInv'
  <2>. DEFINE u == [term[s] EXCEPT !.browser = "left"]
  <2>1. u \in TermRow /\ HoldsByStage(u)
    BY <1>1 DEF TermRow, HoldsByStage
  <2>. QED
    BY <1>3, <2>1, TermSet DEF BrowserLeaves
<1>4. ASSUME NEW s \in Sessions, ShellExits(s) PROVE TerminalInv'
  <2>. DEFINE u == [term[s] EXCEPT !.shell = "ended"]
  <2>1. term[s].shell = "running" /\ SetTerm(s, u)
    BY <1>4 DEF ShellExits
  <2>2. u \in TermRow /\ HoldsByStage(u)
    BY <1>1, <2>1 DEF TermRow, HoldsByStage
  <2>. QED
    BY <2>1, <2>2, TermSet
<1>5. ASSUME NEW s \in Sessions,
             Accept(s) \/ GetServer(s) \/ (Connect(s) /\ Goto(s, "close"))
             \/ (CreateProcess(s) /\ Goto(s, "exit")) \/ (Banner(s) /\ Goto(s, "exit"))
      PROVE  TerminalInv'
  BY <1>5, TermGoes DEF Accept, GetServer, Connect, CreateProcess, Banner
<1>6. ASSUME NEW s \in Sessions, LogOpen(s) PROVE TerminalInv'
  <2>1. PICK end \in Ends \ {"none"} :
          SetTerm(s, [term[s] EXCEPT !.pc = "connect", !.openRow = end])
    BY <1>6 DEF LogOpen
  <2>. DEFINE u == [term[s] EXCEPT !.pc = "connect", !.openRow = end]
  <2>2. u \in TermRow /\ HoldsByStage(u)
    BY <1>1, <1>6 DEF TermRow, HoldsByStage, LogOpen
  <2>. QED
    BY <2>1, <2>2, TermSet
<1>7. ASSUME NEW s \in Sessions, Connect(s), ~Goto(s, "close") PROVE TerminalInv'
  <2>. DEFINE u == [term[s] EXCEPT !.pc = "process", !.ssh = "connected"]
  <2>1. term[s].pc = "connect" /\ SetTerm(s, u)
    BY <1>7 DEF Connect
  <2>2. u \in TermRow /\ HoldsByStage(u)
    BY <1>1, <2>1 DEF TermRow, HoldsByStage
  <2>. QED
    BY <2>1, <2>2, TermSet
<1>8. ASSUME NEW s \in Sessions, CreateProcess(s), ~Goto(s, "exit") PROVE TerminalInv'
  <2>. DEFINE u == [term[s] EXCEPT !.pc = "banner", !.shell = "running"]
  <2>1. term[s].pc = "process" /\ SetTerm(s, u)
    BY <1>8 DEF CreateProcess
  <2>2. u \in TermRow /\ HoldsByStage(u)
    BY <1>1, <2>1 DEF TermRow, HoldsByStage
  <2>. QED
    BY <2>1, <2>2, TermSet
<1>9. ASSUME NEW s \in Sessions, Banner(s), ~Goto(s, "exit") PROVE TerminalInv'
  <2>. DEFINE u == [term[s] EXCEPT !.pc = "bridge", !.out = "running", !.inp = "running"]
  <2>1. term[s].pc = "banner" /\ SetTerm(s, u)
    BY <1>9 DEF Banner
  <2>2. u \in TermRow /\ HoldsByStage(u)
    BY <1>1, <2>1 DEF TermRow, HoldsByStage
  <2>. QED
    BY <2>1, <2>2, TermSet
<1>10. ASSUME NEW s \in Sessions, PipeStep(s) PROVE TerminalInv'
  <2>1. CASE OutEnds(s)
    <3>. DEFINE u == [term[s] EXCEPT !.out = "ended"]
    <3>1. u \in TermRow /\ HoldsByStage(u)
      BY <1>1 DEF TermRow, HoldsByStage
    <3>. QED
      BY <2>1, <3>1, TermSet DEF OutEnds
  <2>2. CASE InEnds(s)
    <3>. DEFINE u == [term[s] EXCEPT !.inp = "ended"]
    <3>1. u \in TermRow /\ HoldsByStage(u)
      BY <1>1 DEF TermRow, HoldsByStage
    <3>. QED
      BY <2>2, <3>1, TermSet DEF InEnds
  <2>. QED
    BY <1>10, <2>1, <2>2 DEF PipeStep
<1>11. ASSUME NEW s \in Sessions, WaitPipes(s) PROVE TerminalInv'
  <2>. DEFINE u == [term[s] EXCEPT !.pc = "exit", !.out = "ended", !.inp = "ended"]
  <2>1. u \in TermRow /\ HoldsByStage(u)
    BY <1>1, <1>11 DEF TermRow, HoldsByStage, WaitPipes
  <2>. QED
    BY <1>11, <2>1, TermSet DEF WaitPipes
<1>12. ASSUME NEW s \in Sessions, ExitConnection(s) PROVE TerminalInv'
  <2>. DEFINE end == IF term[s].shell = "none" THEN "none" ELSE "ended"
              u == [term[s] EXCEPT !.pc = "close", !.ssh = "closed", !.shell = end]
  <2>1. u \in TermRow /\ HoldsByStage(u)
    BY <1>1, <1>12 DEF TermRow, HoldsByStage, ExitConnection
  <2>. QED
    BY <1>12, <2>1, TermSet DEF ExitConnection
<1>13. ASSUME NEW s \in Sessions, LogClose(s) PROVE TerminalInv'
  <2>1. PICK end \in Ends \ {"none"} :
          SetTerm(s, [term[s] EXCEPT !.pc = "done", !.closeRow = end])
    BY <1>13 DEF LogClose
  <2>. DEFINE u == [term[s] EXCEPT !.pc = "done", !.closeRow = end]
  <2>2. u \in TermRow /\ HoldsByStage(u)
    BY <1>1, <1>13 DEF TermRow, HoldsByStage, LogClose
  <2>. QED
    BY <2>1, <2>2, TermSet
<1>14. CASE TerminalRestart
  <2>. DEFINE Ssh(t) == IF t.ssh = "none" THEN "none" ELSE "closed"
              Shell(t) == IF t.shell = "none" THEN "none" ELSE "ended"
              Cut(t) == [t EXCEPT !.pc = "done", !.ssh = Ssh(t), !.shell = Shell(t),
                                  !.out = "ended", !.inp = "ended", !.closeRow = "lost"]
  <2>1. term' = [s \in Sessions |-> IF term[s].pc \in {"new", "done"} THEN term[s]
                                    ELSE Cut(term[s])]
        /\ known' = known
    BY <1>14 DEF TerminalRestart
  <2>2. \A t \in TermRow : Ssh(t) \in {"none", "closed"} /\ Shell(t) \in {"none", "ended"}
    OBVIOUS
  <2>. HIDE DEF Ssh, Shell
  <2>3. \A t \in TermRow : Cut(t) \in TermRow /\ HoldsByStage(Cut(t))
    <3>. SUFFICES ASSUME NEW t \in TermRow PROVE Cut(t) \in TermRow /\ HoldsByStage(Cut(t))
      OBVIOUS
    <3>. DEFINE v == [t EXCEPT !.pc = "done", !.ssh = Ssh(t), !.shell = Shell(t)]
                u == [v EXCEPT !.out = "ended", !.inp = "ended", !.closeRow = "lost"]
    <3>1. Cut(t) = u
      OBVIOUS
    <3>2. v \in TermRow /\ v.pc = "done" /\ v.ssh = Ssh(t) /\ v.shell = Shell(t)
      <4>1. PICK ssh \in {"none", "closed"}, shell \in {"none", "ended"} :
              ssh = Ssh(t) /\ shell = Shell(t)
        BY <2>2
      <4>2. v = [t EXCEPT !.pc = "done", !.ssh = ssh, !.shell = shell]
        BY <4>1
      <4>. HIDE DEF v, u, Cut
      <4>. QED
        BY <4>1, <4>2 DEF TermRow
    <3>3. "lost" \in Ends
      BY DEF Ends
    <3>. HIDE DEF v
    <3>4. /\ u \in TermRow /\ u.pc = v.pc /\ u.ssh = v.ssh /\ u.shell = v.shell
          /\ u.out = "ended" /\ u.inp = "ended" /\ u.closeRow = "lost"
      BY <3>2, <3>3, PipesCut
    <3>. HIDE DEF Cut, u
    <3>. QED
      BY <2>2, <3>1, <3>2, <3>4 DEF HoldsByStage
  <2>. HIDE DEF Cut
  <2>. QED
    BY <1>1, <2>1, <2>3 DEF TerminalInv, TerminalTypeOK
<1>15. CASE UNCHANGED terminalVars
  BY <1>15 DEF terminalVars, TerminalInv, TerminalTypeOK
<1>. QED
  BY <1>2, <1>3, <1>4, <1>5, <1>6, <1>7, <1>8, <1>9, <1>10, <1>11, <1>12, <1>13, <1>14, <1>15
     DEF TerminalNext, HandlerStep

\* The handlers, connections and pipes of the terminals are well typed.
THEOREM TerminalsAreTyped == TerminalSpec => []TerminalTypeOK
<1>1. TerminalInv => TerminalTypeOK
  BY DEF TerminalInv
<1>. QED
  BY <1>1, TerminalStart, TerminalStep, PTL DEF TerminalSpec

\* Whatever fails, whichever side ends first and whenever the process restarts, a handler
\* of ws_terminal that has ended left nothing running and told the audit log.
THEOREM TerminalsEndClean == TerminalSpec => []DoneLeavesNothing
<1>1. TerminalInv => DoneLeavesNothing
  BY DEF TerminalInv, HoldsByStage, DoneLeavesNothing
<1>. QED
  BY <1>1, TerminalStart, TerminalStep, PTL DEF TerminalSpec

-----------------------------------------------------------------------------
(* Snapshots.  A target that is probed was listed, so its id was handed    *)
(* out; one that is looked up may be any.                                  *)

Given == {Local} \cup 1..lastId

ProbedWereListed ==
    \A w \in Workers : worker[w].pc \in {"probe", "drop"} => worker[w].cur \in Given

SnapshotsInv == SnapshotsTypeOK /\ ProbedWereListed

LEMMA SnapshotsStart == SnapshotsInit => SnapshotsInv
<1>. SUFFICES ASSUME SnapshotsInit PROVE SnapshotsInv
  OBVIOUS
<1>1. DOMAIN Empty = {} /\ \A S : Empty \in [{} -> S]
  BY DEF Empty
<1>2. AtRest \in Worker /\ AtRest.pc = "sleep"
  BY DEF AtRest, Worker
<1>. QED
  BY <1>1, <1>2, SnapshotsAssumption, TableAssumption DEF SnapshotsInit, TableInit, SnapshotsInv,
     SnapshotsTypeOK, ProbedWereListed, Listed

\* The steps of a worker that waits, looks a target up or probes it.
LEMMA WorkerShape ==
    ASSUME SnapshotsTypeOK, NEW w \in Workers
    PROVE  /\ worker[w].pc \in {"sleep", "list", "prune", "lookup", "probe", "drop"}
           /\ worker[w].pc \in {"lookup", "probe", "drop"} =>
                worker[w] \in [pc : {"lookup", "probe", "drop"}, cur : Targets,
                               left : 1..MaxChecks, todo : SUBSET ServerIds]
BY DEF SnapshotsTypeOK, Worker

LEMMA Waiting ==
    \A p \in {"sleep", "list", "prune"} : [pc |-> p] \in Worker
BY DEF Worker

LEMMA Looking ==
    ASSUME SnapshotsTypeOK, NEW s \in Targets, NEW left \in 1..MaxChecks,
           NEW todo \in SUBSET ServerIds
    PROVE  At("lookup", s, left, todo) \in Worker /\ At("lookup", s, left, todo).pc = "lookup"
BY DEF Worker, At

LEMMA ChecksFit == ASSUME kind \in Kinds PROVE Checks[kind] \in 1..MaxChecks
BY SnapshotsAssumption DEF Kinds, Checks

\* A worker that goes where nothing is probed keeps the invariant.
LEMMA MoveKeeps ==
    ASSUME SnapshotsInv, NEW w \in Workers, NEW to \in Worker, Move(w, to),
           to.pc \in {"sleep", "list", "prune", "lookup"}
    PROVE  worker' \in [Workers -> Worker] /\ (lastId' = lastId => ProbedWereListed')
<1>1. worker \in [Workers -> Worker] /\ worker' = [worker EXCEPT ![w] = to]
  BY DEF SnapshotsInv, SnapshotsTypeOK, Move
<1>. QED
  BY <1>1 DEF SnapshotsInv, ProbedWereListed, Given

\* After a target, or a check of it, the worker waits or looks up the next one.
LEMMA GoesOn ==
    ASSUME SnapshotsInv, NEW w \in Workers, worker[w].pc \in {"lookup", "probe", "drop"},
           AfterTarget(w) \/ AfterCheck(w)
    PROVE  worker' \in [Workers -> Worker] /\ (lastId' = lastId => ProbedWereListed')
<1>1. SnapshotsTypeOK /\ kind \in Kinds
  BY DEF SnapshotsInv, SnapshotsTypeOK
<1>2. worker[w] \in [pc : {"lookup", "probe", "drop"}, cur : Targets, left : 1..MaxChecks,
                     todo : SUBSET ServerIds]
  BY <1>1, WorkerShape
<1>3. LoopDone \in Worker /\ LoopDone.pc \in {"sleep", "prune"}
  BY Waiting DEF LoopDone
<1>4. CASE AfterTarget(w)
  <2>1. CASE \E p \in {"sleep", "list"} : Move(w, [pc |-> p])
    BY <2>1, Waiting, MoveKeeps
  <2>2. CASE Move(w, LoopDone)
    BY <1>3, <2>2, MoveKeeps
  <2>3. ASSUME NEW s \in worker[w].todo,
               Move(w, At("lookup", s, Checks[kind], worker[w].todo \ {s}))
        PROVE  worker' \in [Workers -> Worker] /\ (lastId' = lastId => ProbedWereListed')
    <3>1. s \in Targets /\ worker[w].todo \ {s} \in SUBSET ServerIds
      BY <1>2 DEF Targets
    <3>2. Checks[kind] \in 1..MaxChecks
      BY <1>1, ChecksFit
    <3>. QED
      BY <1>1, <2>3, <3>1, <3>2, Looking, MoveKeeps
  <2>. QED
    BY <1>4, <2>1, <2>2, <2>3 DEF AfterTarget, AtRest
<1>5. CASE worker[w].left > 1 /\ Move(w, At("lookup", worker[w].cur, worker[w].left - 1, worker[w].todo))
  <2>1. worker[w].left - 1 \in 1..MaxChecks
    BY <1>2, <1>5, SnapshotsAssumption
  <2>. QED
    BY <1>1, <1>2, <1>5, <2>1, Looking, MoveKeeps
<1>. QED
  BY <1>4, <1>5 DEF AfterCheck

\* What happens to the servers table leaves the ids that were handed out.
LEMMA TableKeeps ==
    ASSUME SnapshotsInv, EditTable
    PROVE  SnapshotsInv'
<1>. USE SnapshotsAssumption, TableAssumption DEF SnapshotsInv, SnapshotsTypeOK
<1>0. lastId \in 0..MaxServers /\ Listed \subseteq 1..lastId
  OBVIOUS
<1>1. AnyHost \in Hosts
  BY DEF AnyHost
<1>2. ASSUME lastId' \in 0..MaxServers, lastId' >= lastId, Listed' \subseteq 1..lastId',
             servers' \in [Listed' -> ServerRow], UNCHANGED snapVars
      PROVE  SnapshotsInv'
  <2>1. Given \subseteq Given'
    BY <1>2 DEF Given
  <2>2. ProbedWereListed'
    BY <1>2, <2>1 DEF ProbedWereListed, snapVars
  <2>. QED
    BY <1>2, <2>1, <2>2 DEF snapVars, Given
<1>3. ASSUME AddServer(AnyHost)
      PROVE  /\ lastId' \in 0..MaxServers /\ lastId' >= lastId /\ Listed' \subseteq 1..lastId'
             /\ servers' \in [Listed' -> ServerRow]
  <2>1. [host |-> AnyHost, enabled |-> TRUE] \in ServerRow
    BY <1>1 DEF ServerRow
  <2>. QED
    BY <1>3, <2>1 DEF AddServer, Put, Listed
<1>4. ASSUME NEW s \in ServerIds, NEW e \in BOOLEAN,
             UpdateServer(s, [host |-> AnyHost, enabled |-> e])
      PROVE  /\ lastId' = lastId /\ Listed' = Listed
             /\ servers' \in [Listed' -> ServerRow]
  <2>1. [host |-> AnyHost, enabled |-> e] \in ServerRow
    BY <1>1 DEF ServerRow
  <2>. QED
    BY <1>4, <2>1 DEF UpdateServer, Put, Listed
<1>5. ASSUME NEW s \in ServerIds, DeleteServer(s)
      PROVE  /\ lastId' = lastId /\ Listed' \subseteq Listed
             /\ servers' \in [Listed' -> ServerRow]
  BY <1>5 DEF DeleteServer, Pop, Listed
<1>6. /\ lastId' \in 0..MaxServers /\ lastId' >= lastId /\ Listed' \subseteq 1..lastId'
      /\ servers' \in [Listed' -> ServerRow]
  <2>. HIDE DEF SnapshotsInv, SnapshotsTypeOK
  <2>1. CASE AddServer(AnyHost)
    BY <2>1, <1>3
  <2>2. CASE \E s \in ServerIds, e \in BOOLEAN :
               UpdateServer(s, [host |-> AnyHost, enabled |-> e])
    <3>1. lastId' = lastId /\ Listed' = Listed /\ servers' \in [Listed' -> ServerRow]
      BY <2>2, <1>4
    <3>2. lastId' \in 0..MaxServers /\ Listed' \subseteq 1..lastId'
      BY <1>0, <3>1
    <3>. QED
      BY <1>0, <3>1, <3>2
  <2>3. CASE \E s \in ServerIds : DeleteServer(s)
    <3>1. lastId' = lastId /\ Listed' \subseteq Listed /\ servers' \in [Listed' -> ServerRow]
      BY <2>3, <1>5
    <3>2. lastId' \in 0..MaxServers /\ Listed' \subseteq 1..lastId'
      BY <1>0, <3>1
    <3>. QED
      BY <1>0, <3>1, <3>2
  <2>. QED
    BY <2>1, <2>2, <2>3 DEF EditTable
<1>7. UNCHANGED snapVars
  BY DEF EditTable
<1>. QED
  BY <1>2, <1>6, <1>7

LEMMA SnapshotsStep == SnapshotsInv /\ [SnapshotsNext]_snapshotsVars => SnapshotsInv'
<1>. SUFFICES ASSUME SnapshotsInv, [SnapshotsNext]_snapshotsVars PROVE SnapshotsInv'
  OBVIOUS
<1>0. SnapshotsTypeOK /\ kind \in Kinds /\ lastId \in 0..MaxServers /\ Listed \subseteq 1..lastId
      /\ worker \in [Workers -> Worker]
  BY DEF SnapshotsInv, SnapshotsTypeOK
<1>. USE TableAssumption
<1>1. CASE EditTable
  BY <1>1, TableKeeps
\* Steps of the workers and the clock.
<1>2. ASSUME UNCHANGED <<tableVars, kind>>, snapFaults' \in 0..MaxSnapFaults,
             snapshots' \subseteq [of : Given, expired : BOOLEAN],
             worker' \in [Workers -> Worker], ProbedWereListed'
      PROVE  SnapshotsInv'
  BY <1>2 DEF SnapshotsInv, SnapshotsTypeOK, tableVars, Listed, Given
<1>3. snapshots \subseteq [of : Given, expired : BOOLEAN] /\ snapFaults \in 0..MaxSnapFaults
  BY DEF SnapshotsInv, SnapshotsTypeOK, Given
<1>4. ASSUME NEW s \in Targets, Request(s) PROVE SnapshotsInv'
  <2>1. At("lookup", s, Checks[kind], {}) \in Worker /\ At("lookup", s, Checks[kind], {}).pc = "lookup"
    BY <1>0, ChecksFit, Looking
  <2>2. worker' \in [Workers -> Worker] /\ ProbedWereListed'
    BY <1>4, <2>1, MoveKeeps DEF Request, tableVars, Workers
  <2>. QED
    BY <1>2, <1>3, <1>4, <2>2 DEF Request
<1>5. CASE Wake
  <2>1. Local \in Targets /\ {} \in SUBSET ServerIds
    BY DEF Targets
  <2>2. At("lookup", Local, Checks[kind], {}) \in Worker
        /\ At("lookup", Local, Checks[kind], {}).pc = "lookup"
    BY <1>0, <2>1, ChecksFit, Looking
  <2>3. worker' \in [Workers -> Worker] /\ ProbedWereListed'
    BY <1>5, <2>2, Waiting, MoveKeeps DEF Wake, tableVars, Workers
  <2>. QED
    BY <1>2, <1>3, <1>5, <2>3 DEF Wake
<1>6. LoopDone \in Worker /\ LoopDone.pc \in {"sleep", "prune"}
  BY Waiting DEF LoopDone
<1>7. CASE List
  <2>1. Enabled \subseteq ServerIds
    <3>1. \A x \in 1..lastId : x \in 1..MaxServers
      BY <1>0
    <3>2. Enabled \subseteq Listed
      BY DEF Enabled
    <3>. QED
      BY <1>0, <3>1, <3>2 DEF ServerIds
  <2>2. PICK chosen \in SUBSET Enabled :
          \/ Move("loop", LoopDone)
          \/ \E s \in chosen : Move("loop", At("lookup", s, Checks[kind], chosen \ {s}))
    BY <1>7 DEF List
  <2>3. ASSUME NEW s \in chosen
        PROVE  /\ At("lookup", s, Checks[kind], chosen \ {s}) \in Worker
               /\ At("lookup", s, Checks[kind], chosen \ {s}).pc = "lookup"
    <3>1. s \in Targets /\ chosen \ {s} \in SUBSET ServerIds
      BY <2>1 DEF Targets
    <3>. QED
      BY <1>0, <3>1, ChecksFit, Looking
  <2>4. worker' \in [Workers -> Worker] /\ ProbedWereListed'
    BY <1>6, <1>7, <2>2, <2>3, MoveKeeps DEF List, tableVars, Workers
  <2>. QED
    BY <1>2, <1>3, <1>7, <2>4 DEF List
<1>8. ASSUME NEW w \in Workers, Lookup(w) PROVE SnapshotsInv'
  <2>1. worker[w] \in [pc : {"lookup", "probe", "drop"}, cur : Targets, left : 1..MaxChecks,
                       todo : SUBSET ServerIds]
    BY <1>0, <1>8, WorkerShape DEF Lookup
  <2>2. CASE AfterCheck(w)
    <3>1. worker' \in [Workers -> Worker] /\ ProbedWereListed'
      BY <1>8, <2>2, GoesOn DEF Lookup, tableVars
    <3>. QED
      BY <1>2, <1>3, <1>8, <3>1 DEF Lookup
  <2>3. CASE worker[w].cur \in Listed \cup {Local} /\ Move(w, [worker[w] EXCEPT !.pc = "probe"])
    <3>. DEFINE to == [worker[w] EXCEPT !.pc = "probe"]
    <3>1. to \in Worker /\ to.cur = worker[w].cur
      BY <2>1 DEF Worker
    <3>2. to.cur \in Given
      BY <1>0, <2>3, <3>1 DEF Given
    <3>. HIDE DEF to
    <3>3. worker' = [worker EXCEPT ![w] = to] /\ lastId' = lastId
      BY <1>8, <2>3 DEF Move, Lookup, tableVars, to
    <3>4. worker' \in [Workers -> Worker] /\ ProbedWereListed'
      BY <1>0, <3>1, <3>2, <3>3 DEF ProbedWereListed, SnapshotsInv, Given
    <3>. QED
      BY <1>2, <1>3, <1>8, <3>4 DEF Lookup
  <2>. QED
    BY <1>8, <2>2, <2>3 DEF Lookup
<1>9. ASSUME NEW w \in Workers, ProbeEnds(w) PROVE SnapshotsInv'
  <2>1. worker[w] \in [pc : {"lookup", "probe", "drop"}, cur : Targets, left : 1..MaxChecks,
                       todo : SUBSET ServerIds]
        /\ worker[w].cur \in Given
    BY <1>0, <1>9, WorkerShape DEF ProbeEnds, SnapshotsInv, ProbedWereListed
  <2>2. snapshots' \subseteq [of : Given, expired : BOOLEAN]
    <3>1. \/ snapshots' = snapshots
          \/ snapshots' = snapshots \cup {[of |-> worker[w].cur, expired |-> FALSE]}
      BY <1>9 DEF ProbeEnds
    <3>2. [of |-> worker[w].cur, expired |-> FALSE] \in [of : Given, expired : BOOLEAN]
      BY <2>1
    <3>. QED
      BY <1>3, <3>1, <3>2
  <2>3. CASE AfterCheck(w)
    <3>1. worker' \in [Workers -> Worker] /\ ProbedWereListed'
      BY <1>9, <2>3, GoesOn DEF ProbeEnds, tableVars
    <3>. QED
      BY <1>2, <1>3, <1>9, <2>2, <3>1 DEF ProbeEnds
  <2>4. CASE Move(w, [worker[w] EXCEPT !.pc = "drop"])
    <3>. DEFINE to == [worker[w] EXCEPT !.pc = "drop"]
    <3>1. to \in Worker /\ to.cur = worker[w].cur
      BY <2>1 DEF Worker
    <3>. HIDE DEF to
    <3>2. worker' = [worker EXCEPT ![w] = to] /\ lastId' = lastId
      BY <1>9, <2>4 DEF Move, ProbeEnds, tableVars, to
    <3>3. worker' \in [Workers -> Worker] /\ ProbedWereListed'
      BY <1>0, <2>1, <3>1, <3>2 DEF ProbedWereListed, SnapshotsInv, Given
    <3>. QED
      BY <1>2, <1>3, <1>9, <2>2, <3>3 DEF ProbeEnds
  <2>. QED
    BY <1>9, <2>3, <2>4 DEF ProbeEnds
<1>10. ASSUME NEW w \in Workers, DropOld(w) PROVE SnapshotsInv'
  <2>1. worker' \in [Workers -> Worker] /\ ProbedWereListed'
    BY <1>10, GoesOn DEF DropOld, tableVars
  <2>2. snapshots' \subseteq [of : Given, expired : BOOLEAN]
    BY <1>3, <1>10 DEF DropOld, Kept
  <2>. QED
    BY <1>2, <1>3, <1>10, <2>1, <2>2 DEF DropOld
<1>11. CASE Prune
  <2>1. worker' \in [Workers -> Worker] /\ ProbedWereListed'
    BY <1>11, Waiting, MoveKeeps DEF Prune, AtRest, tableVars, Workers
  <2>2. snapshots' \subseteq [of : Given, expired : BOOLEAN]
    BY <1>3, <1>11 DEF Prune
  <2>. QED
    BY <1>2, <1>3, <1>11, <2>1, <2>2 DEF Prune
<1>12. ASSUME NEW w \in Workers, SnapFails(w) PROVE SnapshotsInv'
  <2>1. AtRest \in Worker /\ AtRest.pc = "sleep"
    BY Waiting DEF AtRest
  <2>2. worker[w].pc \in {"list", "prune", "lookup", "probe", "drop"}
    BY <1>0, <1>12, WorkerShape DEF SnapFails
  <2>3. \/ Move(w, AtRest) \/ Move(w, LoopDone)
        \/ (worker[w].pc \in {"lookup", "probe", "drop"} /\ (AfterTarget(w) \/ AfterCheck(w)))
    BY <1>12, <2>2 DEF SnapFails, Workers
  <2>4. worker' \in [Workers -> Worker] /\ ProbedWereListed'
    BY <1>6, <1>12, <2>1, <2>3, MoveKeeps, GoesOn DEF SnapFails, tableVars
  <2>5. snapFaults' \in 0..MaxSnapFaults
    BY <1>3, <1>12, SnapshotsAssumption DEF SnapFails
  <2>. QED
    BY <1>2, <1>3, <1>12, <2>4, <2>5 DEF SnapFails
<1>13. CASE SnapRestart
  <2>1. AtRest \in Worker /\ AtRest.pc = "sleep"
    BY Waiting DEF AtRest
  <2>2. worker' \in [Workers -> Worker] /\ ProbedWereListed'
    BY <1>13, <2>1 DEF SnapRestart, ProbedWereListed
  <2>3. snapFaults' \in 0..MaxSnapFaults
    BY <1>3, <1>13, SnapshotsAssumption DEF SnapRestart
  <2>. QED
    BY <1>2, <1>3, <1>13, <2>2, <2>3 DEF SnapRestart
<1>14. ASSUME NEW r \in snapshots, Expire(r) PROVE SnapshotsInv'
  <2>1. [r EXCEPT !.expired = TRUE] \in [of : Given, expired : BOOLEAN]
    BY <1>3
  <2>2. snapshots' \subseteq [of : Given, expired : BOOLEAN]
    BY <1>3, <1>14, <2>1 DEF Expire
  <2>3. worker' \in [Workers -> Worker] /\ ProbedWereListed'
    BY <1>0, <1>14 DEF Expire, SnapshotsInv, ProbedWereListed, Given, tableVars
  <2>. QED
    BY <1>2, <1>3, <1>14, <2>2, <2>3 DEF Expire
<1>15. CASE UNCHANGED snapshotsVars
  BY <1>15 DEF snapshotsVars, snapVars, tableVars, SnapshotsInv, SnapshotsTypeOK, Listed,
     ProbedWereListed, Given
<1>. QED
  BY <1>1, <1>4, <1>5, <1>7, <1>8, <1>9, <1>10, <1>11, <1>12, <1>13, <1>14, <1>15
     DEF SnapshotsNext, WorkerStep

\* The workers and the snapshots are well typed, and only servers whose id was handed
\* out, or the local host, have a snapshot.
THEOREM SnapshotsAreTyped == SnapshotsSpec => []SnapshotsTypeOK
<1>1. SnapshotsInv => SnapshotsTypeOK
  BY DEF SnapshotsInv
<1>. QED
  BY <1>1, SnapshotsStart, SnapshotsStep, PTL DEF SnapshotsSpec

-----------------------------------------------------------------------------
(* The components side by side.                                            *)

\* A step of the whole is, for each component, a step of it or none.
LEMMA RecordsSteps ==
    [MCNext]_MCVars => /\ [SnapshotsNext]_snapshotsVars /\ [InventoryNext]_inventoryVars
                       /\ [CustomNext]_customVars /\ [RunbooksNext]_runbooksVars
                       /\ [ShippingNext]_shippingVars /\ [PatternsNext]_patternsVars
                       /\ [TerminalNext]_terminalVars /\ [PushNext]_pushVars
<1>1. CASE MCSnapshots(SnapshotsNext)
  BY <1>1 DEF MCSnapshots, storesVars, feedsVars
<1>2. CASE MCStores("inventory", InventoryNext, <<customVars, runbooksVars>>)
  BY <1>2 DEF MCStores, feedsVars
<1>3. CASE MCStores("custom", CustomNext, <<inventoryVars, runbooksVars>>)
  BY <1>3 DEF MCStores, feedsVars
<1>4. CASE MCStores("runbooks", RunbooksNext, <<inventoryVars, customVars>>)
  BY <1>4 DEF MCStores, feedsVars
<1>5. CASE MCFeeds("shipping", ShippingNext, <<patternsVars, terminalVars, pushVars>>)
  BY <1>5 DEF MCFeeds, storesVars
<1>6. CASE MCFeeds("patterns", PatternsNext, <<shippingVars, terminalVars, pushVars>>)
  BY <1>6 DEF MCFeeds, storesVars
<1>7. CASE MCTerminal(TerminalNext)
  BY <1>7 DEF MCTerminal, MCFeeds, storesVars
<1>8. CASE MCFeeds("push", PushNext, <<shippingVars, patternsVars, terminalVars>>)
  BY <1>8 DEF MCFeeds, storesVars
<1>9. CASE UNCHANGED MCVars
  BY <1>9 DEF MCVars, storesVars, feedsVars
<1>. QED
  BY <1>1, <1>2, <1>3, <1>4, <1>5, <1>6, <1>7, <1>8, <1>9 DEF MCNext

\* Each component behaves as it does alone: what is proved of its own initial states and
\* steps holds of the eight together.
THEOREM RecordsRunComponents ==
    MCSpec => /\ SnapshotsInit /\ [][SnapshotsNext]_snapshotsVars
              /\ InventoryInit /\ [][InventoryNext]_inventoryVars
              /\ CustomInit /\ [][CustomNext]_customVars
              /\ RunbooksInit /\ [][RunbooksNext]_runbooksVars
              /\ ShippingInit /\ [][ShippingNext]_shippingVars
              /\ PatternsInit /\ [][PatternsNext]_patternsVars
              /\ TerminalInit /\ [][TerminalNext]_terminalVars
              /\ PushInit /\ [][PushNext]_pushVars
<1>1. MCInit => /\ SnapshotsInit /\ InventoryInit /\ CustomInit /\ RunbooksInit
                /\ ShippingInit /\ PatternsInit /\ TerminalInit /\ PushInit
  BY DEF MCInit
<1>. QED
  BY <1>1, RecordsSteps, PTL DEF MCSpec

StoresInv == StoreInv /\ CustomInv /\ RunbooksInv
FeedsInv == ShippingInv /\ PatternsInv /\ PushInv
RecordsInv == SnapshotsInv /\ StoresInv /\ FeedsInv /\ TerminalInv

\* The components' inductive invariants hold side by side.
LEMMA RecordsKeepInvariants == MCSpec => []RecordsInv
<1>1. /\ SnapshotsInit /\ InventoryInit /\ CustomInit /\ RunbooksInit
      /\ ShippingInit /\ PatternsInit /\ TerminalInit /\ PushInit
      => RecordsInv
  BY SnapshotsStart, StoreInit, CustomInvInit, RunbooksInvInit, ShippingStart, PatternsStart,
     TerminalStart, PushInvInit DEF RecordsInv, StoresInv, FeedsInv
<1>2. /\ RecordsInv
      /\ [SnapshotsNext]_snapshotsVars /\ [InventoryNext]_inventoryVars
      /\ [CustomNext]_customVars /\ [RunbooksNext]_runbooksVars
      /\ [ShippingNext]_shippingVars /\ [PatternsNext]_patternsVars
      /\ [TerminalNext]_terminalVars /\ [PushNext]_pushVars
      => RecordsInv'
  BY SnapshotsStep, StoreStep, CustomInvNext, RunbooksInvNext, ShippingStep, PatternsStep,
     TerminalStep, PushInvNext DEF RecordsInv, StoresInv, FeedsInv
<1>. QED
  BY <1>1, <1>2, RecordsRunComponents, PTL

\* The tables, the workers, the agents and the browsers are well typed in every state
\* of the whole.
THEOREM RecordsAreTyped == MCSpec => []RecordsTypeOK
<1>1. RecordsInv => RecordsTypeOK
  BY DEF RecordsInv, StoresInv, FeedsInv, SnapshotsInv, StoreInv, CustomInv, RunbooksInv, ShippingInv,
     PatternsInv, PatternsTyped, TerminalInv, PushInv, RecordsTypeOK
<1>. QED
  BY <1>1, RecordsKeepInvariants, PTL

\* What is left in the database by probes, scans, scripts, agents, terminals and
\* browsers: the safety invariants of the records run, all at once and for any hosts,
\* targets, patterns, sessions and browsers.
THEOREM RecordsAreSafe ==
    MCSpec => [](/\ StoredOnce /\ ValueIsOwn /\ NoRunWithoutTrace
                 /\ LossHasACause /\ CopiesAreBounded /\ BurstIsReported
                 /\ KeysMatchSubscriptions /\ DoneLeavesNothing)
<1>. DEFINE Safe == /\ StoredOnce /\ ValueIsOwn /\ NoRunWithoutTrace
                    /\ LossHasACause /\ CopiesAreBounded /\ BurstIsReported
                    /\ KeysMatchSubscriptions /\ DoneLeavesNothing
<1>1. StoresInv => StoredOnce /\ ValueIsOwn /\ NoRunWithoutTrace
  BY DEF StoresInv, StoreInv, CustomInv, RunbooksInv
<1>2. FeedsInv => LossHasACause /\ CopiesAreBounded /\ BurstIsReported /\ KeysMatchSubscriptions
  <2>1. ShippingInv => LossHasACause
    BY NoEntryIsForgotten
  <2>2. ShippingInv => CopiesAreBounded
    BY DEF ShippingInv, ShippedTwice, CopiesAreBounded, Total, Carriers
  <2>3. PushInv => KeysMatchSubscriptions
    BY DEF PushInv, PairIsWhole, KeysAreStored, KeysMatchSubscriptions
  <2>. QED
    BY <2>1, <2>2, <2>3 DEF FeedsInv, PatternsInv
<1>3. TerminalInv => DoneLeavesNothing
  BY DEF TerminalInv, HoldsByStage, DoneLeavesNothing
<1>4. RecordsInv => Safe
  BY <1>1, <1>2, <1>3 DEF RecordsInv
<1>. QED
  BY <1>4, RecordsKeepInvariants, PTL

==================================================================================
