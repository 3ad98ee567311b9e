-------------------------------- MODULE Terminal --------------------------------
(***************************************************************************)
(* The web terminal (vpsmon/terminal.py): a WebSocket handler that opens   *)
(* an SSH shell, runs one pipe in each direction until either of them      *)
(* ends, and leaves a terminal.open and a terminal.close row in the audit  *)
(* log.  Bytes are left out; what they can do to a pipe is not.            *)
(***************************************************************************)
EXTENDS Naturals, Dict

CONSTANTS
    Sessions,      \* WebSocket connections
    TermServers    \* servers a terminal may be opened on besides "local"

VARIABLES
    known,      \* the servers table, as far as get_server is concerned
    term        \* session -> the handler, its connection and its browser

terminalVars == <<known, term>>

\* ends: how an audit row went, for terminal.open and terminal.close.
Ends == {"none", "stored", "lost"}
TermRow == [pc : {"new", "lookup", "open", "connect", "process", "banner", "bridge",
                  "exit", "close", "done"},
            target : TermServers \cup {"local"},
            browser : {"there", "left"},
            ssh : {"none", "connected", "closed"},
            shell : {"none", "running", "ended"},
            out : {"none", "running", "ended"},
            inp : {"none", "running", "ended"},
            openRow : Ends, closeRow : Ends]

NewTerm(target) ==
    [pc |-> "new", target |-> target, browser |-> "there", ssh |-> "none", shell |-> "none",
     out |-> "none", inp |-> "none", openRow |-> "none", closeRow |-> "none"]

TerminalInit ==
    /\ known = TermServers
    /\ term \in [Sessions -> {NewTerm(t) : t \in TermServers \cup {"local"}}]

SetTerm(s, new) == term' = [term EXCEPT ![s] = new] /\ UNCHANGED known
Goto(s, pc) == SetTerm(s, [term[s] EXCEPT !.pc = pc])

-----------------------------------------------------------------------------
(* Around the handler.                                                     *)

RemoveTermServer(t) == t \in known /\ known' = known \ {t} /\ UNCHANGED term

\* Closed by the user, or no answer to the heartbeat of 15 s.
BrowserLeaves(s) ==
    /\ term[s].pc \notin {"new", "done"} /\ term[s].browser = "there"
    /\ SetTerm(s, [term[s] EXCEPT !.browser = "left"])

ShellExits(s) ==
    /\ term[s].shell = "running"
    /\ SetTerm(s, [term[s] EXCEPT !.shell = "ended"])

-----------------------------------------------------------------------------
(* ws_terminal, from await to await.                                       *)

\* validate_session: the only look at the session there is.
Accept(s) ==
    /\ term[s].pc = "new"
    /\ \/ Goto(s, "done")
       \/ Goto(s, IF term[s].target = "local" THEN "open" ELSE "lookup")

\* The handler ends without a row if the server is unknown, the id or the server's port
\* is no number, or the SELECT fails.
GetServer(s) ==
    /\ term[s].pc = "lookup"
    /\ \/ Goto(s, "done")
       \/ term[s].target \in known /\ Goto(s, "open")

\* log_event swallows its errors: the terminal opens with or without its row.
LogOpen(s) ==
    /\ term[s].pc = "open"
    /\ \E end \in Ends \ {"none"} :
         SetTerm(s, [term[s] EXCEPT !.pc = "connect", !.openRow = end])

\* Refused, denied, unreachable or after the 15 s of login_timeout.
Connect(s) ==
    /\ term[s].pc = "connect"
    /\ \/ Goto(s, "close")
       \/ SetTerm(s, [term[s] EXCEPT !.pc = "process", !.ssh = "connected"])

CreateProcess(s) ==
    /\ term[s].pc = "process"
    /\ \/ Goto(s, "exit")
       \/ SetTerm(s, [term[s] EXCEPT !.pc = "banner", !.shell = "running"])

\* The banner cannot be sent to a browser that has left; then both pipes start.
Banner(s) ==
    /\ term[s].pc = "banner"
    /\ \/ term[s].browser = "left" /\ Goto(s, "exit")
       \/ SetTerm(s, [term[s] EXCEPT !.pc = "bridge", !.out = "running", !.inp = "running"])

\* ssh_to_ws: at the end of the shell's output, or with any exception.  It does not
\* look at the browser unless there is output.
OutEnds(s) ==
    /\ term[s].out = "running"
    /\ SetTerm(s, [term[s] EXCEPT !.out = "ended"])

\* ws_to_ssh: when the browser has left, or with any exception: a size that is no
\* number, JSON that is no object, a shell that takes no more input.
InEnds(s) ==
    /\ term[s].inp = "running"
    /\ SetTerm(s, [term[s] EXCEPT !.inp = "ended"])

\* Mutant: ALL_COMPLETED.
BothEnded(t) == t.out = "ended" /\ t.inp = "ended"
EitherEnded(t) == t.out = "ended" \/ t.inp = "ended"

\* Mutant: the other pipe goes on.
WaitPipesOn(s) ==
    /\ term[s].pc = "bridge" /\ EitherEnded(term[s])
    /\ Goto(s, "exit")

\* asyncio.wait, then the other pipe is cancelled: at its own await, before anything else
\* is waited for comes back.
WaitPipes(s) ==
    /\ term[s].pc = "bridge" /\ EitherEnded(term[s])
    /\ SetTerm(s, [term[s] EXCEPT !.pc = "exit", !.out = "ended", !.inp = "ended"])

\* async with: the connection is closed on every way out, and the shell with it.
ExitConnection(s) ==
    /\ term[s].pc = "exit"
    /\ SetTerm(s, [term[s] EXCEPT !.pc = "close", !.ssh = "closed",
                              !.shell = IF term[s].shell = "none" THEN "none" ELSE "ended"])

\* The finally.  The message in an except clause may fail as well: it comes first.
LogClose(s) ==
    /\ term[s].pc = "close"
    /\ \E end \in Ends \ {"none"} :
         SetTerm(s, [term[s] EXCEPT !.pc = "done", !.closeRow = end])

\* The process ends with all its handlers; sshd ends a shell whose connection is gone.
TerminalRestart ==
    /\ \E s \in Sessions : term[s].pc \notin {"new", "done"}
    /\ term' = [s \in Sessions |->
                  IF term[s].pc \in {"new", "done"} THEN term[s]
                  ELSE [term[s] EXCEPT !.pc = "done",
                          !.ssh = IF term[s].ssh = "none" THEN "none" ELSE "closed",
                          !.shell = IF term[s].shell = "none" THEN "none" ELSE "ended",
                          !.out = "ended", !.inp = "ended",
                          !.closeRow = "lost"]]
    /\ UNCHANGED known

HandlerStep(s) ==
    \/ Accept(s) \/ GetServer(s) \/ LogOpen(s) \/ Connect(s) \/ CreateProcess(s) \/ Banner(s)
    \/ WaitPipes(s) \/ ExitConnection(s) \/ LogClose(s)

PipeStep(s) == OutEnds(s) \/ InEnds(s)

TerminalNext ==
    \/ \E t \in TermServers : RemoveTermServer(t)
    \/ \E s \in Sessions : HandlerStep(s) \/ PipeStep(s) \/ BrowserLeaves(s) \/ ShellExits(s)
    \/ TerminalRestart

\* Every await of the handler ends: 15 s for the login, TCP's own timeouts for the
\* rest.  A pipe must end only when its side has: end of file, or the heartbeat.
TerminalFairness ==
    \A s \in Sessions :
      /\ WF_terminalVars(HandlerStep(s))
      /\ WF_terminalVars(term[s].shell = "ended" /\ OutEnds(s))
      /\ WF_terminalVars(term[s].browser = "left" /\ InEnds(s))

TerminalSpec == TerminalInit /\ [][TerminalNext]_terminalVars /\ TerminalFairness

-----------------------------------------------------------------------------
(* Properties.                                                             *)

\* Every state is well typed.
TerminalTypeOK == known \subseteq TermServers /\ term \in [Sessions -> TermRow]

\* However a handler ends, on whichever way out, it leaves no connection, shell or pipe
\* behind, and a terminal whose opening was logged had its closing logged, or lost the
\* row.
DoneLeavesNothing ==
    \A s \in Sessions : term[s].pc = "done" =>
        /\ term[s].ssh # "connected" /\ term[s].shell # "running"
        /\ term[s].out # "running" /\ term[s].inp # "running"
        /\ term[s].openRow # "none" => term[s].closeRow # "none"

\* Whichever side ends first, the browser or the shell, and whatever fails on the way,
\* the other one is ended, the connection is closed and the audit log is told: an opened
\* terminal that has lost one of them is gone, rows included, in the end.
TerminalsAreClosed ==
    \A s \in Sessions :
      (term[s].openRow # "none" /\ (term[s].browser = "left" \/ term[s].shell = "ended"))
        ~> /\ term[s].pc = "done" /\ term[s].closeRow # "none"
           /\ term[s].ssh # "connected" /\ term[s].shell # "running"

=============================================================================
