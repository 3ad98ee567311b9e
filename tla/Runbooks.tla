-------------------------------- MODULE Runbooks --------------------------------
(***************************************************************************)
(* Runbooks (vpsmon/runbooks.py): a request runs one script on several     *)
(* targets in parallel (asyncio.gather), every target logs its own run,    *)
(* and the request answers with the ids of the runs.  A run is logged by   *)
(* an INSERT and looked up again by a SELECT, with other tasks in between. *)
(***************************************************************************)
EXTENDS Naturals, Sequences, FiniteSets, Dict

CONSTANTS
    Slugs,
    Builtins,      \* the slugs that are seeded
    Versions,      \* what a script may be
    TargetLists,   \* what a target stands for: the local host, one server, all
                   \* enabled ones or those with a tag, by label
    MaxRequests,   \* bound: requests of handle_runbook_execute ever made
    MaxSecond      \* bound: the clock of started_at

ASSUME RunbooksAssumption ==
    /\ Builtins \subseteq Slugs
    /\ Versions # {} /\ {} \notin TargetLists
    /\ MaxRequests \in Nat /\ MaxSecond \in Nat \ {0}

VARIABLES
    books,      \* the runbooks table: slug -> script
    request,    \* the requests so far: what each has read and runs
    task,       \* <<request, target>> -> where _run_one is
    runs,       \* the runbook_runs table; the id is the place in the sequence
    second,
    broke       \* history: tasks that ended with an exception or a restart

runbooksVars == <<books, request, task, runs, second, broke>>

RunTargets == UNION TargetLists
BookRequest == [slug : Slugs, script : Versions, targets : TargetLists]
Task == [pc : {"exec", "select"}, started : 1..MaxSecond]
Run == [slug : Slugs, script : Versions, target : RunTargets, started : 1..MaxSecond,
        by : Nat \ {0}]

TasksOf(r) == {k \in DOMAIN task : k[1] = r}
AnyVersion == CHOOSE v \in Versions : TRUE

RunbooksInit ==
    /\ books = [s \in Builtins |-> AnyVersion]
    /\ request = <<>>
    /\ task = Empty
    /\ runs = <<>>
    /\ second = 1
    /\ broke = {}

-----------------------------------------------------------------------------
(* Editing.  The UPDATE and the DELETE have AND builtin = 0; a slug that is  *)
(* taken makes the INSERT fail.                                            *)

CreateCustom(s, v) ==
    /\ s \notin DOMAIN books
    /\ books' = Put(books, s, v)
    /\ UNCHANGED <<request, task, runs, second, broke>>

UpdateCustom(s, v) ==
    /\ s \in (DOMAIN books) \ Builtins
    /\ books' = Put(books, s, v)
    /\ UNCHANGED <<request, task, runs, second, broke>>

DeleteCustom(s) ==
    /\ s \in (DOMAIN books) \ Builtins
    /\ books' = Pop(books, s)
    /\ UNCHANGED <<request, task, runs, second, broke>>

-----------------------------------------------------------------------------
(* Executing.                                                              *)

\* The runbook is read once, and everything a task needs is passed on; without a
\* matching target nothing happens.  A dry run only logs.
Execute(s, targets) ==
    /\ Len(request) < MaxRequests
    /\ s \in DOMAIN books
    /\ request' = Append(request, [slug |-> s, script |-> books[s], targets |-> targets])
    /\ task' = [k \in (DOMAIN task) \cup {<<Len(request) + 1, t>> : t \in targets} |->
                  IF k \in DOMAIN task THEN task[k]
                  ELSE [pc |-> "exec", started |-> second]]
    /\ UNCHANGED <<books, runs, second, broke>>

\* The script ends or is killed at its timeout, and the run is inserted.
LogRun(k) ==
    /\ k \in DOMAIN task /\ task[k].pc = "exec"
    /\ runs' = Append(runs, [slug |-> request[k[1]].slug, script |-> request[k[1]].script,
                             target |-> k[2], started |-> task[k].started, by |-> k[1]])
    /\ task' = Put(task, k, [pc |-> "select", started |-> task[k].started])
    /\ UNCHANGED <<books, request, second, broke>>

\* The run is looked up again for its id, by slug and second: the answer may name the
\* run of another target.  Nothing but the answer depends on it.
SelectRun(k) ==
    /\ k \in DOMAIN task /\ task[k].pc = "select"
    /\ task' = Pop(task, k)
    /\ UNCHANGED <<books, request, runs, second, broke>>

\* Mutant: a failed target cancels the others.
SurvivorsNone(k) == (DOMAIN task) \ TasksOf(k[1])
Survivors(k) == (DOMAIN task) \ {k}

\* An exception (no sshpass, no process, a failed statement): gather passes the
\* first one on and the request answers 500; the other targets go on.
TaskFails(k) ==
    /\ k \in DOMAIN task
    /\ broke' = broke \cup {k}
    /\ task' = [j \in Survivors(k) |-> task[j]]
    /\ UNCHANGED <<books, request, runs, second>>

RunbooksRestart ==
    /\ DOMAIN task # {}
    /\ broke' = broke \cup DOMAIN task
    /\ task' = Empty
    /\ UNCHANGED <<books, request, runs, second>>

SecondPasses ==
    /\ second < MaxSecond
    /\ second' = second + 1
    /\ UNCHANGED <<books, request, task, runs, broke>>

RunbooksNext ==
    \/ \E s \in Slugs, v \in Versions : CreateCustom(s, v) \/ UpdateCustom(s, v)
    \/ \E s \in Slugs : DeleteCustom(s)
    \/ \E s \in Slugs, targets \in TargetLists : Execute(s, targets)
    \/ \E k \in DOMAIN task : LogRun(k) \/ SelectRun(k) \/ TaskFails(k)
    \/ RunbooksRestart \/ SecondPasses

RunbooksSpec == RunbooksInit /\ [][RunbooksNext]_runbooksVars

-----------------------------------------------------------------------------
(* Properties.                                                             *)

\* Every state is well typed.
RunbooksTypeOK ==
    /\ DOMAIN books \subseteq Slugs /\ books \in [DOMAIN books -> Versions]
    /\ request \in Seq(BookRequest)
    /\ DOMAIN task \subseteq (DOMAIN request) \X RunTargets /\ task \in [DOMAIN task -> Task]
    /\ runs \in Seq(Run)
    /\ second \in 1..MaxSecond
    /\ broke \subseteq (DOMAIN request) \X RunTargets

Logged(r, t) == \E i \in DOMAIN runs : runs[i].by = r /\ runs[i].target = t

\* Whatever becomes of a request and of its other targets, every target it was
\* started on is running, logged, or has itself ended with an exception (the gather
\* of execute): no script runs on a host without leaving a row.
NoRunWithoutTrace ==
    \A r \in DOMAIN request : \A t \in request[r].targets :
        <<r, t>> \in DOMAIN task \/ Logged(r, t) \/ <<r, t>> \in broke

=============================================================================
