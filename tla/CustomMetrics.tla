------------------------------ MODULE CustomMetrics ------------------------------
(***************************************************************************)
(* Metrics defined by a script (vpsmon/intel.py): the loop runs those that *)
(* are due one after another, operators run, replace and delete them, and  *)
(* the result of a run is written to the definition it was started from.   *)
(***************************************************************************)
EXTENDS Naturals, FiniteSets, Dict

CONSTANTS
    MetricNames,
    Scripts,
    Runners,         \* the loop and requests of handle_custom_metric_run
    LoopRunner,
    MaxDefinitions   \* bound: ids ever handed out

ASSUME CustomAssumption == LoopRunner \in Runners /\ MaxDefinitions \in Nat

VARIABLES
    defs,       \* custom_metrics: id -> name, script, script of last_value
    lastDef,    \* its AUTOINCREMENT counter
    running,    \* runner -> the definition as it was listed
    queue,      \* the loop's due list
    due         \* ids whose interval has passed since last_run

customVars == <<defs, lastDef, running, queue, due>>

DefIds == 1..MaxDefinitions
Definition == [name : MetricNames, script : Scripts, value : Scripts \cup {"none"}]
Listing == [id : DefIds, name : MetricNames, script : Scripts]

CustomInit ==
    /\ defs = Empty
    /\ lastDef = 0
    /\ running = Empty
    /\ queue = {}
    /\ due = DefIds

Named(n) == {d \in DOMAIN defs : defs[d].name = n}
AsListed(d) == [id |-> d, name |-> defs[d].name, script |-> defs[d].script]

\* Mutant: without AUTOINCREMENT the new id is one more than the greatest left.
DefineMetricReused(n, s) ==
    /\ \E id \in DefIds :
         LET others == (DOMAIN defs) \ Named(n) IN
           /\ id - 1 \in others \cup {0} /\ \A d \in others : d < id
           /\ defs' = [d \in others \cup {id} |->
                         IF d = id THEN [name |-> n, script |-> s, value |-> "none"]
                         ELSE defs[d]]
    /\ UNCHANGED <<lastDef, running, queue, due>>

\* INSERT OR REPLACE: a definition of the same name goes, with its id.
DefineMetric(n, s) ==
    /\ lastDef < MaxDefinitions
    /\ lastDef' = lastDef + 1
    /\ defs' = [d \in ((DOMAIN defs) \ Named(n)) \cup {lastDef + 1} |->
                  IF d = lastDef + 1 THEN [name |-> n, script |-> s, value |-> "none"]
                  ELSE defs[d]]
    /\ UNCHANGED <<running, queue, due>>

DeleteMetric(d) ==
    /\ d \in DOMAIN defs
    /\ defs' = Pop(defs, d)
    /\ UNCHANGED <<lastDef, running, queue, due>>

\* list_custom_metrics, and the rows whose interval has passed.
ListDue ==
    /\ LoopRunner \notin DOMAIN running
    /\ queue = {}
    /\ queue' = {AsListed(d) : d \in (DOMAIN defs) \cap due}
    /\ UNCHANGED <<defs, lastDef, running, due>>

\* The loop goes on with the rows it listed, deleted and replaced ones included.
RunNext(m) ==
    /\ LoopRunner \notin DOMAIN running
    /\ m \in queue
    /\ queue' = queue \ {m}
    /\ running' = Put(running, LoopRunner, m)
    /\ UNCHANGED <<defs, lastDef, due>>

RunByHand(r, d) ==
    /\ r \in Runners \ {LoopRunner}
    /\ r \notin DOMAIN running
    /\ d \in DOMAIN defs
    /\ running' = Put(running, r, AsListed(d))
    /\ UNCHANGED <<defs, lastDef, queue, due>>

\* Mutant: the result goes to the definition that has the name now.
RowsOfName(m) == Named(m.name)
RowsOf(m) == {m.id} \cap DOMAIN defs

\* The script ends, within 30 s: UPDATE ... WHERE id = ? with its value, or with
\* the error, which leaves the last value; only the loop keeps last_run.
RunEnds(r) ==
    /\ r \in DOMAIN running
    /\ LET m == running[r] IN
         /\ \/ UNCHANGED defs
            \/ defs' = [d \in DOMAIN defs |->
                          IF d \in RowsOf(m) THEN [defs[d] EXCEPT !.value = m.script] ELSE defs[d]]
         /\ due' = IF r = LoopRunner THEN due \ {m.id} ELSE due
    /\ running' = Pop(running, r)
    /\ UNCHANGED <<lastDef, queue>>

\* The UPDATE itself failed: the loop does not note the run and goes on.
RunFails(r) ==
    /\ r \in DOMAIN running
    /\ running' = Pop(running, r)
    /\ UNCHANGED <<defs, lastDef, queue, due>>

IntervalPasses(d) ==
    /\ d \in DefIds \ due
    /\ due' = due \cup {d}
    /\ UNCHANGED <<defs, lastDef, running, queue>>

CustomRestart ==
    /\ running' = Empty
    /\ queue' = {}
    /\ due' = DefIds
    /\ UNCHANGED <<defs, lastDef>>

CustomNext ==
    \/ \E n \in MetricNames, s \in Scripts : DefineMetric(n, s)
    \/ \E d \in DefIds : DeleteMetric(d) \/ IntervalPasses(d)
    \/ ListDue
    \/ \E m \in queue : RunNext(m)
    \/ \E r \in Runners : (\E d \in DefIds : RunByHand(r, d)) \/ RunEnds(r) \/ RunFails(r)
    \/ CustomRestart

CustomSpec == CustomInit /\ [][CustomNext]_customVars

-----------------------------------------------------------------------------
(* Properties.                                                             *)

\* Every state is well typed.
CustomTypeOK ==
    /\ lastDef \in 0..MaxDefinitions
    /\ DOMAIN defs \subseteq 1..lastDef /\ defs \in [DOMAIN defs -> Definition]
    /\ DOMAIN running \subseteq Runners /\ running \in [DOMAIN running -> Listing]
    /\ queue \subseteq Listing
    /\ due \subseteq DefIds

\* The value shown for a metric was computed by its own script: a run that was
\* listed before the metric was replaced writes to an id that is gone.
ValueIsOwn == \A d \in DOMAIN defs : defs[d].value \in {"none", defs[d].script}

=============================================================================
