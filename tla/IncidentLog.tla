------------------------------ MODULE IncidentLog ------------------------------
(***************************************************************************)
(* What vpsmon/incidents.py promises to whoever reads the incident page:   *)
(* a timeline in which a key has at most one open incident, an incident    *)
(* opens once and resolves once, and no entry ever disappears or reopens.  *)
(* AlertPipeline implements it.                                            *)
(***************************************************************************)
EXTENDS Naturals, Sequences

CONSTANT Keys       \* the "<alert_type>:<metric_name>" strings incidents are keyed by

VARIABLE timeline   \* the rows of the incidents table, in insertion order

Entry == [key : Keys, open : BOOLEAN]

OpenEntries(k) == {i \in DOMAIN timeline : timeline[i].key = k /\ timeline[i].open}

Init == timeline = <<>>

Open(k) ==
    /\ OpenEntries(k) = {}
    /\ timeline' = Append(timeline, [key |-> k, open |-> TRUE])

Resolve(i) ==
    /\ timeline[i].open
    /\ timeline' = [timeline EXCEPT ![i].open = FALSE]

Next ==
    \/ \E k \in Keys : Open(k)
    \/ \E i \in DOMAIN timeline : Resolve(i)

Spec == Init /\ [][Next]_timeline

=============================================================================
