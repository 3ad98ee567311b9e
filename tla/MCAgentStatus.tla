----------------------------- MODULE MCAgentStatus -----------------------------
(***************************************************************************)
(* AgentStatus with one unit of time = 30 s: a timeout of 4, an alert      *)
(* window of 2, requests and scans of at most 30 s.                        *)
(***************************************************************************)
EXTENDS AgentStatus, TLC

CONSTANTS a1, a2, h1, h2

MCSymmetry == Permutations({h1, h2})

=============================================================================
