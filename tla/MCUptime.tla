------------------------------- MODULE MCUptime -------------------------------
(***************************************************************************)
(* Uptime with two names that stand for each other.                        *)
(***************************************************************************)
EXTENDS Uptime, TLC

CONSTANTS site, db

MCSymmetry == Permutations({site, db})

=============================================================================
