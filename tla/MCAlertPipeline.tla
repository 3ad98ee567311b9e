---------------------------- MODULE MCAlertPipeline ----------------------------
(***************************************************************************)
(* AlertPipeline on small instances: two tasks, one key only the first     *)
(* raises and recovers, one key both raise (a scan started by hand next to *)
(* the scanning loop).                                                     *)
(***************************************************************************)
EXTENDS AlertPipeline, TLC

CONSTANTS loop1, loop2, own, shared

MCRaisers == (own :> {loop1}) @@ (shared :> {loop1, loop2})
MCWindow == (own :> 2) @@ (shared :> 1)

=============================================================================
