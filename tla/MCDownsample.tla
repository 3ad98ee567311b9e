------------------------------ MODULE MCDownsample ------------------------------
(***************************************************************************)
(* Downsample on a small instance: a minute is two units, so that samples  *)
(* fall inside of buckets and on their edges; the lag of the first tier is *)
(* as long as its bucket, and the coarser tiers are scaled down.           *)
(***************************************************************************)
EXTENDS Downsample, TLC

CONSTANTS local, remote

\* The probe of a server answers within the lag of _downsample_raw_to_1m.
MCMaxLate == (local :> 0) @@ (remote :> Lag1m)

=============================================================================
