------------------------------ MODULE MCEnrollment ------------------------------
(***************************************************************************)
(* Enrollment with one limited token that expires and one unlimited token. *)
(***************************************************************************)
EXTENDS Enrollment, TLC

CONSTANTS h1, h2, limited, free

MCMaxUses == (limited :> 1) @@ (free :> 0)
MCLifetime == (limited :> 1) @@ (free :> 0)
MCSymmetry == Permutations({h1, h2})

=============================================================================
