-------------------------------- MODULE MCAccounts --------------------------------
(***************************************************************************)
(* Enrollment and Users: who may speak for an agent and who may log in.    *)
(* As in MCFleet, a behaviour is one of the active component, with the     *)
(* other at rest.  Enrollment has one limited token that expires and one   *)
(* unlimited token, Users one username besides admin; in both, two         *)
(* requests stand for each other.                                          *)
(***************************************************************************)
EXTENDS Enrollment, Users, TLC

CONSTANTS h1, h2, limited, free, admin, ann

VARIABLE active

MCMaxUses == (limited :> 1) @@ (free :> 0)
MCLifetime == (limited :> 1) @@ (free :> 0)
MCSymmetry == Permutations({h1, h2})

MCInit == active \in {"enrollment", "users"} /\ Init /\ UsersInit

MCNext ==
    \/ active = "enrollment" /\ Next /\ UNCHANGED <<usersVars, active>>
    \/ active = "users" /\ UsersNext /\ UNCHANGED <<vars, active>>

MCSpec == MCInit /\ [][MCNext]_<<vars, usersVars, active>>

===================================================================================
