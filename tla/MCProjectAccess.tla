--------------------------- MODULE MCProjectAccess ---------------------------
(***************************************************************************)
(* Instances of ProjectAccess for TLC.  Users and handlers are             *)
(* interchangeable: the initial states, the steps and the properties name  *)
(* none of them.                                                           *)
(***************************************************************************)
EXTENDS ProjectAccess, TLC

ThreeLevels == {"VIEWER", "MANAGER", "ADMIN"}

Symmetry == Permutations(Users) \union Permutations(Requests)

=============================================================================
