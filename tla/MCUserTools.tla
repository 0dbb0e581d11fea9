----------------------------- MODULE MCUserTools -----------------------------
(***************************************************************************)
(* Instances of UserTools for TLC.  Choices and handlers are               *)
(* interchangeable; the runs with liveness properties use no symmetry.     *)
(***************************************************************************)
EXTENDS UserTools, TLC

Symmetry == Permutations(Handlers) \union Permutations(Choices)

=============================================================================
