----------------------------- MODULE MCToolsKeys -----------------------------
(***************************************************************************)
(* Instances of ToolsKeys for TLC.  Choices, handlers and regenerations    *)
(* are interchangeable.                                                    *)
(***************************************************************************)
EXTENDS ToolsKeys, TLC

Symmetry ==
    Permutations(Handlers) \union Permutations(Choices) \union Permutations(Regenerations)

=============================================================================
