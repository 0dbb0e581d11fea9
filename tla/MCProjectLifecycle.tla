------------------------- MODULE MCProjectLifecycle -------------------------
(***************************************************************************)
(* Instances of ProjectLifecycle for TLC.  Handlers, uploads and stamps    *)
(* are interchangeable.                                                    *)
(***************************************************************************)
EXTENDS ProjectLifecycle, TLC

Symmetry ==
    Permutations(Creators) \union Permutations(Deleters)
        \union Permutations(Objects) \union Permutations(Stamps)

=============================================================================
