--------------------------- MODULE MCUserAccounts ---------------------------
(***************************************************************************)
(* Instances of UserAccounts for TLC: two people whose usernames differ, *)
(* but not the slugs, as for ana.b@... and ana-b@....  Keys and handlers   *)
(* are interchangeable.                                                    *)
(***************************************************************************)
EXTENDS UserAccounts, TLC

CONSTANTS e1, e2, n1, n2, s1

Names == (e1 :> n1) @@ (e2 :> n2)

SharedSlug == (n1 :> s1) @@ (n2 :> s1)

Symmetry == Permutations(Subs) \union Permutations(Keys) \union Permutations(Handlers)

=============================================================================
