-------------------------- MODULE MCServiceAccounts --------------------------
(***************************************************************************)
(* An instance of ServiceAccounts for TLC.                                 *)
(***************************************************************************)
EXTENDS ServiceAccounts

CONSTANTS ann, annBis, bob, s1, s2

\* The slugs of a_b and a-b are the same.
Usernames == [u \in Users |-> IF u = bob THEN s2 ELSE s1]

=============================================================================
