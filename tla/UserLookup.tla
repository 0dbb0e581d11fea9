----------------------------- MODULE UserLookup -----------------------------
(***************************************************************************)
(* What UserByID.Load promises a resolver: every lookup gets an error, or  *)
(* its own user as the database had it at some moment since the lookup     *)
(* began, or exactly what an earlier lookup of the same user was told in   *)
(* the same request.                                                       *)
(*                                                                         *)
(* UserLoader is the detailed specification.                               *)
(***************************************************************************)
EXTENDS Naturals

CONSTANTS
    Ids,        \* the users
    Lookups,    \* the calls of Load in one request
    None,       \* no key yet
    Error       \* the answer of a lookup that failed

VARIABLES
    doc,        \* the version of each user's document, 0 when there is none
    ask         \* the lookups

NotAsked == [at |-> "idle", key |-> None, since |-> 0, answer |-> None]

Init ==
    /\ doc \in [Ids -> {0, 1}]
    /\ ask = [i \in Lookups |-> NotAsked]

Write(k) ==
    /\ doc' = [doc EXCEPT ![k] = @ + 1]
    /\ UNCHANGED ask

Ask(i, k) ==
    /\ ask[i] = NotAsked
    /\ ask' = [ask EXCEPT ![i] =
                [at |-> "asked", key |-> k, since |-> doc[k], answer |-> None]]
    /\ UNCHANGED doc

Told(k) == {ask[j].answer : j \in {l \in Lookups : ask[l].at = "told" /\ ask[l].key = k}}

Answers(i) == {Error} \union Told(ask[i].key) \union ask[i].since .. doc[ask[i].key]

Answer(i) ==
    /\ ask[i].at = "asked"
    /\ \E a \in Answers(i) :
        ask' = [ask EXCEPT ![i] =
                [at |-> "told", key |-> ask[i].key, since |-> ask[i].since, answer |-> a]]
    /\ UNCHANGED doc

Next ==
    \/ \E k \in Ids : Write(k)
    \/ \E i \in Lookups : Answer(i) \/ \E k \in Ids : Ask(i, k)

Spec == Init /\ [][Next]_<<doc, ask>>

=============================================================================
