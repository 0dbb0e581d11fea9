--------------------------- MODULE ProjectRoster ---------------------------
(***************************************************************************)
(* What membership management promises: a project has a roster that gives  *)
(* each user at most one access level, only an admin changes it, every     *)
(* change is atomic, and the project never runs out of admins.             *)
(*                                                                         *)
(* ProjectMembers is the detailed specification: it has the requests that  *)
(* read the project, check what they read and write later.                 *)
(***************************************************************************)
CONSTANTS
    Users,      \* the users of the installation
    Levels,     \* entity.AccessLevel
    NonMember   \* what the roster holds for a user that is no member

VARIABLE level

Admins == {u \in Users : level[u] = "ADMIN"}

RosterTypeOK == level \in [Users -> Levels \union {NonMember}]

\* A project starts with its creator as its only member, an admin.
Init ==
    \E owner \in Users :
        level = [u \in Users |-> IF u = owner THEN "ADMIN" ELSE NonMember]

SetLevel(us, l) == level' = [u \in Users |-> IF u \in us THEN l ELSE level[u]]

\* The admin adds users that are not members: they start as viewers.
Add(us) ==
    /\ \A u \in us : level[u] = NonMember
    /\ SetLevel(us, "VIEWER")

\* The admin removes members, and an admin stays.
Remove(us) ==
    /\ \A u \in us : level[u] # NonMember
    /\ Admins \ us # {}
    /\ SetLevel(us, NonMember)

\* The admin gives members another level, and an admin remains.
Update(us, l) ==
    /\ \A u \in us : level[u] # NonMember
    /\ l = "ADMIN" \/ Admins \ us # {}
    /\ SetLevel(us, l)

\* What an admin may do; nobody else may do anything.
Operation(admin) ==
    /\ level[admin] = "ADMIN"
    /\ \E us \in SUBSET Users :
        \/ Add(us)
        \/ Remove(us)
        \/ \E l \in Levels : Update(us, l)

Next == \E admin \in Users : Operation(admin)

Spec == Init /\ [][Next]_level

=============================================================================
