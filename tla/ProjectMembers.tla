--------------------------- MODULE ProjectMembers ---------------------------
(***************************************************************************)
(* The members of one project and the GraphQL mutations that change them   *)
(* (app/api/usecase/project/interactor_members.go over                     *)
(* app/api/infrastructure/mongodb/project.go).                             *)
(*                                                                         *)
(* A handler reads the whole project, checks what it read, and then sends  *)
(* MongoDB one update of the member array.  The update is atomic, but its  *)
(* filter is the project's id alone: nothing ties it to what was read, so  *)
(* other handlers may write in between.  Requests is the set of handlers   *)
(* that can be running at once; a handler that has answered is reused.     *)
(*                                                                         *)
(* The array matters only through the order of the entries of one user     *)
(* (getMember takes the first), so it is kept as one sequence of levels    *)
(* per user.                                                               *)
(***************************************************************************)
EXTENDS Naturals, Sequences, FiniteSets

CONSTANTS
    Users,      \* the users of the installation
    Levels,     \* entity.AccessLevel
    NonMember,  \* getMember found nothing
    Requests    \* the handlers that can run at the same time

ASSUME LevelsAssumption ==
    /\ {"VIEWER", "ADMIN"} \subseteq Levels
    /\ NonMember \notin Levels

ASSUME RequestsAssumption == IsFiniteSet(Requests) /\ Requests # {}

VARIABLES
    entries,    \* the member array: for each user the levels of its entries
    request,    \* what each handler is about to write, once its checks passed
    fresh       \* history: nobody has changed entries since the handler's read

vars == <<entries, request, fresh>>

-----------------------------------------------------------------------------

NoRequest == [op |-> "none"]

\* A checked request: the level is the one its users will have afterwards.
RequestOf(op, levels) ==
    [op : {op}, caller : Users, users : SUBSET Users, level : levels]

Checked ==
    RequestOf("add", {"VIEWER"})
        \union RequestOf("remove", {NonMember})
        \union RequestOf("update", Levels)

TypeOK ==
    /\ entries \in [Users -> Seq(Levels)]
    /\ request \in [Requests -> Checked \union {NoRequest}]
    /\ fresh \in [Requests -> BOOLEAN]

LevelsIn(s) == {s[i] : i \in 1..Len(s)}

\* getMember and getMemberAccessLevel: the first entry of the user decides.
MemberLevel(u) == IF entries[u] = <<>> THEN NonMember ELSE Head(entries[u])

\* Both Remove and Update's checkMember loop, and AddMembers' opposite.
IsMember(u) == entries[u] # <<>>

\* checkAtLeastOneAdmin: any entry of a user that is not skipped will do.
AdminBeside(skip) == \E u \in Users \ skip : "ADMIN" \in LevelsIn(entries[u])

HasAdmin == AdminBeside({})

-----------------------------------------------------------------------------

\* The project as Create stored it: its owner is its only member.
Init ==
    /\ \E owner \in Users :
        entries = [u \in Users |-> IF u = owner THEN <<"ADMIN">> ELSE <<>>]
    /\ request = [r \in Requests |-> NoRequest]
    /\ fresh = [r \in Requests |-> TRUE]

\* Mutant: nobody asks whether the caller is an admin.
BeginForAnyone(r, op, caller, us, l) ==
    /\ request[r] = NoRequest
    /\ request' = [request EXCEPT ![r] =
                    [op |-> op, caller |-> caller, users |-> us, level |-> l]]
    /\ UNCHANGED <<entries, fresh>>

(***************************************************************************)
(* The first half of a handler: projectRepo.Get and the checks on what it  *)
(* returned.  A handler whose check fails answers with an error and leaves *)
(* no trace, so only the requests that pass are actions.  The users are    *)
(* those that FindByIDs knows: a set without repetitions, possibly empty.  *)
(***************************************************************************)
Begin(r, op, caller, us, l) ==
    /\ request[r] = NoRequest
    /\ MemberLevel(caller) = "ADMIN"
    /\ request' = [request EXCEPT ![r] =
                    [op |-> op, caller |-> caller, users |-> us, level |-> l]]
    /\ UNCHANGED <<entries, fresh>>

\* Mutant: the users may be members already.
BeginAddMembers(r, caller, us) == Begin(r, "add", caller, us, "VIEWER")

BeginAdd(r, caller, us) ==
    /\ \A u \in us : ~IsMember(u)
    /\ Begin(r, "add", caller, us, "VIEWER")

\* Mutant: no administrator needs to stay.
BeginRemoveAdmins(r, caller, us) ==
    /\ \A u \in us : IsMember(u)
    /\ Begin(r, "remove", caller, us, NonMember)

BeginRemove(r, caller, us) ==
    /\ \A u \in us : IsMember(u)
    /\ AdminBeside(us)
    /\ Begin(r, "remove", caller, us, NonMember)

BeginUpdate(r, caller, us, l) ==
    /\ \A u \in us : IsMember(u)
    /\ l # "ADMIN" => AdminBeside(us)
    /\ Begin(r, "update", caller, us, l)

(***************************************************************************)
(* The second half: one UpdateOne on the member array, whatever it holds   *)
(* by now.  The handler then reads the project again for its answer.       *)
(***************************************************************************)
Finish(r) ==
    /\ request' = [request EXCEPT ![r] = NoRequest]
    /\ fresh' = [q \in Requests |->
                    q = r \/ request[q] = NoRequest \/ (fresh[q] /\ entries' = entries)]

\* Mutant: $push with $position 0.
CommitAddInFront(r) ==
    /\ request[r].op = "add"
    /\ entries' = [u \in Users |-> IF u \in request[r].users
                                   THEN <<"VIEWER">> \o entries[u]
                                   ELSE entries[u]]
    /\ Finish(r)

\* $push with $each.
CommitAdd(r) ==
    /\ request[r].op = "add"
    /\ entries' = [u \in Users |-> IF u \in request[r].users
                                   THEN Append(entries[u], "VIEWER")
                                   ELSE entries[u]]
    /\ Finish(r)

\* Mutant: $pull takes one entry of each user.
CommitRemoveOnce(r) ==
    /\ request[r].op = "remove"
    /\ entries' = [u \in Users |-> IF u \in request[r].users /\ IsMember(u)
                                   THEN Tail(entries[u])
                                   ELSE entries[u]]
    /\ Finish(r)

\* $pull of every entry of the users.
CommitRemove(r) ==
    /\ request[r].op = "remove"
    /\ entries' = [u \in Users |-> IF u \in request[r].users THEN <<>> ELSE entries[u]]
    /\ Finish(r)

\* $set of access_level in every entry the array filter matches.
CommitUpdate(r) ==
    /\ request[r].op = "update"
    /\ entries' = [u \in Users |-> IF u \in request[r].users
                                   THEN [i \in DOMAIN entries[u] |-> request[r].level]
                                   ELSE entries[u]]
    /\ Finish(r)

\* The update returns an error, or the server stops before sending it.
Fail(r) ==
    /\ request[r] # NoRequest
    /\ UNCHANGED entries
    /\ Finish(r)

Next ==
    \E r \in Requests :
        \/ \E caller \in Users, us \in SUBSET Users :
            \/ BeginAdd(r, caller, us)
            \/ BeginRemove(r, caller, us)
            \/ \E l \in Levels : BeginUpdate(r, caller, us, l)
        \/ CommitAdd(r)
        \/ CommitRemove(r)
        \/ CommitUpdate(r)
        \/ Fail(r)

Spec == Init /\ [][Next]_vars

-----------------------------------------------------------------------------

\* The roster the code shows: what getMemberAccessLevel answers for each user.
Roster == INSTANCE ProjectRoster WITH level <- [u \in Users |-> MemberLevel(u)]

(***************************************************************************)
(* Handled one at a time, the requests are the operations of ProjectRoster: *)
(* the checks of interactor_members.go are then enough.                    *)
(***************************************************************************)
RefinesRoster == Roster!Spec

(***************************************************************************)
(* checkAtLeastOneAdmin's promise ("Check if after removing the user there *)
(* is at least one administrator"): the project always has an admin.       *)
(***************************************************************************)
AtLeastOneAdmin == HasAdmin

(***************************************************************************)
(* ErrMemberAlreadyExists' promise: no user is a member twice.             *)
(***************************************************************************)
NoMemberTwice == \A u \in Users : Len(entries[u]) <= 1

(***************************************************************************)
(* With any number of handlers: $push is unconditional, so overlapping     *)
(* AddMembers calls store a user twice, but never more often than there    *)
(* are handlers running at once.                                           *)
(***************************************************************************)
DuplicatesBounded == \A u \in Users : Len(entries[u]) <= Cardinality(Requests)

(***************************************************************************)
(* getMember decides by the first entry of a user, checkAtLeastOneAdmin by *)
(* any: they agree, even about a user that was stored more than once.      *)
(***************************************************************************)
FirstEntryDecides ==
    \A u \in Users : "ADMIN" \in LevelsIn(entries[u]) => MemberLevel(u) = "ADMIN"

(***************************************************************************)
(* A handler whose read is still current when it writes performs one       *)
(* operation of ProjectRoster in the name of its caller, an admin, and     *)
(* leaves the project with an admin, whatever the other handlers do: every *)
(* anomaly of the members is the work of a stale read.                     *)
(***************************************************************************)
Answers(r) == request[r] # NoRequest /\ request'[r] = NoRequest

FreshCommitIsAtomic ==
    [][\A r \in Requests :
        Answers(r) /\ fresh[r]
            => HasAdmin' /\ (Roster!Operation(request[r].caller) \/ UNCHANGED entries)]_vars

(***************************************************************************)
(* Nobody can repair a project that lost its last admin: every mutation    *)
(* asks for an admin among the members, so once the promotions under way   *)
(* have drained the project has no admin again.                            *)
(***************************************************************************)
LosingAdminsIsFinal ==
    [][~HasAdmin /\ (\A r \in Requests : request[r] # NoRequest => request[r].level # "ADMIN")
        => /\ ~HasAdmin'
           /\ \A r \in Requests : request'[r] \in {request[r], NoRequest}]_vars

=============================================================================
