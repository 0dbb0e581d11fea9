---------------------------- MODULE ProjectAccess ----------------------------
(***************************************************************************)
(* Who gets to the tools of a project (app/api/http/controller/auth.go)    *)
(* while its members change (ProjectMembers).                              *)
(*                                                                         *)
(* The proxy asks HandleProjectAuth about every request for a project's    *)
(* tools, a visit.  The handler reads the project and then the user, and   *)
(* answers by what it read of the project: the members may have changed    *)
(* since.                                                                  *)
(***************************************************************************)
EXTENDS ProjectMembers

CONSTANT Visits     \* the requests for the tools that can be under way at once

VARIABLES
    visit,      \* what HandleProjectAuth knows of each visit
    standing    \* history: the users whose last addition or removal added them

accessVars == <<vars, visit, standing>>

-----------------------------------------------------------------------------

\* Before the project is read; before the user is read.
Doors == {"project", "user"}

\* held is a history: whether the visitor had a standing, since the visit began.
Visit == [at : Doors, user : Users, member : BOOLEAN, held : SUBSET BOOLEAN]

Away == [at |-> "away"]

AccessTypeOK ==
    /\ TypeOK
    /\ visit \in [Visits -> Visit \union {Away}]
    /\ standing \in SUBSET Users

AccessInit ==
    /\ Init
    /\ visit = [v \in Visits |-> Away]
    /\ standing = {u \in Users : IsMember(u)}

\* HasMember: any entry of the user will do, at whatever level.
HasMember(u) == entries[u] # <<>>

Ask(v, u) ==
    /\ visit[v].at = "away"
    /\ visit' = [visit EXCEPT ![v] = [at |-> "project", user |-> u, member |-> FALSE,
                                      held |-> {(u \in standing)}]]
    /\ UNCHANGED <<vars, standing>>

GetProject(v) ==
    /\ visit[v].at = "project"
    /\ visit' = [visit EXCEPT ![v] = [@ EXCEPT !.at = "user",
                                               !.member = HasMember(visit[v].user)]]
    /\ UNCHANGED <<vars, standing>>

\* GetByEmail finds the user that HasMember is asked about: 200 or 403.
Answer(v) ==
    /\ visit[v].at = "user"
    /\ visit' = [visit EXCEPT ![v] = Away]
    /\ UNCHANGED <<vars, standing>>

\* No project in the URI, no such project or user, or a failed read: 401.
Unauthorized(v) ==
    /\ visit[v].at # "away"
    /\ visit' = [visit EXCEPT ![v] = Away]
    /\ UNCHANGED <<vars, standing>>

(***************************************************************************)
(* A step of the members, with what it does to the histories.              *)
(***************************************************************************)
Settle(users) ==
    /\ standing' = users
    /\ visit' = [v \in Visits |->
                    IF visit[v] = Away
                      THEN Away
                      ELSE [visit[v] EXCEPT !.held = @ \union {visit[v].user \in users}]]

MembersStep ==
    \E r \in Requests :
        \/ CommitAdd(r) /\ Settle(standing \union request[r].users)
        \/ CommitRemove(r) /\ Settle(standing \ request[r].users)
        \/ /\ \/ \E caller \in Users, us \in SUBSET Users :
                    \/ BeginAdd(r, caller, us)
                    \/ BeginRemove(r, caller, us)
                    \/ \E l \in Levels : BeginUpdate(r, caller, us, l)
              \/ CommitUpdate(r)
              \/ Fail(r)
           /\ UNCHANGED <<visit, standing>>

AccessNext ==
    \/ MembersStep
    \/ \E v \in Visits :
        \/ \E u \in Users : Ask(v, u)
        \/ GetProject(v)
        \/ Answer(v)
        \/ Unauthorized(v)

AccessSpec == AccessInit /\ [][AccessNext]_accessVars

-----------------------------------------------------------------------------

(***************************************************************************)
(* What HandleProjectAuth is about to answer was right at some moment of   *)
(* the visit: a user is let in only if its last addition or removal was an *)
(* addition, and kept out only if it was not, even if overlapping          *)
(* additions have stored it twice, and whatever updates of its level were  *)
(* under way when it was removed.                                          *)
(***************************************************************************)
AnswersWereRight == \A v \in Visits : visit[v].at = "user" => visit[v].member \in visit[v].held

=============================================================================
