------------------------ MODULE ProjectMembersProofs ------------------------
(***************************************************************************)
(* What ProjectMembers guarantees for any users, levels and number of      *)
(* handlers, what it adds when one handler runs at a time, and what        *)
(* ProjectAccess guarantees beside it.                                     *)
(***************************************************************************)
EXTENDS ProjectAccess, TLAPS, FiniteSetTheorems

-----------------------------------------------------------------------------
\* The member arrays the three updates produce.

LEMMA PushedEntries ==
    ASSUME NEW s \in Seq(Levels)
    PROVE  LET t == Append(s, "VIEWER") IN
           /\ t \in Seq(Levels)
           /\ t # <<>>
           /\ Len(t) = Len(s) + 1
           /\ Head(t) = IF s = <<>> THEN "VIEWER" ELSE Head(s)
           /\ "ADMIN" \in LevelsIn(t) <=> "ADMIN" \in LevelsIn(s)
<1> DEFINE t == Append(s, "VIEWER")
<1>1. t \in Seq(Levels) /\ t # <<>> /\ Len(t) = Len(s) + 1
  BY LevelsAssumption
<1>2. /\ \A i \in 1..Len(s) : t[i] = s[i]
      /\ t[Len(s) + 1] = "VIEWER"
  BY LevelsAssumption
<1>3. Head(t) = IF s = <<>> THEN "VIEWER" ELSE Head(s)
  BY <1>1, <1>2, Head(t) = t[1]
<1>4. "ADMIN" \in LevelsIn(t) <=> "ADMIN" \in LevelsIn(s)
  BY <1>1, <1>2, Len(s) \in Nat DEF LevelsIn
<1> QED  BY <1>1, <1>3, <1>4

LEMMA SetEntries ==
    ASSUME NEW s \in Seq(Levels), NEW l \in Levels
    PROVE  LET t == [i \in DOMAIN s |-> l] IN
           /\ t \in Seq(Levels)
           /\ Len(t) = Len(s)
           /\ t = <<>> <=> s = <<>>
           /\ s # <<>> => Head(t) = l
           /\ "ADMIN" \in LevelsIn(t) <=> (l = "ADMIN" /\ s # <<>>)
<1> DEFINE t == [i \in DOMAIN s |-> l]
<1>1. t \in Seq(Levels) /\ Len(t) = Len(s)
  OBVIOUS
<1>2. t = <<>> <=> s = <<>>
  BY <1>1
<1>3. s # <<>> => 1 \in 1..Len(s)
  OBVIOUS
<1>4. s # <<>> => Head(t) = l
  BY <1>1, <1>2, <1>3
<1>5. "ADMIN" \in LevelsIn(t) <=> (l = "ADMIN" /\ s # <<>>)
  BY <1>1, <1>3 DEF LevelsIn
<1> QED  BY <1>1, <1>2, <1>4, <1>5

\* CommitUpdate gives every entry of its users its level.
LEMMA UpdatedEntries ==
    ASSUME TypeOK, NEW r \in Requests, CommitUpdate(r), NEW u \in Users,
           u \in request[r].users
    PROVE  /\ request[r].level \in Levels
           /\ entries'[u] \in Seq(Levels)
           /\ Len(entries'[u]) = Len(entries[u])
           /\ entries[u] # <<>> => /\ entries'[u] # <<>>
                                   /\ Head(entries'[u]) = request[r].level
           /\ "ADMIN" \in LevelsIn(entries'[u])
                <=> (request[r].level = "ADMIN" /\ entries[u] # <<>>)
<1> DEFINE l == request[r].level
           t == [i \in DOMAIN entries[u] |-> l]
<1>1. l \in Levels
  BY DEF TypeOK, CommitUpdate, Checked, RequestOf, NoRequest
<1>2. entries'[u] = t
  BY DEF CommitUpdate
<1>3. entries[u] \in Seq(Levels)
  BY DEF TypeOK
<1> HIDE DEF l
<1>4. /\ t \in Seq(Levels)
      /\ Len(t) = Len(entries[u])
      /\ t = <<>> <=> entries[u] = <<>>
      /\ entries[u] # <<>> => Head(t) = l
      /\ "ADMIN" \in LevelsIn(t) <=> (l = "ADMIN" /\ entries[u] # <<>>)
  BY <1>1, <1>3, SetEntries
<1> QED  BY <1>1, <1>2, <1>4 DEF l

LEMMA NoEntries == <<>> \in Seq(Levels) /\ Len(<<>>) = 0 /\ LevelsIn(<<>>) = {}
  BY DEF LevelsIn

-----------------------------------------------------------------------------
(***************************************************************************)
(* Type correctness.                                                       *)
(***************************************************************************)
LEMMA InitType == Init => TypeOK
  BY LevelsAssumption DEF Init, TypeOK

LEMMA FinishType ==
    ASSUME TypeOK, NEW r \in Requests, Finish(r)
    PROVE  request' \in [Requests -> Checked \union {NoRequest}]
           /\ fresh' \in [Requests -> BOOLEAN]
  BY DEF TypeOK, Finish

LEMMA StepType == TypeOK /\ [Next]_vars => TypeOK'
<1> SUFFICES ASSUME TypeOK, [Next]_vars PROVE TypeOK'
  OBVIOUS
<1>1. ASSUME NEW r \in Requests, NEW caller \in Users, NEW us \in SUBSET Users,
             BeginAdd(r, caller, us) \/ BeginRemove(r, caller, us)
      PROVE  TypeOK'
  BY <1>1 DEF TypeOK, BeginAdd, BeginRemove, Begin, Checked, RequestOf
<1>2. ASSUME NEW r \in Requests, NEW caller \in Users, NEW us \in SUBSET Users,
             NEW l \in Levels, BeginUpdate(r, caller, us, l)
      PROVE  TypeOK'
  BY <1>2 DEF TypeOK, BeginUpdate, Begin, Checked, RequestOf
<1>3. ASSUME NEW r \in Requests, CommitAdd(r) PROVE TypeOK'
  BY <1>3, FinishType, PushedEntries DEF TypeOK, CommitAdd
<1>4. ASSUME NEW r \in Requests, CommitRemove(r) PROVE TypeOK'
  BY <1>4, FinishType, NoEntries DEF TypeOK, CommitRemove
<1>5. ASSUME NEW r \in Requests, CommitUpdate(r) PROVE TypeOK'
  <2>1. ASSUME NEW u \in Users PROVE entries'[u] \in Seq(Levels)
    BY <1>5, UpdatedEntries DEF TypeOK, CommitUpdate
  <2>2. entries' \in [Users -> Seq(Levels)]
    BY <1>5, <2>1 DEF CommitUpdate
  <2> QED  BY <1>5, <2>2, FinishType DEF TypeOK, CommitUpdate
<1>6. ASSUME NEW r \in Requests, Fail(r) PROVE TypeOK'
  BY <1>6, FinishType DEF TypeOK, Fail
<1>7. CASE UNCHANGED vars
  BY <1>7 DEF vars, TypeOK
<1> QED  BY <1>1, <1>2, <1>3, <1>4, <1>5, <1>6, <1>7 DEF Next

(***************************************************************************)
(* Every state of every behaviour is of the declared types.                *)
(***************************************************************************)
THEOREM TypeCorrect == Spec => []TypeOK
<1> QED  BY InitType, StepType, PTL DEF Spec

-----------------------------------------------------------------------------
(***************************************************************************)
(* The first entry of a user decides for all of them: $push adds a viewer  *)
(* behind the others, $set gives all of them the same level.               *)
(***************************************************************************)
LEMMA StepFirstEntry ==
    TypeOK /\ FirstEntryDecides /\ [Next]_vars => FirstEntryDecides'
<1> SUFFICES ASSUME TypeOK, FirstEntryDecides, [Next]_vars, NEW u \in Users,
                    "ADMIN" \in LevelsIn(entries'[u])
             PROVE  entries'[u] # <<>> /\ Head(entries'[u]) = "ADMIN"
  BY DEF FirstEntryDecides, MemberLevel
<1> USE DEF TypeOK
<1>1. "ADMIN" \in LevelsIn(entries[u]) => entries[u] # <<>> /\ Head(entries[u]) = "ADMIN"
  BY NoEntries DEF FirstEntryDecides, MemberLevel
<1>2. CASE UNCHANGED entries
  BY <1>1, <1>2
<1>3. ASSUME NEW r \in Requests, CommitAdd(r)
      PROVE  entries'[u] # <<>> /\ Head(entries'[u]) = "ADMIN"
  <2>1. entries'[u] = IF u \in request[r].users THEN Append(entries[u], "VIEWER") ELSE entries[u]
    BY <1>3 DEF CommitAdd
  <2>2. CASE u \in request[r].users
    <3>1. "ADMIN" \in LevelsIn(entries[u])
      BY <2>1, <2>2, PushedEntries
    <3> QED  BY <1>1, <2>1, <2>2, <3>1, PushedEntries
  <2> QED  BY <1>1, <2>1, <2>2
<1>4. ASSUME NEW r \in Requests, CommitRemove(r)
      PROVE  entries'[u] # <<>> /\ Head(entries'[u]) = "ADMIN"
  <2>1. entries'[u] = IF u \in request[r].users THEN <<>> ELSE entries[u]
    BY <1>4 DEF CommitRemove
  <2> QED  BY <1>1, <2>1, NoEntries
<1>5. ASSUME NEW r \in Requests, CommitUpdate(r)
      PROVE  entries'[u] # <<>> /\ Head(entries'[u]) = "ADMIN"
  <2>1. CASE u \in request[r].users
    BY <1>5, <2>1, UpdatedEntries
  <2>2. CASE u \notin request[r].users
    BY <1>1, <1>5, <2>2 DEF CommitUpdate
  <2> QED  BY <2>1, <2>2
<1> QED
  BY <1>2, <1>3, <1>4, <1>5
  DEF Next, BeginAdd, BeginRemove, BeginUpdate, Begin, Fail, vars

(***************************************************************************)
(* getMember's first match and checkAtLeastOneAdmin's any match agree in   *)
(* every reachable state, duplicates included.                             *)
(***************************************************************************)
THEOREM FirstEntryAlwaysDecides == Spec => []FirstEntryDecides
<1>1. Init => FirstEntryDecides
  <2> SUFFICES ASSUME Init, NEW u \in Users, "ADMIN" \in LevelsIn(entries[u])
               PROVE  MemberLevel(u) = "ADMIN"
    BY DEF FirstEntryDecides
  <2>1. entries[u] = <<"ADMIN">> \/ entries[u] = <<>>
    BY DEF Init
  <2> QED  BY <2>1, NoEntries, <<"ADMIN">> # <<>>, Head(<<"ADMIN">>) = "ADMIN" DEF MemberLevel
<1> QED  BY <1>1, StepFirstEntry, TypeCorrect, PTL DEF Spec

-----------------------------------------------------------------------------
(***************************************************************************)
(* While nobody else has written, what a handler checked still holds.      *)
(***************************************************************************)
Passes(q) ==
    /\ MemberLevel(q.caller) = "ADMIN"
    /\ q.op = "add" => \A u \in q.users : ~IsMember(u)
    /\ q.op # "add" => \A u \in q.users : IsMember(u)
    /\ q.op # "add" /\ q.level # "ADMIN" => AdminBeside(q.users)

FreshPasses ==
    \A r \in Requests : request[r] # NoRequest /\ fresh[r] => Passes(request[r])

LEMMA StepFreshPasses == TypeOK /\ FreshPasses /\ [Next]_vars => FreshPasses'
<1> SUFFICES ASSUME TypeOK, FreshPasses, [Next]_vars PROVE FreshPasses'
  OBVIOUS
<1> USE DEF TypeOK
<1>1. ASSUME NEW r \in Requests, request' = [request EXCEPT ![r] = request'[r]],
             Passes(request'[r]), UNCHANGED <<entries, fresh>>
      PROVE  FreshPasses'
  BY <1>1 DEF FreshPasses, Passes, MemberLevel, IsMember, AdminBeside
<1>2. ASSUME NEW r \in Requests, NEW caller \in Users, NEW us \in SUBSET Users,
             BeginAdd(r, caller, us)
      PROVE  FreshPasses'
  <2>1. request'[r] = [op |-> "add", caller |-> caller, users |-> us, level |-> "VIEWER"]
    BY <1>2 DEF BeginAdd, Begin
  <2>2. Passes(request'[r])
    BY <1>2, <2>1 DEF BeginAdd, Begin, Passes
  <2> QED  BY <1>1, <1>2, <2>1, <2>2 DEF BeginAdd, Begin
<1>3. ASSUME NEW r \in Requests, NEW caller \in Users, NEW us \in SUBSET Users,
             BeginRemove(r, caller, us)
      PROVE  FreshPasses'
  <2>1. request'[r] = [op |-> "remove", caller |-> caller, users |-> us, level |-> NonMember]
    BY <1>3 DEF BeginRemove, Begin
  <2>2. Passes(request'[r])
    BY <1>3, <2>1 DEF BeginRemove, Begin, Passes
  <2> QED  BY <1>1, <1>3, <2>1, <2>2 DEF BeginRemove, Begin
<1>4. ASSUME NEW r \in Requests, NEW caller \in Users, NEW us \in SUBSET Users,
             NEW l \in Levels, BeginUpdate(r, caller, us, l)
      PROVE  FreshPasses'
  <2>1. request'[r] = [op |-> "update", caller |-> caller, users |-> us, level |-> l]
    BY <1>4 DEF BeginUpdate, Begin
  <2>2. Passes(request'[r])
    BY <1>4, <2>1 DEF BeginUpdate, Begin, Passes
  <2> QED  BY <1>1, <1>4, <2>1, <2>2 DEF BeginUpdate, Begin
<1>5. ASSUME NEW r \in Requests, Finish(r)
      PROVE  FreshPasses'
  <2> SUFFICES ASSUME NEW q \in Requests, request'[q] # NoRequest, fresh'[q]
               PROVE  Passes(request[q])'
    BY DEF FreshPasses
  <2>1. q # r /\ request'[q] = request[q]
    BY <1>5 DEF Finish
  <2>2. fresh[q] /\ entries' = entries
    BY <1>5, <2>1 DEF Finish
  <2>3. Passes(request[q])
    BY <2>1, <2>2 DEF FreshPasses
  <2> QED  BY <2>1, <2>2, <2>3 DEF Passes, MemberLevel, IsMember, AdminBeside
<1>6. CASE UNCHANGED vars
  BY <1>6 DEF vars, FreshPasses, Passes, MemberLevel, IsMember, AdminBeside
<1> QED
  BY <1>2, <1>3, <1>4, <1>5, <1>6 DEF Next, CommitAdd, CommitRemove, CommitUpdate, Fail

LEMMA InitFreshPasses == Init => FreshPasses
  BY DEF Init, FreshPasses

-----------------------------------------------------------------------------
(***************************************************************************)
(* A fresh commit is one operation of ProjectRoster.                       *)
(***************************************************************************)
RosterLevel == [u \in Users |-> MemberLevel(u)]

LEMMA HeadIsLevel ==
    ASSUME TypeOK, NEW u \in Users, IsMember(u)
    PROVE  /\ MemberLevel(u) = Head(entries[u])
           /\ MemberLevel(u) \in Levels
           /\ MemberLevel(u) \in LevelsIn(entries[u])
<1>1. entries[u] \in Seq(Levels) /\ entries[u] # <<>>
  BY DEF TypeOK, IsMember
<1>2. 1 \in 1..Len(entries[u]) /\ Head(entries[u]) = entries[u][1]
  BY <1>1
<1>3. entries[u][1] \in Levels
  BY <1>1, <1>2
<1> QED  BY <1>1, <1>2, <1>3 DEF MemberLevel, LevelsIn

\* An admin of the roster is an admin for checkAtLeastOneAdmin.
LEMMA AdminCounts ==
    ASSUME TypeOK, NEW u \in Users, MemberLevel(u) = "ADMIN"
    PROVE  IsMember(u) /\ "ADMIN" \in LevelsIn(entries[u])
<1>1. IsMember(u)
  BY LevelsAssumption DEF IsMember, MemberLevel
<1> QED  BY <1>1, HeadIsLevel

LEMMA FreshAdd ==
    ASSUME TypeOK, FreshPasses, NEW r \in Requests, CommitAdd(r), fresh[r]
    PROVE  HasAdmin' /\ Roster!Operation(request[r].caller)
<1> DEFINE q == request[r]
<1>1. q \in RequestOf("add", {"VIEWER"})
  BY DEF TypeOK, CommitAdd, Checked, RequestOf, NoRequest
<1>2. MemberLevel(q.caller) = "ADMIN" /\ \A u \in q.users : ~IsMember(u)
  BY <1>1 DEF FreshPasses, Passes, RequestOf, NoRequest
<1>3. entries'[q.caller] = entries[q.caller]
  BY <1>1, <1>2, AdminCounts DEF CommitAdd, RequestOf
<1>4. HasAdmin'
  BY <1>1, <1>2, <1>3, AdminCounts DEF HasAdmin, AdminBeside, RequestOf
<1>5. ASSUME NEW u \in Users
      PROVE  MemberLevel(u)' = IF u \in q.users THEN "VIEWER" ELSE MemberLevel(u)
  <2>1. entries'[u] = IF u \in q.users THEN Append(entries[u], "VIEWER") ELSE entries[u]
    BY DEF CommitAdd
  <2>2. u \in q.users => entries[u] = <<>>
    BY <1>2 DEF IsMember
  <2> QED  BY <2>1, <2>2, PushedEntries DEF TypeOK, MemberLevel
<1>6. Roster!Add(q.users)
  BY <1>1, <1>2, <1>5 DEF Roster!Add, Roster!SetLevel, IsMember, MemberLevel, RequestOf
<1> QED
  BY <1>1, <1>2, <1>4, <1>6 DEF Roster!Operation, RequestOf

LEMMA FreshRemove ==
    ASSUME TypeOK, FirstEntryDecides, FreshPasses, NEW r \in Requests, CommitRemove(r), fresh[r]
    PROVE  HasAdmin' /\ Roster!Operation(request[r].caller)
<1> DEFINE q == request[r]
<1>1. q \in RequestOf("remove", {NonMember})
  BY DEF TypeOK, CommitRemove, Checked, RequestOf, NoRequest
<1>2. /\ MemberLevel(q.caller) = "ADMIN"
      /\ \A u \in q.users : IsMember(u)
      /\ AdminBeside(q.users)
  BY <1>1, LevelsAssumption DEF FreshPasses, Passes, RequestOf, NoRequest
<1>3. PICK a \in Users \ q.users : "ADMIN" \in LevelsIn(entries[a])
  BY <1>2 DEF AdminBeside
<1>4. entries'[a] = entries[a] /\ MemberLevel(a) = "ADMIN"
  BY <1>3 DEF CommitRemove, FirstEntryDecides
<1>5. HasAdmin'
  BY <1>3, <1>4 DEF HasAdmin, AdminBeside
<1>6. ASSUME NEW u \in Users
      PROVE  MemberLevel(u)' = IF u \in q.users THEN NonMember ELSE MemberLevel(u)
  BY DEF CommitRemove, MemberLevel
<1>7. \A u \in q.users : MemberLevel(u) # NonMember
  BY <1>1, <1>2, HeadIsLevel, LevelsAssumption DEF RequestOf
<1>8. Roster!Remove(q.users)
  BY <1>1, <1>3, <1>4, <1>6, <1>7
  DEF Roster!Remove, Roster!SetLevel, Roster!Admins, RequestOf
<1> QED
  BY <1>1, <1>2, <1>5, <1>8 DEF Roster!Operation, RequestOf

LEMMA FreshUpdate ==
    ASSUME TypeOK, FirstEntryDecides, FreshPasses, NEW r \in Requests, CommitUpdate(r), fresh[r]
    PROVE  HasAdmin' /\ Roster!Operation(request[r].caller)
<1> DEFINE q == request[r]
<1>1. q \in RequestOf("update", Levels)
  BY DEF TypeOK, CommitUpdate, Checked, RequestOf, NoRequest
<1>2. /\ MemberLevel(q.caller) = "ADMIN"
      /\ \A u \in q.users : IsMember(u)
      /\ q.level # "ADMIN" => AdminBeside(q.users)
  BY <1>1, LevelsAssumption DEF FreshPasses, Passes, RequestOf, NoRequest
<1>3. ASSUME NEW u \in Users
      PROVE  /\ u \in q.users => /\ MemberLevel(u)' = q.level
                                 /\ q.level = "ADMIN" => "ADMIN" \in LevelsIn(entries'[u])
             /\ u \notin q.users => entries'[u] = entries[u]
  <2>1. CASE u \in q.users
    BY <1>2, <2>1, UpdatedEntries DEF IsMember, MemberLevel
  <2>2. CASE u \notin q.users
    BY <2>2 DEF CommitUpdate
  <2> QED  BY <2>1, <2>2
<1>4. PICK a \in Users : "ADMIN" \in LevelsIn(entries'[a])
  <2>1. CASE q.level = "ADMIN"
    <3>1. q.caller \in Users /\ "ADMIN" \in LevelsIn(entries[q.caller])
      BY <1>1, <1>2, AdminCounts DEF RequestOf
    <3> QED  BY <1>3, <2>1, <3>1
  <2>2. CASE q.level # "ADMIN"
    BY <1>2, <1>3, <2>2 DEF AdminBeside
  <2> QED  BY <2>1, <2>2
<1>5. HasAdmin'
  BY <1>4 DEF HasAdmin, AdminBeside
<1>6. \A u \in q.users : MemberLevel(u) # NonMember
  BY <1>1, <1>2, HeadIsLevel, LevelsAssumption DEF RequestOf
<1>7. q.level = "ADMIN" \/ \E u \in Users \ q.users : MemberLevel(u) = "ADMIN"
  BY <1>2 DEF AdminBeside, FirstEntryDecides
<1>8. ASSUME NEW u \in Users
      PROVE  MemberLevel(u)' = IF u \in q.users THEN q.level ELSE MemberLevel(u)
  <2>1. CASE u \in q.users
    BY <1>3, <2>1
  <2>2. CASE u \notin q.users
    BY <1>3, <2>2 DEF MemberLevel
  <2> QED  BY <2>1, <2>2
<1>9. Roster!Update(q.users, q.level)
  BY <1>1, <1>6, <1>7, <1>8
  DEF Roster!Update, Roster!SetLevel, Roster!Admins, RequestOf
<1> QED
  BY <1>1, <1>2, <1>5, <1>9 DEF Roster!Operation, RequestOf

\* Which request a step answers, and with which action.
LEMMA AnswerSteps ==
    ASSUME TypeOK, Next, NEW r \in Requests, Answers(r)
    PROVE  CommitAdd(r) \/ CommitRemove(r) \/ CommitUpdate(r) \/ Fail(r)
<1>1. PICK s \in Requests :
        \/ \E caller \in Users, us \in SUBSET Users :
            \/ BeginAdd(s, caller, us)
            \/ BeginRemove(s, caller, us)
            \/ \E l \in Levels : BeginUpdate(s, caller, us, l)
        \/ CommitAdd(s) \/ CommitRemove(s) \/ CommitUpdate(s) \/ Fail(s)
  BY DEF Next
<1>2. CASE \E caller \in Users, us \in SUBSET Users :
            \/ BeginAdd(s, caller, us)
            \/ BeginRemove(s, caller, us)
            \/ \E l \in Levels : BeginUpdate(s, caller, us, l)
  <2>1. request[s] = NoRequest /\ \A t \in Requests \ {s} : request'[t] = request[t]
    BY <1>2 DEF TypeOK, BeginAdd, BeginRemove, BeginUpdate, Begin
  <2> QED  BY <2>1 DEF Answers
<1>3. CASE CommitAdd(s) \/ CommitRemove(s) \/ CommitUpdate(s) \/ Fail(s)
  <2>1. \A t \in Requests \ {s} : request'[t] = request[t]
    BY <1>3 DEF TypeOK, CommitAdd, CommitRemove, CommitUpdate, Fail, Finish
  <2> QED  BY <1>3, <2>1 DEF Answers
<1> QED  BY <1>1, <1>2, <1>3

\* A handler that fails while its read is current leaves an admin too.
LEMMA FreshFail ==
    ASSUME TypeOK, FreshPasses, NEW r \in Requests, Fail(r), fresh[r]
    PROVE  HasAdmin' /\ UNCHANGED entries
<1>1. request[r].caller \in Users
  BY DEF TypeOK, Fail, Checked, RequestOf
<1>2. MemberLevel(request[r].caller) = "ADMIN"
  BY DEF FreshPasses, Passes, Fail
<1> QED  BY <1>1, <1>2, AdminCounts DEF Fail, HasAdmin, AdminBeside

(***************************************************************************)
(* However many handlers run, one that writes with a current read performs *)
(* an operation of ProjectRoster and leaves the project with an admin.     *)
(***************************************************************************)
THEOREM FreshCommitsAreAtomic == Spec => FreshCommitIsAtomic
<1>1. TypeOK /\ FirstEntryDecides /\ FreshPasses /\ [Next]_vars
        => [\A r \in Requests :
              Answers(r) /\ fresh[r]
                => HasAdmin' /\ (Roster!Operation(request[r].caller) \/ UNCHANGED entries)]_vars
  <2> SUFFICES ASSUME TypeOK, FirstEntryDecides, FreshPasses, Next,
                      NEW r \in Requests, Answers(r), fresh[r]
               PROVE  HasAdmin' /\ (Roster!Operation(request[r].caller) \/ UNCHANGED entries)
    OBVIOUS
  <2> QED  BY AnswerSteps, FreshAdd, FreshRemove, FreshUpdate, FreshFail
<1>2. Spec => []FreshPasses
  BY InitFreshPasses, StepFreshPasses, TypeCorrect, PTL DEF Spec
<1> QED
  BY <1>1, <1>2, TypeCorrect, FirstEntryAlwaysDecides, PTL DEF Spec, FreshCommitIsAtomic

-----------------------------------------------------------------------------
(***************************************************************************)
(* A project without admins, and without a promotion under way, accepts no *)
(* request and never has an admin again.                                   *)
(***************************************************************************)
Draining == \A r \in Requests : request[r] # NoRequest => request[r].level # "ADMIN"

LEMMA NoAdminNoRequest ==
    ASSUME TypeOK, ~HasAdmin, NEW r \in Requests, NEW caller \in Users,
           NEW us \in SUBSET Users
    PROVE  /\ ~BeginAdd(r, caller, us)
           /\ ~BeginRemove(r, caller, us)
           /\ \A l \in Levels : ~BeginUpdate(r, caller, us, l)
<1>1. MemberLevel(caller) # "ADMIN"
  BY AdminCounts DEF HasAdmin, AdminBeside
<1> QED  BY <1>1 DEF BeginAdd, BeginRemove, BeginUpdate, Begin

LEMMA DrainStep ==
    ASSUME TypeOK, ~HasAdmin, Draining, NEW r \in Requests,
           CommitAdd(r) \/ CommitRemove(r) \/ CommitUpdate(r) \/ Fail(r)
    PROVE  ~HasAdmin' /\ \A q \in Requests : request'[q] \in {request[q], NoRequest}
<1>1. \A q \in Requests : request'[q] \in {request[q], NoRequest}
  BY DEF TypeOK, CommitAdd, CommitRemove, CommitUpdate, Fail, Finish
<1>2. ASSUME NEW u \in Users PROVE "ADMIN" \notin LevelsIn(entries'[u])
  <2>1. "ADMIN" \notin LevelsIn(entries[u]) /\ entries[u] \in Seq(Levels)
    BY DEF TypeOK, HasAdmin, AdminBeside
  <2>2. CASE CommitAdd(r)
    <3>1. entries'[u] = IF u \in request[r].users THEN Append(entries[u], "VIEWER") ELSE entries[u]
      BY <2>2 DEF CommitAdd
    <3> QED  BY <2>1, <3>1, PushedEntries
  <2>3. CASE CommitRemove(r)
    BY <2>1, <2>3, NoEntries DEF CommitRemove
  <2>4. CASE CommitUpdate(r)
    <3>1. request[r].level # "ADMIN"
      BY <2>4 DEF Draining, CommitUpdate, NoRequest
    <3>2. CASE u \in request[r].users
      BY <2>4, <3>1, <3>2, UpdatedEntries
    <3>3. CASE u \notin request[r].users
      BY <2>1, <2>4, <3>3 DEF CommitUpdate
    <3> QED  BY <3>2, <3>3
  <2>5. CASE Fail(r)
    BY <2>1, <2>5 DEF Fail
  <2> QED  BY <2>2, <2>3, <2>4, <2>5
<1> QED  BY <1>1, <1>2 DEF HasAdmin, AdminBeside

THEOREM LosingAdminsIsForever == Spec => LosingAdminsIsFinal
<1>1. TypeOK /\ [Next]_vars
        => [~HasAdmin /\ (\A r \in Requests : request[r] # NoRequest => request[r].level # "ADMIN")
              => /\ ~HasAdmin'
                 /\ \A r \in Requests : request'[r] \in {request[r], NoRequest}]_vars
  <2> SUFFICES ASSUME TypeOK, Next, ~HasAdmin, Draining
               PROVE  ~HasAdmin' /\ \A r \in Requests : request'[r] \in {request[r], NoRequest}
    BY DEF Draining
  <2> QED  BY NoAdminNoRequest, DrainStep DEF Next
<1> QED  BY <1>1, TypeCorrect, PTL DEF Spec, LosingAdminsIsFinal

-----------------------------------------------------------------------------
(***************************************************************************)
(* Duplicates: a user is stored at most once per handler.  AddMembers only *)
(* passes for a user that is not stored, so what counts is the entries of  *)
(* a user together with the additions of it that are still to be written.  *)
(***************************************************************************)
Adding(u) == {r \in Requests : request[r].op = "add" /\ u \in request[r].users}

DuplicatesInv ==
    \A u \in Users : Len(entries[u]) + Cardinality(Adding(u)) <= Cardinality(Requests)

LEMMA AddingIsFinite ==
    ASSUME NEW u \in Users
    PROVE  /\ IsFiniteSet(Adding(u))
           /\ Cardinality(Adding(u)) \in Nat
           /\ Cardinality(Requests) \in Nat
           /\ Cardinality(Adding(u)) <= Cardinality(Requests)
<1>1. Adding(u) \subseteq Requests
  BY DEF Adding
<1> QED  BY <1>1, RequestsAssumption, FS_Subset, FS_CardinalityType

\* Answering takes the handler's own addition away and touches no other.
LEMMA AddingAfterAnswer ==
    ASSUME TypeOK, NEW r \in Requests, Finish(r), NEW u \in Users
    PROVE  /\ Adding(u)' = Adding(u) \ {r}
           /\ Cardinality(Adding(u)') <= Cardinality(Adding(u))
           /\ r \in Adding(u) => Cardinality(Adding(u)') = Cardinality(Adding(u)) - 1
           /\ Cardinality(Adding(u)') \in Nat
<1>1. Adding(u)' = Adding(u) \ {r}
  BY DEF TypeOK, Finish, Adding, NoRequest
<1> QED  BY <1>1, AddingIsFinite, FS_RemoveElement, FS_Subset, FS_CardinalityType

LEMMA StepDuplicates == TypeOK /\ DuplicatesInv /\ [Next]_vars => DuplicatesInv'
<1> SUFFICES ASSUME TypeOK, DuplicatesInv, [Next]_vars, NEW u \in Users
             PROVE  Len(entries'[u]) + Cardinality(Adding(u)') <= Cardinality(Requests)
  BY DEF DuplicatesInv
<1> DEFINE Goal == Len(entries'[u]) + Cardinality(Adding(u)') <= Cardinality(Requests)
<1>a. /\ entries[u] \in Seq(Levels)
      /\ Len(entries[u]) \in Nat
      /\ Len(entries[u]) + Cardinality(Adding(u)) <= Cardinality(Requests)
  BY DEF TypeOK, DuplicatesInv
<1>1. ASSUME NEW r \in Requests, NEW caller \in Users, NEW us \in SUBSET Users,
             BeginAdd(r, caller, us)
      PROVE  Goal
  <2>1. CASE u \in us
    <3>1. entries'[u] = <<>>
      BY <1>1, <2>1 DEF BeginAdd, Begin, IsMember
    <3>2. Adding(u)' \subseteq Requests
      BY DEF Adding
    <3> QED  BY <3>1, <3>2, RequestsAssumption, FS_Subset, FS_CardinalityType, NoEntries
  <2>2. CASE u \notin us
    <3>1. entries' = entries
      BY <1>1 DEF BeginAdd, Begin
    <3>2. request[r] = NoRequest /\ request'[r].op = "add" /\ request'[r].users = us
      BY <1>1 DEF TypeOK, BeginAdd, Begin
    <3>3. \A q \in Requests \ {r} : request'[q] = request[q]
      BY <1>1 DEF TypeOK, BeginAdd, Begin
    <3>4. Adding(u)' = Adding(u)
      BY <2>2, <3>2, <3>3 DEF Adding, NoRequest
    <3> QED  BY <1>a, <3>1, <3>4
  <2> QED  BY <2>1, <2>2
<1>2. ASSUME NEW r \in Requests, NEW caller \in Users, NEW us \in SUBSET Users,
             \/ BeginRemove(r, caller, us)
             \/ \E l \in Levels : BeginUpdate(r, caller, us, l)
      PROVE  Goal
  <2>1. entries' = entries
    BY <1>2 DEF BeginRemove, BeginUpdate, Begin
  <2>2. request[r] = NoRequest /\ request'[r].op # "add"
    BY <1>2 DEF TypeOK, BeginRemove, BeginUpdate, Begin
  <2>3. \A q \in Requests \ {r} : request'[q] = request[q]
    BY <1>2 DEF TypeOK, BeginRemove, BeginUpdate, Begin
  <2>4. Adding(u)' = Adding(u)
    BY <2>2, <2>3 DEF Adding, NoRequest
  <2> QED  BY <1>a, <2>1, <2>4
<1>3. ASSUME NEW r \in Requests, CommitAdd(r) PROVE Goal
  <2>1. CASE u \in request[r].users
    <3>1. r \in Adding(u)
      BY <1>3, <2>1 DEF CommitAdd, Adding
    <3>2. Len(entries'[u]) = Len(entries[u]) + 1
      BY <1>3, <1>a, <2>1, PushedEntries DEF CommitAdd
    <3> QED  BY <1>3, <1>a, <3>1, <3>2, AddingAfterAnswer, AddingIsFinite DEF CommitAdd
  <2>2. CASE u \notin request[r].users
    BY <1>3, <1>a, <2>2, AddingAfterAnswer, AddingIsFinite DEF CommitAdd
  <2> QED  BY <2>1, <2>2
<1>4. ASSUME NEW r \in Requests, CommitRemove(r) PROVE Goal
  <2>1. Len(entries'[u]) \in Nat /\ Len(entries'[u]) <= Len(entries[u])
    BY <1>4, <1>a, NoEntries DEF CommitRemove
  <2> QED  BY <1>4, <1>a, <2>1, AddingAfterAnswer, AddingIsFinite DEF CommitRemove
<1>5. ASSUME NEW r \in Requests, CommitUpdate(r) PROVE Goal
  <2>1. Len(entries'[u]) = Len(entries[u])
    BY <1>5, UpdatedEntries DEF CommitUpdate
  <2> QED  BY <1>5, <1>a, <2>1, AddingAfterAnswer, AddingIsFinite DEF CommitUpdate
<1>6. ASSUME NEW r \in Requests, Fail(r) PROVE Goal
  BY <1>6, <1>a, AddingAfterAnswer, AddingIsFinite DEF Fail
<1>7. CASE UNCHANGED vars
  <2>1. Adding(u)' = Adding(u) /\ entries' = entries
    BY <1>7 DEF vars, Adding
  <2> QED  BY <1>a, <2>1
<1> QED  BY <1>1, <1>2, <1>3, <1>4, <1>5, <1>6, <1>7 DEF Next

LEMMA InitDuplicates == Init => DuplicatesInv
<1> SUFFICES ASSUME Init, NEW u \in Users
             PROVE  Len(entries[u]) + Cardinality(Adding(u)) <= Cardinality(Requests)
  BY DEF DuplicatesInv
<1>1. Len(entries[u]) = 0 \/ Len(entries[u]) = 1
  BY DEF Init
<1>2. Cardinality(Adding(u)) = 0
  <2>1. Adding(u) = {}
    BY DEF Init, Adding, NoRequest
  <2> QED  BY <2>1, FS_EmptySet
<1>3. Cardinality(Requests) \in Nat /\ Cardinality(Requests) # 0
  BY RequestsAssumption, FS_CardinalityType, FS_EmptySet
<1>4. Cardinality(Requests) >= 1
  BY <1>3
<1>5. \A n \in {0, 1}, m \in {0}, c \in Nat : c >= 1 => n + m <= c
  OBVIOUS
<1> QED  BY <1>1, <1>2, <1>3, <1>4, <1>5

(***************************************************************************)
(* Overlapping AddMembers calls cannot store a user more often than there  *)
(* are handlers.                                                           *)
(***************************************************************************)
THEOREM DuplicatesAreBounded == Spec => []DuplicatesBounded
<1>1. TypeOK /\ DuplicatesInv => DuplicatesBounded
  <2> SUFFICES ASSUME TypeOK, DuplicatesInv, NEW u \in Users
               PROVE  Len(entries[u]) <= Cardinality(Requests)
    BY DEF DuplicatesBounded
  <2>1. Len(entries[u]) \in Nat
    BY DEF TypeOK
  <2>2. Len(entries[u]) + Cardinality(Adding(u)) <= Cardinality(Requests)
    BY DEF DuplicatesInv
  <2> QED  BY <2>1, <2>2, AddingIsFinite
<1> QED
  BY <1>1, InitDuplicates, StepDuplicates, TypeCorrect, PTL DEF Spec

-----------------------------------------------------------------------------
(***************************************************************************)
(* One handler at a time.                                                  *)
(***************************************************************************)
OneHandler == \A r, q \in Requests : r = q

AllFresh == \A r \in Requests : fresh[r]

LEMMA StepAllFresh == OneHandler /\ TypeOK /\ AllFresh /\ [Next]_vars => AllFresh'
<1> SUFFICES ASSUME OneHandler, TypeOK, AllFresh, [Next]_vars PROVE AllFresh'
  OBVIOUS
<1>1. ASSUME NEW r \in Requests, Finish(r) PROVE AllFresh'
  BY <1>1 DEF OneHandler, AllFresh, Finish
<1>2. CASE UNCHANGED fresh
  BY <1>2 DEF AllFresh
<1> QED
  BY <1>1, <1>2
  DEF Next, BeginAdd, BeginRemove, BeginUpdate, Begin, CommitAdd, CommitRemove,
      CommitUpdate, Fail, vars

LEMMA OneHandlerIsFresh == OneHandler /\ Spec => [](AllFresh /\ FreshPasses)
<1>1. Init => AllFresh
  BY DEF Init, AllFresh
<1>2. OneHandler /\ Spec => []AllFresh
  <2>1. CASE OneHandler
    <3>1. TypeOK /\ AllFresh /\ [Next]_vars => AllFresh'
      BY <2>1, StepAllFresh
    <3> QED  BY <1>1, <3>1, TypeCorrect, PTL DEF Spec
  <2> QED  BY <2>1
<1> QED
  BY <1>2, InitFreshPasses, StepFreshPasses, TypeCorrect, PTL DEF Spec

\* Every step of a fresh handler is a step of the roster, and keeps an admin.
LEMMA FreshStep ==
    ASSUME TypeOK, FirstEntryDecides, FreshPasses, AllFresh, HasAdmin, [Next]_vars
    PROVE  HasAdmin' /\ [Roster!Next]_RosterLevel
<1>1. CASE UNCHANGED entries
  BY <1>1 DEF HasAdmin, AdminBeside, RosterLevel, MemberLevel
<1>2. ASSUME NEW r \in Requests, CommitAdd(r) \/ CommitRemove(r) \/ CommitUpdate(r)
      PROVE  HasAdmin' /\ Roster!Next
  <2>1. request[r].caller \in Users
    BY <1>2 DEF TypeOK, CommitAdd, CommitRemove, CommitUpdate, Checked, RequestOf, NoRequest
  <2>2. fresh[r]
    BY DEF AllFresh
  <2>3. HasAdmin' /\ Roster!Operation(request[r].caller)
    BY <1>2, <2>2, FreshAdd, FreshRemove, FreshUpdate
  <2> QED  BY <2>1, <2>3 DEF Roster!Next
<1> QED
  BY <1>1, <1>2 DEF Next, BeginAdd, BeginRemove, BeginUpdate, Begin, Fail, vars

LEMMA InitHasAdmin == Init => HasAdmin /\ Roster!Init
<1> SUFFICES ASSUME Init PROVE HasAdmin /\ Roster!Init
  OBVIOUS
<1>1. PICK owner \in Users :
        entries = [u \in Users |-> IF u = owner THEN <<"ADMIN">> ELSE <<>>]
  BY DEF Init
<1>2. entries[owner] = <<"ADMIN">>
  BY <1>1
<1>3. HasAdmin
  BY <1>2, 1 \in 1..Len(<<"ADMIN">>) DEF HasAdmin, AdminBeside, LevelsIn
<1>4. ASSUME NEW u \in Users
      PROVE  MemberLevel(u) = IF u = owner THEN "ADMIN" ELSE NonMember
  BY <1>1, <<"ADMIN">> # <<>>, Head(<<"ADMIN">>) = "ADMIN" DEF MemberLevel
<1>5. Roster!Init
  BY <1>4 DEF Roster!Init
<1> QED  BY <1>3, <1>5

(***************************************************************************)
(* Without overlapping requests a project always has an admin.             *)
(***************************************************************************)
THEOREM SequentialAdmin == OneHandler /\ Spec => []AtLeastOneAdmin
<1>1. TypeOK /\ FirstEntryDecides /\ FreshPasses /\ AllFresh /\ HasAdmin /\ [Next]_vars
        => HasAdmin'
  BY FreshStep
<1> QED
  BY <1>1, InitHasAdmin, OneHandlerIsFresh, TypeCorrect, FirstEntryAlwaysDecides, PTL
  DEF Spec, AtLeastOneAdmin

(***************************************************************************)
(* Without overlapping requests the handlers implement ProjectRoster.      *)
(***************************************************************************)
THEOREM SequentialRoster == OneHandler /\ Spec => RefinesRoster
<1>1. TypeOK /\ FirstEntryDecides /\ FreshPasses /\ AllFresh /\ HasAdmin /\ [Next]_vars
        => [Roster!Next]_RosterLevel
  BY FreshStep
<1>2. Init => Roster!Init
  BY InitHasAdmin
<1> QED
  BY <1>1, <1>2, SequentialAdmin, OneHandlerIsFresh, TypeCorrect, FirstEntryAlwaysDecides, PTL
  DEF Spec, AtLeastOneAdmin, RefinesRoster, Roster!Spec, RosterLevel

(***************************************************************************)
(* Without overlapping requests no user is a member twice.                 *)
(***************************************************************************)
THEOREM SequentialUniqueness == OneHandler /\ Spec => []NoMemberTwice
<1>1. OneHandler => Cardinality(Requests) = 1
  <2> SUFFICES ASSUME OneHandler PROVE Cardinality(Requests) = 1
    OBVIOUS
  <2>1. PICK r : r \in Requests
    BY RequestsAssumption
  <2>2. Requests = {r}
    BY <2>1 DEF OneHandler
  <2> QED  BY <2>2, FS_Singleton
<1>2. OneHandler /\ DuplicatesBounded => NoMemberTwice
  BY <1>1 DEF DuplicatesBounded, NoMemberTwice
<1>3. CASE OneHandler
  <2>1. DuplicatesBounded => NoMemberTwice
    BY <1>2, <1>3
  <2> QED  BY <2>1, DuplicatesAreBounded, PTL
<1> QED  BY <1>3

-----------------------------------------------------------------------------
(***************************************************************************)
(* Visits of the project's tools.                                          *)
(***************************************************************************)

\* A member is who was last added, and each visit saw who that is just now.
AccessInv ==
    /\ AccessTypeOK
    /\ \A u \in Users : IsMember(u) <=> u \in standing
    /\ \A v \in Visits : visit[v].at # "away"
        => /\ (visit[v].user \in standing) \in visit[v].held
           /\ visit[v].at = "user" => visit[v].member \in visit[v].held

LEMMA VisitType ==
    ASSUME AccessTypeOK, NEW v \in Visits, visit[v].at # "away"
    PROVE  visit[v] \in Visit
BY DEF AccessTypeOK, Away

LEMMA VisitFacts ==
    ASSUME AccessInv, NEW v \in Visits, UNCHANGED <<entries, standing>>, TypeOK',
           NEW w \in Visit \union {Away}, visit' = [visit EXCEPT ![v] = w],
           w.at # "away" => /\ (w.user \in standing) \in w.held
                            /\ w.at = "user" => w.member \in w.held
    PROVE  AccessInv'
BY DEF AccessInv, AccessTypeOK, IsMember

\* Every visit under way sees what the members have become.
LEMMA SettleFacts ==
    ASSUME AccessInv, NEW users \in SUBSET Users, Settle(users), TypeOK',
           \A u \in Users : IsMember(u)' <=> u \in users
    PROVE  AccessInv'
<1>1. ASSUME NEW v \in Visits
      PROVE  /\ visit'[v] \in Visit \union {Away}
             /\ visit'[v].at # "away"
                  => /\ (visit'[v].user \in users) \in visit'[v].held
                     /\ visit'[v].at = "user" => visit'[v].member \in visit'[v].held
  <2>1. CASE visit[v] = Away
    BY <2>1 DEF Settle, Away
  <2>2. CASE visit[v] # Away
    <3> DEFINE s == visit[v].user \in users
    <3>1. visit[v] \in Visit /\ visit[v].at # "away"
               /\ (visit[v].at = "user" => visit[v].member \in visit[v].held)
      <4>1. visit[v] \in Visit
        BY <2>2 DEF AccessInv, AccessTypeOK
      <4> QED  BY <4>1, <2>2 DEF AccessInv, AccessTypeOK, Visit, Doors, Away
    <3>2. visit'[v] = [visit[v] EXCEPT !.held = visit[v].held \union {s}]
      BY <2>2 DEF Settle
    <3>3. s \in BOOLEAN
      OBVIOUS
    <3> HIDE DEF s
    <3>4. /\ visit'[v] \in Visit /\ visit'[v].user = visit[v].user
          /\ visit'[v].at = visit[v].at /\ visit'[v].member = visit[v].member
          /\ visit'[v].held = visit[v].held \union {s}
      BY <3>1, <3>2, <3>3 DEF Visit
    <3>5. s \in visit'[v].held
      BY <3>4
    <3>6. (visit'[v].user \in users) \in visit'[v].held
      BY <3>4, <3>5 DEF s
    <3> QED  BY <3>1, <3>4, <3>6
  <2> QED  BY <2>1, <2>2
<1>2. visit' \in [Visits -> Visit \union {Away}] /\ standing' = users
  BY <1>1 DEF Settle
<1> QED  BY <1>1, <1>2 DEF AccessInv, AccessTypeOK

LEMMA MembersKeepAccess ==
    ASSUME AccessInv, MembersStep
    PROVE  AccessInv'
<1>t. TypeOK /\ standing \in SUBSET Users
  BY DEF AccessInv, AccessTypeOK
<1>n. TypeOK'
  BY <1>t, StepType DEF MembersStep, Next
<1>1. ASSUME NEW r \in Requests, CommitAdd(r), Settle(standing \union request[r].users)
      PROVE  AccessInv'
  <2>1. request[r].users \in SUBSET Users
    BY <1>t, <1>1 DEF TypeOK, CommitAdd, Checked, RequestOf, NoRequest
  <2>2. ASSUME NEW u \in Users
        PROVE  IsMember(u)' <=> u \in standing \union request[r].users
    <3>1. entries[u] \in Seq(Levels)
      BY <1>t DEF TypeOK
    <3>2. entries'[u] = IF u \in request[r].users THEN Append(entries[u], "VIEWER") ELSE entries[u]
      BY <1>1 DEF CommitAdd
    <3> QED  BY <3>1, <3>2, PushedEntries DEF AccessInv, IsMember
  <2> QED  BY <1>1, <1>t, <1>n, <2>1, <2>2, SettleFacts
<1>2. ASSUME NEW r \in Requests, CommitRemove(r), Settle(standing \ request[r].users)
      PROVE  AccessInv'
  <2>1. ASSUME NEW u \in Users
        PROVE  IsMember(u)' <=> u \in standing \ request[r].users
    BY <1>2 DEF AccessInv, IsMember, CommitRemove
  <2> QED  BY <1>2, <1>t, <1>n, <2>1, SettleFacts
<1>3. ASSUME NEW r \in Requests, CommitUpdate(r), UNCHANGED <<visit, standing>>
      PROVE  AccessInv'
  <2>1. ASSUME NEW u \in Users
        PROVE  IsMember(u)' <=> IsMember(u)
    <3>1. entries[u] \in Seq(Levels)
      BY <1>t DEF TypeOK
    <3>2. CASE u \in request[r].users
      <4>1. entries'[u] = [i \in DOMAIN entries[u] |-> request[r].level]
        BY <1>3, <3>2 DEF CommitUpdate
      <4>2. request[r].level \in Levels
        BY <1>3, <1>t, <3>2, UpdatedEntries
      <4> QED  BY <3>1, <4>1, <4>2, SetEntries DEF IsMember
    <3>3. CASE u \notin request[r].users
      BY <1>3, <3>3 DEF CommitUpdate, IsMember
    <3> QED  BY <3>2, <3>3
  <2> QED  BY <1>3, <1>n, <2>1 DEF AccessInv, AccessTypeOK
<1>4. ASSUME UNCHANGED <<entries, visit, standing>>
      PROVE  AccessInv'
  BY <1>4, <1>n DEF AccessInv, AccessTypeOK, IsMember
<1> QED
  BY <1>1, <1>2, <1>3, <1>4 DEF MembersStep, BeginAdd, BeginRemove, BeginUpdate, Begin, Fail

LEMMA VisitsKeepAccess ==
    ASSUME AccessInv, NEW v \in Visits,
           \/ \E u \in Users : Ask(v, u)
           \/ GetProject(v) \/ Answer(v) \/ Unauthorized(v)
    PROVE  AccessInv'
<1>t. /\ TypeOK /\ TypeOK'
      /\ UNCHANGED <<entries, standing>>
  BY DEF AccessInv, AccessTypeOK, TypeOK, vars, Ask, GetProject, Answer, Unauthorized
<1>1. ASSUME NEW u \in Users, Ask(v, u)
      PROVE  AccessInv'
  <2> DEFINE s == (u \in standing)
             w == [at |-> "project", user |-> u, member |-> FALSE, held |-> {s}]
  <2>1. visit' = [visit EXCEPT ![v] = w]
    BY <1>1 DEF Ask
  <2>2. s \in BOOLEAN
    OBVIOUS
  <2>3. s = (u \in standing)
    OBVIOUS
  <2> HIDE DEF s
  <2>4. w.at = "project" /\ w.user = u /\ s \in w.held /\ w \in Visit
    BY <2>2 DEF Visit, Doors
  <2> HIDE DEF w
  <2>5. (w.user \in standing) \in w.held
    BY <2>3, <2>4
  <2> QED  BY <1>t, <2>1, <2>4, <2>5, VisitFacts
<1>2. CASE GetProject(v)
  <2> DEFINE m == HasMember(visit[v].user)
             w == [visit[v] EXCEPT !.at = "user", !.member = m]
  <2>1. visit' = [visit EXCEPT ![v] = w] /\ visit[v].at # "away"
    BY <1>2 DEF GetProject
  <2>2. visit[v] \in Visit /\ (visit[v].user \in standing) \in visit[v].held
    BY <2>1, VisitType DEF AccessInv
  <2>3. m \in BOOLEAN /\ (m <=> visit[v].user \in standing)
    BY <2>2 DEF HasMember, AccessInv, IsMember, Visit
  <2>4. m \in visit[v].held
    BY <2>2, <2>3
  <2> HIDE DEF m
  <2>5. /\ w \in Visit /\ w.user = visit[v].user /\ w.held = visit[v].held
        /\ w.member = m
    BY <2>2, <2>3 DEF Visit, Doors
  <2> HIDE DEF w
  <2> QED  BY <1>t, <2>1, <2>2, <2>4, <2>5, VisitFacts
<1>3. CASE Answer(v) \/ Unauthorized(v)
  <2>1. visit' = [visit EXCEPT ![v] = Away] /\ Away.at = "away"
    BY <1>3 DEF Answer, Unauthorized, Away
  <2> QED  BY <1>t, <2>1, VisitFacts
<1> QED  BY <1>1, <1>2, <1>3

(***************************************************************************)
(* The proxy's answer was right at some moment of the visit, for any       *)
(* number of visits and of overlapping member mutations.                   *)
(***************************************************************************)
THEOREM AnswersAreRight == AccessSpec => []AnswersWereRight
<1>1. AccessInit => AccessInv
  <2> SUFFICES ASSUME AccessInit
               PROVE  AccessInv
    OBVIOUS
  <2> QED  BY InitType DEF AccessInit, AccessInv, AccessTypeOK, Away
<1>2. AccessInv /\ [AccessNext]_accessVars => AccessInv'
  <2>1. ASSUME AccessInv, UNCHANGED accessVars
        PROVE  AccessInv'
    BY <2>1 DEF AccessInv, AccessTypeOK, TypeOK, IsMember, accessVars, vars
  <2> QED  BY <2>1, MembersKeepAccess, VisitsKeepAccess DEF AccessNext
<1>3. AccessInv => AnswersWereRight
  BY DEF AccessInv, AnswersWereRight
<1> QED  BY <1>1, <1>2, <1>3, PTL DEF AccessSpec

=============================================================================
