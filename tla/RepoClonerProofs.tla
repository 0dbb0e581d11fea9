--------------------------- MODULE RepoClonerProofs ---------------------------
(***************************************************************************)
(* What the repository cloner guarantees for any number of projects,       *)
(* goroutines, faults and restarts: it keeps the clones it has completed   *)
(* as long as no two goroutines work on one project, and it never takes up *)
(* a clone that was abandoned half done.                                   *)
(***************************************************************************)
EXTENDS RepoCloner, TLAPS

\* No two goroutines work on the same project, but for the rivals.
Alone ==
    \A s, t \in Slots : \A p \in Projects \ rivals :
        WorksOn(s, p) /\ WorksOn(t, p) => s = t

\* A goroutine without a rival fills a repository that it has begun, and removes
\* a folder only where there is no repository.
Guarded(s, p) ==
    /\ clone[s].at = "fill" => disk[p] = "partial"
    /\ clone[s].at = "remove" => disk[p] \in {"missing", "other"}

AllGuarded == \A s \in Slots : \A p \in Projects \ rivals : WorksOn(s, p) => Guarded(s, p)

Assigned == \A s \in Slots : clone[s].at # "idle" => clone[s].project \in Projects

CloneInv == TypeOK /\ Assigned /\ Alone /\ AllGuarded

-----------------------------------------------------------------------------

LEMMA NotRunningType == NotRunning \in Goroutine
BY DEF NotRunning, Goroutine

LEMMA InitInv == Init => CloneInv
<1> SUFFICES ASSUME Init PROVE CloneInv
  OBVIOUS
<1>1. TypeOK
  BY NotRunningType, BoundsAssumption DEF Init, TypeOK, Contents, Scan, Waiting
<1>2. \A s \in Slots : \A p : ~WorksOn(s, p)
  BY DEF Init, WorksOn, NotRunning
<1>3. Assigned
  BY DEF Init, Assigned, NotRunning
<1> QED  BY <1>1, <1>2, <1>3 DEF CloneInv, Alone, AllGuarded

\* A fault leaves the budget within its bounds.
LEMMA FaultType == TypeOK /\ Fault => faults' \in 0 .. MaxFaults /\ crashes' \in 0 .. MaxCrashes
BY BoundsAssumption DEF TypeOK, Fault

-----------------------------------------------------------------------------
(***************************************************************************)
(* A goroutine that goes on.                                               *)
(***************************************************************************)
\* How the step of a goroutine leaves it: g, in the folder contents.
GoesOn(s, g, contents) ==
    /\ clone' = [clone EXCEPT ![s] = g]
    /\ \/ g = NotRunning
       \/ /\ g.at \in {"init", "fill", "failed", "remove"}
          /\ g.project = clone[s].project
    /\ disk' = [disk EXCEPT ![clone[s].project] = contents]
    /\ UNCHANGED <<member, scan, rivals>>

\* It fills what it has made a repository, and removes what is missing.
LEMMA StepOfGoroutine ==
    ASSUME CloneInv, NEW s \in Slots, NEW g \in Goroutine, NEW contents \in Contents,
           clone[s].at # "idle", GoesOn(s, g, contents),
           faults' \in 0 .. MaxFaults, crashes' \in 0 .. MaxCrashes,
           g.at = "fill" => contents = "partial",
           g.at = "remove" => contents = "missing"
    PROVE  CloneInv'
<1>1. TypeOK /\ clone[s] \in Goroutine
  BY DEF CloneInv, TypeOK
<1>2. /\ clone'[s] = g /\ \A t \in Slots : t # s => clone'[t] = clone[t]
      /\ clone' \in [Slots -> Goroutine]
  BY <1>1 DEF TypeOK, GoesOn
<1>3. /\ \A p \in Projects : p # clone[s].project => disk'[p] = disk[p]
      /\ clone[s].project \in Projects => disk'[clone[s].project] = contents
      /\ disk' \in [Projects -> Contents]
  BY <1>1 DEF TypeOK, GoesOn
<1>4. TypeOK'
  BY <1>1, <1>2, <1>3 DEF TypeOK, GoesOn
<1>5. \A t \in Slots : \A p \in Projects : WorksOn(t, p)' => WorksOn(t, p)
  BY <1>2 DEF WorksOn, GoesOn, NotRunning
<1>6. Alone'
  BY <1>5 DEF CloneInv, Alone, GoesOn
<1>7. AllGuarded'
  <2> SUFFICES ASSUME NEW t \in Slots, NEW p \in Projects \ rivals, WorksOn(t, p)'
               PROVE  Guarded(t, p)'
    BY DEF AllGuarded, GoesOn
  <2>1. CASE t = s
    <3>1. clone[s].project = p
      BY <1>5, <2>1 DEF WorksOn
    <3> QED  BY <2>1, <3>1, <1>2, <1>3 DEF Guarded
  <2>2. CASE t # s
    <3>1. WorksOn(t, p) /\ Guarded(t, p)
      BY <1>5 DEF CloneInv, AllGuarded
    <3>2. clone[s].project # p
      BY <2>2, <3>1 DEF CloneInv, Alone, WorksOn
    <3> QED  BY <2>2, <3>1, <3>2, <1>2, <1>3 DEF Guarded
  <2> QED  BY <2>1, <2>2
<1>8. Assigned'
  BY <1>2 DEF CloneInv, Assigned, GoesOn, NotRunning
<1> QED  BY <1>4, <1>6, <1>7, <1>8 DEF CloneInv

\* A goroutine that leaves the folder as it is.
LEMMA StepAside ==
    ASSUME CloneInv, NEW s \in Slots, NEW g \in Goroutine, clone[s].at # "idle",
           clone' = [clone EXCEPT ![s] = g],
           g = NotRunning \/ (g.at \in {"init", "failed", "remove"}
                              /\ g.project = clone[s].project),
           g.at = "remove" => Folder(s) = "missing",
           UNCHANGED <<member, disk, scan, rivals>>,
           faults' \in 0 .. MaxFaults, crashes' \in 0 .. MaxCrashes
    PROVE  CloneInv'
<1>1. TypeOK /\ clone[s].project \in Projects
  BY DEF CloneInv, Assigned
<1>2. Folder(s) \in Contents /\ disk' = [disk EXCEPT ![clone[s].project] = Folder(s)]
  BY <1>1 DEF TypeOK, Folder
<1>3. g.at # "fill"
  BY DEF NotRunning
<1>4. GoesOn(s, g, Folder(s))
  BY <1>2 DEF GoesOn
<1> QED  BY <1>2, <1>3, <1>4, StepOfGoroutine

LEMMA CloneStepInv ==
    ASSUME CloneInv, NEW s \in Slots,
           CloneStep(s) \/ PrepareFails(s) \/ FillFails(s)
    PROVE  CloneInv'
<1>1. /\ TypeOK /\ clone[s] \in Goroutine
      /\ faults \in 0 .. MaxFaults /\ crashes \in 0 .. MaxCrashes
  BY DEF CloneInv, TypeOK
<1>2. CASE Prepare(s)
  <2> DEFINE g == [clone[s] EXCEPT !.at = "init", !.tidy = Folder(s) = "missing"]
  <2>1. g \in Goroutine /\ g.at = "init" /\ g.project = clone[s].project
    BY <1>1 DEF Goroutine
  <2>2. clone' = [clone EXCEPT ![s] = g] /\ UNCHANGED <<member, disk, scan, faults, crashes, rivals>>
    BY <1>2 DEF Prepare, budget
  <2>3. clone[s].at # "idle"
    BY <1>2 DEF Prepare
  <2> HIDE DEF g
  <2> QED  BY <1>1, <2>1, <2>2, <2>3, StepAside
<1>3. CASE PrepareFails(s)
  <2>1. clone' = [clone EXCEPT ![s] = NotRunning] /\ UNCHANGED <<member, disk, scan, rivals>>
    BY <1>3 DEF PrepareFails, Returns
  <2>2. clone[s].at # "idle" /\ Fault
    BY <1>3 DEF PrepareFails
  <2>3. NotRunning.at = "idle"
    BY DEF NotRunning
  <2> QED  BY <1>1, <2>1, <2>2, <2>3, FaultType, NotRunningType, StepAside
<1>4. CASE PlainInit(s)
  <2> DEFINE g == [clone[s] EXCEPT !.at = "fill"]
  <2>1. g \in Goroutine /\ g.at = "fill" /\ g.project = clone[s].project
    BY <1>1 DEF Goroutine
  <2>2. /\ clone' = [clone EXCEPT ![s] = g] /\ clone[s].at # "idle"
        /\ disk' = [disk EXCEPT ![clone[s].project] = "partial"]
        /\ UNCHANGED <<member, scan, faults, crashes, rivals>>
    BY <1>1, <1>4 DEF PlainInit, SetFolder, Goto, budget, TypeOK
  <2> HIDE DEF g
  <2>3. GoesOn(s, g, "partial") /\ "partial" \in Contents
    BY <2>1, <2>2 DEF GoesOn, Contents
  <2> QED  BY <1>1, <2>1, <2>2, <2>3, StepOfGoroutine
<1>5. CASE AlreadyExists(s)
  <2> DEFINE g == [clone[s] EXCEPT !.at = "failed"]
  <2>1. g \in Goroutine /\ g.at = "failed" /\ g.project = clone[s].project
    BY <1>1 DEF Goroutine
  <2>2. /\ clone' = [clone EXCEPT ![s] = g] /\ clone[s].at # "idle"
        /\ UNCHANGED <<member, disk, scan, faults, crashes, rivals>>
    BY <1>1, <1>5 DEF AlreadyExists, Goto, budget, TypeOK
  <2> HIDE DEF g
  <2> QED  BY <1>1, <2>1, <2>2, StepAside
<1>6. CASE Fill(s)
  <2>1. /\ clone' = [clone EXCEPT ![s] = NotRunning] /\ clone[s].at # "idle"
        /\ disk' = [disk EXCEPT ![clone[s].project] = "whole"]
        /\ UNCHANGED <<member, scan, faults, crashes, rivals>>
    BY <1>6 DEF Fill, SetFolder, Returns, budget
  <2>2. GoesOn(s, NotRunning, "whole") /\ "whole" \in Contents
    BY <2>1 DEF GoesOn, Contents
  <2>3. NotRunning.at = "idle"
    BY DEF NotRunning
  <2> QED  BY <1>1, <2>1, <2>2, <2>3, NotRunningType, StepOfGoroutine
<1>7. CASE PlainCloneFails(s) /\ faults' \in 0 .. MaxFaults /\ crashes' \in 0 .. MaxCrashes
  <2> DEFINE g == [clone[s] EXCEPT !.at = "failed"]
  <2>1. g \in Goroutine /\ g.at = "failed" /\ g.project = clone[s].project
    BY <1>1 DEF Goroutine
  <2>2. /\ clone' = [clone EXCEPT ![s] = g] /\ clone[s].at # "idle"
        /\ UNCHANGED <<member, scan, rivals>>
    BY <1>1, <1>7 DEF PlainCloneFails, Goto, TypeOK
  <2> HIDE DEF g
  <2>3. CASE clone[s].tidy
    <3>1. GoesOn(s, g, "missing") /\ "missing" \in Contents
      BY <1>7, <2>1, <2>2, <2>3 DEF PlainCloneFails, SetFolder, GoesOn, Contents
    <3> QED  BY <1>7, <2>1, <2>2, <3>1, StepOfGoroutine
  <2>4. CASE ~clone[s].tidy
    <3>1. UNCHANGED disk
      BY <1>7, <2>4 DEF PlainCloneFails
    <3> QED  BY <1>7, <2>1, <2>2, <3>1, StepAside
  <2> QED  BY <2>3, <2>4
<1>8. CASE StatAfterFailure(s) /\ Folder(s) = "missing"
  <2> DEFINE g == [clone[s] EXCEPT !.at = "remove"]
  <2>1. g \in Goroutine /\ g.at = "remove" /\ g.project = clone[s].project
    BY <1>1 DEF Goroutine
  <2>2. /\ clone' = [clone EXCEPT ![s] = g] /\ clone[s].at # "idle"
        /\ UNCHANGED <<member, disk, scan, faults, crashes, rivals>>
    BY <1>1, <1>8 DEF StatAfterFailure, Goto, budget, TypeOK
  <2> HIDE DEF g
  <2> QED  BY <1>1, <1>8, <2>1, <2>2, StepAside
<1>9. CASE StatAfterFailure(s) /\ Folder(s) # "missing"
  <2>1. /\ clone' = [clone EXCEPT ![s] = NotRunning] /\ clone[s].at # "idle"
        /\ UNCHANGED <<member, disk, scan, faults, crashes, rivals>>
    BY <1>9 DEF StatAfterFailure, Returns, budget
  <2>2. NotRunning.at = "idle"
    BY DEF NotRunning
  <2> QED  BY <1>1, <2>1, <2>2, NotRunningType, StepAside
<1>10. CASE RemoveAll(s)
  <2>1. /\ clone' = [clone EXCEPT ![s] = NotRunning] /\ clone[s].at # "idle"
        /\ disk' = [disk EXCEPT ![clone[s].project] = "missing"]
        /\ UNCHANGED <<member, scan, faults, crashes, rivals>>
    BY <1>10 DEF RemoveAll, SetFolder, Returns, budget
  <2>2. GoesOn(s, NotRunning, "missing") /\ "missing" \in Contents
    BY <2>1 DEF GoesOn, Contents
  <2>3. NotRunning.at = "idle"
    BY DEF NotRunning
  <2> QED  BY <1>1, <2>1, <2>2, <2>3, NotRunningType, StepOfGoroutine
<1>11. CASE FillBroken(s)
  BY <1>1, <1>7, <1>11 DEF FillBroken, budget
<1>12. CASE FillFails(s)
  BY <1>1, <1>7, <1>12, FaultType DEF FillFails
<1> QED
  BY <1>2, <1>3, <1>4, <1>5, <1>6, <1>8, <1>9, <1>10, <1>11, <1>12 DEF CloneStep

-----------------------------------------------------------------------------
(***************************************************************************)
(* The looks, and the world.                                               *)
(***************************************************************************)
LEMMA StartInv ==
    ASSUME CloneInv, NEW s \in Slots, NEW p \in Projects, StartClone(s, p)
    PROVE  CloneInv'
<1> DEFINE g == [at |-> "prepare", project |-> p, tidy |-> FALSE]
<1>1. TypeOK
  BY DEF CloneInv
<1>3. g \in Goroutine /\ g.at = "prepare" /\ g.project = p
  BY DEF Goroutine
<1>4. /\ clone' = [clone EXCEPT ![s] = g] /\ clone[s].at = "idle"
      /\ UNCHANGED <<member, disk, faults, crashes>>
      /\ scan' = [scan EXCEPT !.new = @ \ {p}]
      /\ rivals' = rivals \union {q \in {p} : \E t \in Slots : WorksOn(t, p)}
  BY DEF StartClone, budget
<1> HIDE DEF g
<1>5. clone'[s] = g /\ (\A t \in Slots : t # s => clone'[t] = clone[t])
      /\ clone' \in [Slots -> Goroutine]
  BY <1>1, <1>3, <1>4 DEF TypeOK
<1>6. scan' \in Scan /\ rivals' \in SUBSET Projects
  BY <1>1, <1>4 DEF TypeOK, Scan
<1>7. TypeOK'
  BY <1>1, <1>4, <1>5, <1>6 DEF TypeOK
<1>8. Assigned'
  BY <1>3, <1>5 DEF CloneInv, Assigned
<1>9. \A t \in Slots : \A q \in Projects : WorksOn(t, q)' => WorksOn(t, q) \/ (t = s /\ q = p)
  BY <1>3, <1>5 DEF WorksOn
<1>10. p \in rivals' \/ \A t \in Slots : ~WorksOn(t, p)
  BY <1>4
<1>11. rivals \subseteq rivals'
  BY <1>4
<1>12. Alone'
  BY <1>9, <1>10, <1>11 DEF CloneInv, Alone
<1>13. AllGuarded'
  <2> SUFFICES ASSUME NEW t \in Slots, NEW q \in Projects \ rivals', WorksOn(t, q)'
               PROVE  Guarded(t, q)'
    BY DEF AllGuarded
  <2>1. CASE t = s
    BY <2>1, <1>3, <1>5 DEF Guarded
  <2>2. CASE t # s
    BY <2>2, <1>4, <1>5, <1>9, <1>11 DEF CloneInv, AllGuarded, Guarded
  <2> QED  BY <2>1, <2>2
<1> QED  BY <1>7, <1>8, <1>12, <1>13 DEF CloneInv

\* A look that starts no goroutine, and what happens outside the cloner.
LEMMA IdleInv ==
    ASSUME CloneInv, TypeOK', UNCHANGED <<disk, clone, rivals>>
    PROVE  CloneInv'
<1>1. Assigned' /\ Alone'
  BY DEF CloneInv, Assigned, Alone, WorksOn
<1>2. AllGuarded'
  BY DEF CloneInv, AllGuarded, Guarded, WorksOn
<1> QED  BY <1>1, <1>2 DEF CloneInv

LEMMA LookInv ==
    ASSUME CloneInv, Look \/ FindUserReposFails
    PROVE  CloneInv'
<1>1. TypeOK
  BY DEF CloneInv
<1>2. CASE FindUserRepos
  <2>1. scan' \in Scan
    BY <1>1, <1>2 DEF FindUserRepos, TypeOK, Scan
  <2> QED  BY <1>1, <1>2, <2>1, IdleInv DEF FindUserRepos, TypeOK, budget
<1>3. CASE FindUserReposFails
  <2>1. TypeOK'
    BY <1>1, <1>3, FaultType DEF FindUserReposFails, TypeOK
  <2> QED  BY <1>3, <2>1, IdleInv DEF FindUserReposFails
<1>4. ASSUME NEW p \in Projects, StatFolder(p) PROVE CloneInv'
  <2>1. scan' \in Scan
    BY <1>1, <1>4 DEF StatFolder, TypeOK, Scan
  <2> QED  BY <1>1, <1>4, <2>1, IdleInv DEF StatFolder, TypeOK, budget
<1>5. CASE LookEnds
  <2>1. scan' \in Scan
    BY <1>5 DEF LookEnds, Waiting, Scan
  <2> QED  BY <1>1, <1>5, <2>1, IdleInv DEF LookEnds, TypeOK, budget
<1> QED  BY <1>2, <1>3, <1>4, <1>5, StartInv DEF Look

LEMMA RestartInv == CloneInv /\ Restart => CloneInv'
<1> SUFFICES ASSUME CloneInv, Restart PROVE CloneInv'
  OBVIOUS
<1>1. \A s \in Slots : clone'[s] = NotRunning
  BY DEF Restart
<1>2. \A s \in Slots : clone'[s].at = "idle"
  BY <1>1 DEF NotRunning
<1>3. TypeOK'
  BY NotRunningType, BoundsAssumption DEF Restart, CloneInv, TypeOK, Waiting, Scan
<1> QED  BY <1>2, <1>3 DEF CloneInv, Assigned, Alone, AllGuarded, WorksOn

LEMMA WorldInv ==
    ASSUME CloneInv, NEW p \in Projects,
           MembershipChanges(p) \/ UserMakesFolder(p) \/ UserRemovesFolder(p)
    PROVE  CloneInv'
<1>1. TypeOK
  BY DEF CloneInv
<1>2. CASE MembershipChanges(p)
  BY <1>1, <1>2, IdleInv DEF MembershipChanges, TypeOK, budget
<1>3. CASE UserMakesFolder(p) \/ UserRemovesFolder(p)
  <2>1. /\ UNCHANGED <<member, scan, clone, faults, crashes, rivals>>
        /\ \A q \in Projects : q # p => disk'[q] = disk[q]
        /\ disk' \in [Projects -> Contents]
    BY <1>1, <1>3 DEF UserMakesFolder, UserRemovesFolder, TypeOK, budget, Contents
  <2>2. TypeOK'
    BY <1>1, <2>1 DEF TypeOK
  <2>3. Assigned' /\ Alone'
    BY <2>1 DEF CloneInv, Assigned, Alone, WorksOn
  <2>4. AllGuarded'
    <3> SUFFICES ASSUME NEW s \in Slots, NEW q \in Projects \ rivals, WorksOn(s, q)
                 PROVE  Guarded(s, q)'
      BY <2>1 DEF AllGuarded, WorksOn
    <3>1. Guarded(s, q)
      BY DEF CloneInv, AllGuarded
    <3>2. CASE q # p
      BY <2>1, <3>1, <3>2 DEF Guarded
    <3>3. CASE q = p /\ UserMakesFolder(p)
      BY <1>1, <2>1, <3>1, <3>3 DEF Guarded, UserMakesFolder, TypeOK
    <3>4. CASE q = p /\ UserRemovesFolder(p)
      BY <1>1, <2>1, <3>1, <3>4 DEF Guarded, UserRemovesFolder, TypeOK
    <3> QED  BY <1>3, <3>2, <3>3, <3>4
  <2> QED  BY <2>2, <2>3, <2>4 DEF CloneInv
<1> QED  BY <1>2, <1>3

LEMMA StepInv == CloneInv /\ [Next]_vars => CloneInv'
<1> SUFFICES ASSUME CloneInv, [Next]_vars PROVE CloneInv'
  OBVIOUS
<1>1. CASE UNCHANGED vars
  <2>1. TypeOK'
    BY <1>1 DEF CloneInv, TypeOK, vars, budget
  <2> QED  BY <1>1, <2>1, IdleInv DEF vars
<1> QED
  BY <1>1, CloneStepInv, LookInv, RestartInv, WorldInv DEF Next

LEMMA Invariance == Spec => []CloneInv
BY InitInv, StepInv, PTL DEF Spec

-----------------------------------------------------------------------------
(***************************************************************************)
(* The types: the cloner's goroutines hold projects of the installation    *)
(* and a folder holds one of the four contents.                            *)
(***************************************************************************)
THEOREM TypeCorrect == Spec => []TypeOK
<1>1. CloneInv => TypeOK
  BY DEF CloneInv
<1> QED  BY <1>1, Invariance, PTL

(***************************************************************************)
(* The cloner itself takes no completed clone away from a project that no  *)
(* two goroutines have worked on at once: who fills a folder finds it as   *)
(* it has made it, and who removes one finds no repository in it.          *)
(***************************************************************************)
THEOREM CompletedClonesAreKept == Spec => CloneIsKept
<1> DEFINE Keeps(p) ==
      disk[p] = "whole" /\ disk'[p] # "whole" => p \in rivals \/ UserRemovesFolder(p)
<1>1. CloneInv /\ [Next]_vars => [\A p \in Projects : Keeps(p)]_vars
  <2> SUFFICES ASSUME CloneInv, [Next]_vars, NEW p \in Projects, disk[p] = "whole",
                      disk'[p] # "whole", p \notin rivals
               PROVE  UserRemovesFolder(p)
    OBVIOUS
  <2>0. TypeOK
    BY DEF CloneInv
  <2>1. ASSUME NEW s \in Slots, clone[s].at \in {"init", "fill", "remove"},
               clone[s].project = p
        PROVE  clone[s].at = "init"
    BY <2>1 DEF CloneInv, AllGuarded, Guarded, WorksOn
  <2>2. ASSUME NEW s \in Slots, CloneStep(s) \/ PrepareFails(s) \/ FillFails(s)
        PROVE  FALSE
    <3>1. CASE PlainInit(s)
      BY <2>0, <3>1 DEF PlainInit, SetFolder, Folder, TypeOK
    <3>2. CASE Fill(s)
      BY <2>0, <3>2 DEF Fill, SetFolder, Folder, TypeOK
    <3>3. CASE PlainCloneFails(s)
      BY <2>0, <2>1, <3>3 DEF PlainCloneFails, SetFolder, TypeOK
    <3>4. CASE RemoveAll(s)
      BY <2>0, <2>1, <3>4 DEF RemoveAll, SetFolder, TypeOK
    <3>5. CASE Prepare(s) \/ PrepareFails(s) \/ AlreadyExists(s) \/ StatAfterFailure(s)
      BY <3>5 DEF Prepare, PrepareFails, AlreadyExists, StatAfterFailure
    <3> QED  BY <2>2, <3>1, <3>2, <3>3, <3>4, <3>5 DEF CloneStep, FillBroken, FillFails
  <2>3. CASE Look \/ FindUserReposFails \/ Restart \/ UNCHANGED vars
    BY <2>3 DEF Look, FindUserRepos, FindUserReposFails, StatFolder, StartClone, LookEnds,
                Restart, vars
  <2>4. ASSUME NEW q \in Projects, MembershipChanges(q) \/ UserMakesFolder(q)
        PROVE  FALSE
    BY <2>0, <2>4 DEF MembershipChanges, UserMakesFolder, TypeOK
  <2>5. ASSUME NEW q \in Projects, UserRemovesFolder(q) PROVE UserRemovesFolder(p)
    BY <2>0, <2>5 DEF UserRemovesFolder, TypeOK
  <2> QED  BY <2>2, <2>3, <2>4, <2>5 DEF Next
<1> QED  BY <1>1, Invariance, PTL DEF Spec, CloneIsKept

(***************************************************************************)
(* A clone that was abandoned half done stays as it is until its user      *)
(* takes the folder away, whatever looks and goroutines follow.            *)
(***************************************************************************)
THEOREM AbandonedIsLeft == Spec => AbandonedForGood
<1> DEFINE Stays(p) == Abandoned(p) => Abandoned(p)' \/ UserRemovesFolder(p)
<1>1. CloneInv /\ [Next]_vars => [\A p \in Projects : Stays(p)]_vars
  <2> SUFFICES ASSUME CloneInv, [Next]_vars, NEW p \in Projects, Abandoned(p)
               PROVE  Abandoned(p)' \/ UserRemovesFolder(p)
    OBVIOUS
  <2>0. TypeOK /\ disk[p] = "partial"
    BY DEF CloneInv, Abandoned
  <2>1. ASSUME NEW s \in Slots, CloneStep(s) \/ PrepareFails(s) \/ FillFails(s)
        PROVE  Abandoned(p)'
    <3>1. CASE Prepare(s)
      BY <2>0, <3>1 DEF Prepare, Abandoned, WorksOn, TypeOK, Goroutine
    <3>2. CASE PrepareFails(s)
      BY <2>0, <3>2 DEF PrepareFails, Returns, Abandoned, WorksOn, TypeOK, NotRunning
    <3>3. CASE AlreadyExists(s)
      BY <2>0, <3>3 DEF AlreadyExists, Goto, Abandoned, WorksOn, TypeOK, Goroutine
    <3>4. CASE StatAfterFailure(s) /\ clone[s].project = p
      BY <2>0, <3>4 DEF StatAfterFailure, Returns, Folder, Abandoned, WorksOn, TypeOK, NotRunning
    <3>5. CASE StatAfterFailure(s) /\ clone[s].project # p
      BY <2>0, <3>5 DEF StatAfterFailure, Returns, Goto, Abandoned, WorksOn, TypeOK, NotRunning,
                        Goroutine
    <3>6. CASE PlainInit(s)
      BY <2>0, <3>6 DEF PlainInit, SetFolder, Folder, Goto, Abandoned, WorksOn, TypeOK, Goroutine
    <3>7. CASE Fill(s)
      BY <2>0, <3>7 DEF Fill, SetFolder, Returns, Abandoned, WorksOn, TypeOK, NotRunning
    <3>8. CASE PlainCloneFails(s)
      BY <2>0, <3>8 DEF PlainCloneFails, SetFolder, Goto, Abandoned, WorksOn, TypeOK, Goroutine
    <3>9. CASE RemoveAll(s)
      BY <2>0, <3>9 DEF RemoveAll, SetFolder, Returns, Abandoned, WorksOn, TypeOK, NotRunning
    <3> QED
      BY <2>1, <3>1, <3>2, <3>3, <3>4, <3>5, <3>6, <3>7, <3>8, <3>9
      DEF CloneStep, FillBroken, FillFails
  <2>2. ASSUME NEW s \in Slots, NEW q \in Projects, StartClone(s, q) PROVE Abandoned(p)'
    BY <2>0, <2>2 DEF StartClone, Abandoned, WorksOn, TypeOK
  <2>3. CASE FindUserRepos \/ FindUserReposFails \/ LookEnds \/ UNCHANGED vars
             \/ \E q \in Projects : StatFolder(q) \/ MembershipChanges(q)
    BY <2>3 DEF FindUserRepos, FindUserReposFails, LookEnds, vars, StatFolder,
                MembershipChanges, Abandoned, WorksOn
  <2>4. CASE Restart
    BY <2>4 DEF Restart, Abandoned, WorksOn, NotRunning
  <2>5. ASSUME NEW q \in Projects, UserMakesFolder(q) \/ UserRemovesFolder(q)
        PROVE  Abandoned(p)' \/ UserRemovesFolder(p)
    BY <2>0, <2>5 DEF UserMakesFolder, UserRemovesFolder, Abandoned, WorksOn, TypeOK
  <2> QED  BY <2>1, <2>2, <2>3, <2>4, <2>5 DEF Next, Look
<1> QED  BY <1>1, Invariance, PTL DEF Spec, AbandonedForGood

=============================================================================
