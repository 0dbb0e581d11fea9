----------------------------- MODULE RepoCloner -----------------------------
(***************************************************************************)
(* The repository cloner that runs beside the tools of one user            *)
(* (repo-cloner/cloner/user_repo.go): every few seconds it looks up the    *)
(* projects of the user and starts a goroutine for each one whose folder   *)
(* is missing.  Nothing tells one goroutine of another, and a slow one is  *)
(* still at work when the next look starts a second for the same project.  *)
(*                                                                         *)
(* The folders are on a volume that outlives the process.  git.PlainClone  *)
(* is external: it makes the repository in a folder that has none, fills   *)
(* it, and when it fails it removes the folder if it was missing at first. *)
(***************************************************************************)
EXTENDS Naturals

CONSTANTS
    Projects,   \* the projects of the installation
    Slots,      \* the goroutines that can be at work at once
    NoProject,  \* the project of a goroutine that is not running
    MaxFaults,  \* how many calls fail
    MaxCrashes  \* how many times the cloner's container is restarted

ASSUME NoProjectAssumption == NoProject \notin Projects
ASSUME BoundsAssumption == MaxFaults \in Nat /\ MaxCrashes \in Nat

VARIABLES
    member,     \* the projects the user is a member of
    disk,       \* what each project's folder holds
    scan,       \* checkAndCloneNewRepos
    clone,      \* the cloneRepo goroutines
    faults,     \* how many calls have failed
    crashes,    \* how many times the container has been restarted
    rivals      \* history: projects that two goroutines have worked on at once

budget == <<faults, crashes>>

vars == <<member, disk, scan, clone, budget, rivals>>

-----------------------------------------------------------------------------

\* Any folder counts as cloned: "other" is one the user has made, "partial" a
\* repository without all of its files.
Contents == {"missing", "other", "partial", "whole"}

Scan ==
    [at : {"waiting", "looking"}, todo : SUBSET Projects, new : SUBSET Projects]

\* A goroutine; "tidy" is set if PlainClone will remove what it leaves half done.
Goroutine ==
    [at : {"idle", "prepare", "init", "fill", "failed", "remove"},
     project : Projects \union {NoProject}, tidy : BOOLEAN]

Waiting == [at |-> "waiting", todo |-> {}, new |-> {}]

NotRunning == [at |-> "idle", project |-> NoProject, tidy |-> FALSE]

TypeOK ==
    /\ member \in SUBSET Projects
    /\ disk \in [Projects -> Contents]
    /\ scan \in Scan
    /\ clone \in [Slots -> Goroutine]
    /\ faults \in 0 .. MaxFaults
    /\ crashes \in 0 .. MaxCrashes
    /\ rivals \in SUBSET Projects

Init ==
    /\ member = {}
    /\ disk = [p \in Projects |-> "missing"]
    /\ scan = Waiting
    /\ clone = [s \in Slots |-> NotRunning]
    /\ faults = 0
    /\ crashes = 0
    /\ rivals = {}

WorksOn(s, p) == clone[s].at # "idle" /\ clone[s].project = p

Folder(s) == disk[clone[s].project]

SetFolder(s, contents) == disk' = [disk EXCEPT ![clone[s].project] = contents]

Goto(s, at) == clone' = [clone EXCEPT ![s].at = at]

Returns(s) == clone' = [clone EXCEPT ![s] = NotRunning]

Fault == faults < MaxFaults /\ faults' = faults + 1 /\ UNCHANGED crashes

-----------------------------------------------------------------------------
(***************************************************************************)
(* checkAndCloneNewRepos: one look after the other.                        *)
(***************************************************************************)
FindUserRepos ==
    /\ scan.at = "waiting"
    /\ scan' = [at |-> "looking", todo |-> member, new |-> {}]
    /\ UNCHANGED <<member, disk, clone, budget, rivals>>

\* The next tick tries again.
FindUserReposFails ==
    /\ scan.at = "waiting"
    /\ Fault
    /\ UNCHANGED <<member, disk, scan, clone, rivals>>

\* Mutant: the folders that exist are taken for the new ones.
StatFolderNegated(p) ==
    /\ p \in scan.todo
    /\ scan' = [scan EXCEPT !.todo = @ \ {p},
                            !.new = IF disk[p] = "missing" THEN @ ELSE @ \union {p}]
    /\ UNCHANGED <<member, disk, clone, budget, rivals>>

StatFolder(p) ==
    /\ p \in scan.todo
    /\ scan' = [scan EXCEPT !.todo = @ \ {p},
                            !.new = IF disk[p] = "missing" THEN @ \union {p} ELSE @]
    /\ UNCHANGED <<member, disk, clone, budget, rivals>>

\* Only when all the folders have been looked at.
StartClone(s, p) ==
    /\ scan.todo = {}
    /\ p \in scan.new
    /\ clone[s].at = "idle"
    /\ scan' = [scan EXCEPT !.new = @ \ {p}]
    /\ clone' = [clone EXCEPT ![s] = [at |-> "prepare", project |-> p, tidy |-> FALSE]]
    /\ rivals' = rivals \union {q \in {p} : \E t \in Slots : WorksOn(t, p)}
    /\ UNCHANGED <<member, disk, budget>>

LookEnds ==
    /\ scan.at = "looking"
    /\ scan.todo = {} /\ scan.new = {}
    /\ scan' = Waiting
    /\ UNCHANGED <<member, disk, clone, budget, rivals>>

-----------------------------------------------------------------------------
(***************************************************************************)
(* cloneRepo.                                                              *)
(***************************************************************************)
\* The known hosts and the key; then PlainClone looks at the folder.
Prepare(s) ==
    /\ clone[s].at = "prepare"
    /\ clone' = [clone EXCEPT ![s] = [@ EXCEPT !.at = "init", !.tidy = Folder(s) = "missing"]]
    /\ UNCHANGED <<member, disk, scan, budget, rivals>>

PrepareFails(s) ==
    /\ clone[s].at = "prepare"
    /\ Fault
    /\ Returns(s)
    /\ UNCHANGED <<member, disk, scan, rivals>>

PlainInit(s) ==
    /\ clone[s].at = "init"
    /\ Folder(s) \in {"missing", "other"}
    /\ SetFolder(s, "partial")
    /\ Goto(s, "fill")
    /\ UNCHANGED <<member, scan, budget, rivals>>

\* ErrRepositoryAlreadyExists, which PlainClone does not tidy up after.
AlreadyExists(s) ==
    /\ clone[s].at = "init"
    /\ Folder(s) \in {"partial", "whole"}
    /\ Goto(s, "failed")
    /\ UNCHANGED <<member, disk, scan, budget, rivals>>

Fill(s) ==
    /\ clone[s].at = "fill"
    /\ Folder(s) = "partial"
    /\ SetFolder(s, "whole")
    /\ Returns(s)
    /\ UNCHANGED <<member, scan, budget, rivals>>

PlainCloneFails(s) ==
    /\ clone[s].at = "fill"
    /\ IF clone[s].tidy THEN SetFolder(s, "missing") ELSE UNCHANGED disk
    /\ Goto(s, "failed")
    /\ UNCHANGED <<member, scan, rivals>>

FillFails(s) == Fault /\ PlainCloneFails(s)

\* Somebody else has taken the folder away or made it whole.
FillBroken(s) ==
    /\ PlainCloneFails(s)
    /\ Folder(s) # "partial"
    /\ UNCHANGED budget

\* Mutant: the folder is removed if it is there.
StatAfterFailureNegated(s) ==
    /\ clone[s].at = "failed"
    /\ IF Folder(s) # "missing" THEN Goto(s, "remove") ELSE Returns(s)
    /\ UNCHANGED <<member, disk, scan, budget, rivals>>

\* The folder is removed only if it is not there.
StatAfterFailure(s) ==
    /\ clone[s].at = "failed"
    /\ IF Folder(s) = "missing" THEN Goto(s, "remove") ELSE Returns(s)
    /\ UNCHANGED <<member, disk, scan, budget, rivals>>

RemoveAll(s) ==
    /\ clone[s].at = "remove"
    /\ SetFolder(s, "missing")
    /\ Returns(s)
    /\ UNCHANGED <<member, scan, budget, rivals>>

-----------------------------------------------------------------------------
(***************************************************************************)
(* The world.  The user leaves a folder alone while a clone fills it.      *)
(***************************************************************************)
Restart ==
    /\ crashes < MaxCrashes
    /\ crashes' = crashes + 1
    /\ scan' = Waiting
    /\ clone' = [s \in Slots |-> NotRunning]
    /\ UNCHANGED <<member, disk, faults, rivals>>

MembershipChanges(p) ==
    /\ member' = IF p \in member THEN member \ {p} ELSE member \union {p}
    /\ UNCHANGED <<disk, scan, clone, budget, rivals>>

UserMakesFolder(p) ==
    /\ disk[p] = "missing"
    /\ disk' = [disk EXCEPT ![p] = "other"]
    /\ UNCHANGED <<member, scan, clone, budget, rivals>>

UserRemovesFolder(p) ==
    /\ disk[p] # "missing"
    /\ ~\E s \in Slots : WorksOn(s, p) /\ clone[s].at = "fill"
    /\ disk' = [disk EXCEPT ![p] = "missing"]
    /\ UNCHANGED <<member, scan, clone, budget, rivals>>

Look ==
    \/ FindUserRepos
    \/ \E p \in Projects : StatFolder(p) \/ \E s \in Slots : StartClone(s, p)
    \/ LookEnds

CloneStep(s) ==
    \/ Prepare(s)
    \/ PlainInit(s)
    \/ AlreadyExists(s)
    \/ Fill(s)
    \/ FillBroken(s)
    \/ StatAfterFailure(s)
    \/ RemoveAll(s)

Next ==
    \/ Look
    \/ FindUserReposFails
    \/ \E s \in Slots : CloneStep(s) \/ PrepareFails(s) \/ FillFails(s)
    \/ Restart
    \/ \E p \in Projects : MembershipChanges(p) \/ UserMakesFolder(p) \/ UserRemovesFolder(p)

Spec == Init /\ [][Next]_vars

(***************************************************************************)
(* The ticker ticks, and a goroutine goes on until it returns.             *)
(***************************************************************************)
Fairness == WF_vars(Look) /\ \A s \in Slots : WF_vars(CloneStep(s))

FairSpec == Spec /\ Fairness

-----------------------------------------------------------------------------

(***************************************************************************)
(* A clone that is complete, and what its user has done in it since, is    *)
(* not taken away by the cloner, although a goroutine may have been        *)
(* started for it by a look that found the folder missing.  That holds as  *)
(* long as no two goroutines work on the project at once: cloneRepo's own  *)
(* clean-up removes a folder that it has found missing, and a rival may    *)
(* have completed it in between.                                           *)
(***************************************************************************)
CloneIsKept ==
    [][\A p \in Projects :
        disk[p] = "whole" /\ disk'[p] # "whole" => p \in rivals \/ UserRemovesFolder(p)]_vars

\* Nobody fills the folder, nor has found it missing and will remove it.
Abandoned(p) ==
    /\ disk[p] = "partial"
    /\ \A s \in Slots : WorksOn(s, p) => clone[s].at \notin {"fill", "remove"}

(***************************************************************************)
(* A repository that was being filled when the container stopped is never  *)
(* finished: to every later look it is a folder that exists, and a         *)
(* goroutine that an earlier look started for it leaves it as it is.       *)
(***************************************************************************)
AbandonedForGood ==
    [][\A p \in Projects : Abandoned(p) => Abandoned(p)' \/ UserRemovesFolder(p)]_vars

(***************************************************************************)
(* The cloner "ensures all repositories where a user has access are        *)
(* properly cloned" (repo-cloner/README.md): the folder of every project   *)
(* of the user is filled in the end, unless the user has made one or       *)
(* leaves the project.                                                     *)
(***************************************************************************)
EveryRepoIsCloned ==
    \A p \in Projects :
        p \in member ~> p \notin member \/ disk[p] \in {"whole", "other"}

(***************************************************************************)
(* A clone that fails is tried again: the folder of a project is filled in *)
(* the end, unless something stands in its place or the user leaves.  Two  *)
(* goroutines that work on one project may break each other's clones time  *)
(* and again, so that this too is only said of projects without rivals.    *)
(***************************************************************************)
FailuresAreRetried ==
    \A p \in Projects :
        p \in member ~> \/ p \notin member
                        \/ disk[p] \in {"whole", "other"}
                        \/ Abandoned(p)
                        \/ p \in rivals

=============================================================================
