------------------------------ MODULE UserTools ------------------------------
(***************************************************************************)
(* The tools of one user: Interactor.StartTools and StopTools              *)
(* (app/api/usecase/user/interactor.go) over the KDLUserTools resource and *)
(* the pod that the user-tools operator makes of it                        *)
(* (app/api/infrastructure/k8s/kdlusertools.go).                           *)
(*                                                                         *)
(* A handler is one setActiveUserTools request.  Each call it makes to     *)
(* Kubernetes is one action; it decides by the pod, it changes the         *)
(* resource, and it waits on a watch of the pod that it opens only after   *)
(* the change.  Any call may fail, and the client of a handler may leave,  *)
(* which ends its waits.                                                   *)
(*                                                                         *)
(* The operator, the stateful set and the garbage collector are external:  *)
(* a resource gets one pod, which goes when its resource goes.             *)
(***************************************************************************)
EXTENDS Naturals

CONSTANTS
    Handlers,   \* the requests that can be served at once
    Choices,    \* the runtimes and capabilities a start can ask for
    None,       \* no resource, no pod, no choice
    MaxLosses,  \* how many pods are lost while their resource stays
    MaxCloses   \* how many watches the API server closes before their end

ASSUME BoundsAssumption == MaxLosses \in Nat /\ MaxCloses \in Nat

VARIABLES
    cr,         \* the KDLUserTools resource of the user
    pod,        \* the pod with the resource's label
    handler,    \* the requests
    losses,     \* how many pods have been lost
    closes,     \* how many watches have been closed
    alone       \* history: handlers with no rival and no failed check so far

budget == <<losses, closes>>

vars == <<cr, pod, handler, budget, alone>>

-----------------------------------------------------------------------------

Positions ==
    {"idle", "check", "status", "delete", "patch", "watch gone", "gone",
     "create", "watch up", "up"}

Waits == {"gone", "up"}

\* A request that asks for no choice stops the tools.  An event that ends its
\* wait may have come, and its watch may be closed.
Request ==
    [at : Positions, choice : Choices \union {None}, event : BOOLEAN, closed : BOOLEAN]

Resource == [choice : Choices, dying : BOOLEAN]

\* An orphan has outlived its resource.
Pod == [choice : Choices, running : BOOLEAN, orphan : BOOLEAN]

ASSUME NoneAssumption == None \notin Choices \union Resource \union Pod

NoRequest == [at |-> "idle", choice |-> None, event |-> FALSE, closed |-> FALSE]

TypeOK ==
    /\ cr \in Resource \union {None}
    /\ pod \in Pod \union {None}
    /\ handler \in [Handlers -> Request]
    /\ losses \in 0 .. MaxLosses
    /\ closes \in 0 .. MaxCloses
    /\ alone \in SUBSET Handlers

Init ==
    /\ cr = None
    /\ pod = None
    /\ handler = [h \in Handlers |-> NoRequest]
    /\ losses = 0
    /\ closes = 0
    /\ alone = {}

Running == pod # None /\ pod.running

Goto(h, at) == handler' = [handler EXCEPT ![h].at = at]

End(h) == handler' = [handler EXCEPT ![h] = NoRequest]

Begins(h, at, choice) ==
    /\ handler[h].at = "idle"
    /\ handler' = [handler EXCEPT ![h] = [@ EXCEPT !.at = at, !.choice = choice]]
    /\ alone' = {g \in {h} : \A o \in Handlers \ {h} : handler[o].at = "idle"}
    /\ UNCHANGED <<cr, pod, budget>>

-----------------------------------------------------------------------------
(***************************************************************************)
(* The requests.                                                           *)
(***************************************************************************)
StartTools(h, choice) == Begins(h, "check", choice)

StopTools(h) == Begins(h, "status", None)

\* AreToolsRunning: any pod counts, whatever its phase and its resource.
AreToolsRunning(h) ==
    /\ handler[h].at = "check"
    /\ Goto(h, IF pod # None THEN "status" ELSE "create")
    /\ UNCHANGED <<cr, pod, budget, alone>>

\* Its error is dropped: a check that fails counts as no tools.
AreToolsRunningFails(h) ==
    /\ handler[h].at = "check"
    /\ Goto(h, "create")
    /\ alone' = alone \ {h}
    /\ UNCHANGED <<cr, pod, budget>>

\* The status is only logged, but a stop without a pod ends here.
GetUserToolsPodStatus(h) ==
    /\ handler[h].at = "status"
    /\ pod # None
    /\ Goto(h, "delete")
    /\ UNCHANGED <<cr, pod, budget, alone>>

\* The deletion is in the foreground: the resource stays until its pod is gone.
DeleteCR(h) ==
    /\ handler[h].at = "delete"
    /\ cr # None
    /\ cr' = [cr EXCEPT !.dying = TRUE]
    /\ Goto(h, "patch")
    /\ UNCHANGED <<pod, budget, alone>>

Orphaned == IF pod = None THEN None ELSE [pod EXCEPT !.orphan = TRUE]

\* Mutant: the wait for the pod's end is skipped.
PatchFinalizersAndReturn(h) ==
    /\ handler[h].at = "patch"
    /\ cr # None
    /\ IF cr.dying
         THEN cr' = None /\ pod' = Orphaned
         ELSE UNCHANGED <<cr, pod>>
    /\ IF handler[h].choice = None THEN End(h) ELSE Goto(h, "create")
    /\ UNCHANGED <<budget, alone>>

\* Mutant: the finalizers stay, and the wait is only for the pod.
LeaveFinalizers(h) ==
    /\ handler[h].at = "patch"
    /\ cr # None
    /\ Goto(h, "watch gone")
    /\ UNCHANGED <<cr, pod, budget, alone>>

\* Without finalizers a dying resource goes at once and its pod later.  A new
\* resource of the same name is left as it is: the operator adds its own back.
PatchFinalizers(h) ==
    /\ handler[h].at = "patch"
    /\ cr # None
    /\ IF cr.dying
         THEN cr' = None /\ pod' = Orphaned
         ELSE UNCHANGED <<cr, pod>>
    /\ Goto(h, "watch gone")
    /\ UNCHANGED <<budget, alone>>

\* The watch reports the pods that are there and what happens from now on.
WatchGone(h) ==
    /\ handler[h].at = "watch gone"
    /\ Goto(h, "gone")
    /\ UNCHANGED <<cr, pod, budget, alone>>

\* Mutant: a new resource under the same name holds the wait up.
WaitResourceDeleted(h) ==
    /\ handler[h].at = "gone"
    /\ handler[h].event
    /\ cr = None
    /\ IF handler[h].choice = None
         THEN End(h)
         ELSE handler' = [handler EXCEPT ![h] =
                [NoRequest EXCEPT !.at = "create", !.choice = handler[h].choice]]
    /\ UNCHANGED <<cr, pod, budget, alone>>

\* A deleted pod ends the wait: a stop is done, a start goes on to create.
WaitUserToolsDeleted(h) ==
    /\ handler[h].at = "gone"
    /\ handler[h].event
    /\ IF handler[h].choice = None
         THEN End(h)
         ELSE handler' = [handler EXCEPT ![h] =
                [NoRequest EXCEPT !.at = "create", !.choice = handler[h].choice]]
    /\ UNCHANGED <<cr, pod, budget, alone>>

\* Mutant: the resource is applied, over one that may exist.
ApplyCR(h) ==
    /\ handler[h].at = "create"
    /\ cr' = [choice |-> handler[h].choice, dying |-> FALSE]
    /\ Goto(h, "watch up")
    /\ UNCHANGED <<pod, budget, alone>>

CreateCR(h) ==
    /\ handler[h].at = "create"
    /\ cr = None
    /\ cr' = [choice |-> handler[h].choice, dying |-> FALSE]
    /\ Goto(h, "watch up")
    /\ UNCHANGED <<pod, budget, alone>>

\* Mutant: the watch does not report the pods that are there.
WatchUpLate(h) ==
    /\ handler[h].at = "watch up"
    /\ Goto(h, "up")
    /\ UNCHANGED <<cr, pod, budget, alone>>

WatchUp(h) ==
    /\ handler[h].at = "watch up"
    /\ handler' = [handler EXCEPT ![h] = [@ EXCEPT !.at = "up", !.event = Running]]
    /\ UNCHANGED <<cr, pod, budget, alone>>

WaitUserToolsRunning(h) ==
    /\ handler[h].at = "up"
    /\ handler[h].event
    /\ End(h)
    /\ UNCHANGED <<cr, pod, budget, alone>>

\* No pod, no such resource to delete or to patch, or one that exists already.
Refused(h) ==
    /\ \/ handler[h].at = "status" /\ pod = None
       \/ handler[h].at \in {"delete", "patch"} /\ cr = None
       \/ handler[h].at = "create" /\ cr # None
    /\ End(h)
    /\ UNCHANGED <<cr, pod, budget, alone>>

\* A call fails, or the client has left: waits end, later calls are cancelled.
\* A start that has found its runtime or capabilities missing ends here as well.
Fail(h) ==
    /\ handler[h].at # "idle"
    /\ End(h)
    /\ UNCHANGED <<cr, pod, budget, alone>>

-----------------------------------------------------------------------------
(***************************************************************************)
(* The cluster.                                                            *)
(***************************************************************************)
\* Every open watch whose handler waits for this gets an event.
Tell(wait) ==
    handler' = [h \in Handlers |->
        IF handler[h].at = wait /\ ~handler[h].closed
          THEN [handler[h] EXCEPT !.event = TRUE]
          ELSE handler[h]]

PodCreated ==
    /\ cr # None /\ ~cr.dying
    /\ pod = None
    /\ pod' = [choice |-> cr.choice, running |-> FALSE, orphan |-> FALSE]
    /\ UNCHANGED <<cr, handler, budget, alone>>

PodRuns ==
    /\ pod # None /\ ~pod.running
    /\ pod' = [pod EXCEPT !.running = TRUE]
    /\ Tell("up")
    /\ UNCHANGED <<cr, budget, alone>>

\* The garbage collector takes the pod of a resource that goes or is gone.
PodGone ==
    /\ pod # None
    /\ pod.orphan \/ (cr # None /\ cr.dying)
    /\ pod' = None
    /\ Tell("gone")
    /\ UNCHANGED <<cr, budget, alone>>

\* A node fails or evicts the pod: the stateful set will make another.
PodLost ==
    /\ pod # None
    /\ losses < MaxLosses
    /\ losses' = losses + 1
    /\ pod' = None
    /\ Tell("gone")
    /\ UNCHANGED <<cr, closes, alone>>

\* The operator has uninstalled the release and takes its finalizer away.
OperatorFinishes ==
    /\ cr # None /\ cr.dying
    /\ pod = None
    /\ cr' = None
    /\ UNCHANGED <<pod, handler, budget, alone>>

\* The API server ends a watch: the handler gets what was sent, then nothing.
WatchCloses(h) ==
    /\ handler[h].at \in Waits
    /\ ~handler[h].closed
    /\ closes < MaxCloses
    /\ closes' = closes + 1
    /\ handler' = [handler EXCEPT ![h].closed = TRUE]
    /\ UNCHANGED <<cr, pod, losses, alone>>

Step(h) ==
    \/ AreToolsRunning(h)
    \/ GetUserToolsPodStatus(h)
    \/ DeleteCR(h)
    \/ PatchFinalizers(h)
    \/ WatchGone(h)
    \/ WaitUserToolsDeleted(h)
    \/ CreateCR(h)
    \/ WatchUp(h)
    \/ WaitUserToolsRunning(h)
    \/ Refused(h)

Cluster == PodCreated \/ PodRuns \/ PodGone \/ OperatorFinishes

Next ==
    \/ \E h \in Handlers :
        \/ \E choice \in Choices : StartTools(h, choice)
        \/ StopTools(h)
        \/ Step(h)
        \/ AreToolsRunningFails(h)
        \/ Fail(h)
        \/ WatchCloses(h)
    \/ Cluster
    \/ PodLost

Spec == Init /\ [][Next]_vars

(***************************************************************************)
(* A request that is being served goes on as long as it can, and so does   *)
(* the cluster.  Nothing makes a client leave, a call fail, a pod get lost *)
(* or a watch close.                                                       *)
(***************************************************************************)
Fairness ==
    /\ \A h \in Handlers : WF_vars(Step(h))
    /\ WF_vars(PodCreated)
    /\ WF_vars(PodRuns)
    /\ WF_vars(PodGone)
    /\ WF_vars(OperatorFinishes)

FairSpec == Spec /\ Fairness

-----------------------------------------------------------------------------

Session ==
    INSTANCE ToolsSession WITH tools <- IF cr = None \/ cr.dying THEN None ELSE cr.choice

(***************************************************************************)
(* However requests overlap and fail, the resource goes from off to what   *)
(* one start asked for and back to off: no start changes tools that are    *)
(* on (CreateKDLUserToolsCR creates, it does not apply).                   *)
(***************************************************************************)
RefinesSession == Session!Spec

(***************************************************************************)
(* What a start without rivals waits for is its own: the resource has what *)
(* it asked for, and no pod of earlier tools is left that could be taken   *)
(* for it, even if earlier requests were cut off anywhere.                 *)
(***************************************************************************)
SoleStartServes ==
    \A h \in alone : handler[h].at = "up" =>
        /\ cr # None /\ cr.choice = handler[h].choice /\ ~cr.dying
        /\ pod # None => pod.choice = cr.choice /\ ~pod.orphan

(***************************************************************************)
(* When a request without rivals has seen the old pod go, resource and pod *)
(* are gone, although the watch is told of any pod with the label.         *)
(***************************************************************************)
SoleStopCompletes ==
    \A h \in alone : handler[h].at = "gone" /\ handler[h].event => cr = None /\ pod = None

(***************************************************************************)
(* The wait of a start does not miss the pod: it ends, unless somebody     *)
(* removes the resource meanwhile or the watch is closed under it.         *)
(***************************************************************************)
StartReturns ==
    \A h \in Handlers :
        handler[h].at = "up" ~> \/ handler[h].at = "idle"
                                \/ handler[h].closed
                                \/ cr = None
                                \/ cr.dying

(***************************************************************************)
(* "Wait until all the resources in the Usertools CR are deleted": a wait  *)
(* that begins while the pod is still on its way out ends, unless the      *)
(* watch is closed under it.  One that begins when the pod is gone already *)
(* does not: the watch was opened after the deletion and has nothing to    *)
(* report, so the handler waits until its client leaves.                   *)
(***************************************************************************)
StopReturns ==
    \A h \in Handlers :
        handler[h].at = "gone" /\ pod # None /\ (pod.orphan \/ (cr # None /\ cr.dying))
            ~> handler[h].at # "gone" \/ handler[h].closed

=============================================================================
