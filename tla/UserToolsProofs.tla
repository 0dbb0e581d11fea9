--------------------------- MODULE UserToolsProofs ---------------------------
(***************************************************************************)
(* What UserTools guarantees for any number of requests and choices, lost  *)
(* pods and closed watches, and what ToolsKeys guarantees beside it.       *)
(***************************************************************************)
EXTENDS ToolsKeys, TLAPS

USE DEF budget

-----------------------------------------------------------------------------
(***************************************************************************)
(* Type correctness.                                                       *)
(***************************************************************************)
\* A request that has begun with a choice to make tools of has one.
AsksInv ==
    \A h \in Handlers :
        handler[h].at \in {"check", "create", "watch up", "up"} => handler[h].choice # None

TypeInv == TypeOK /\ AsksInv

LEMMA NoRequestType == NoRequest \in Request
BY DEF NoRequest, Request, Positions

LEMMA InitType == Init => TypeInv
<1> SUFFICES ASSUME Init PROVE TypeInv
  OBVIOUS
<1>1. handler \in [Handlers -> Request]
  BY NoRequestType DEF Init
<1>2. 0 \in 0 .. MaxLosses /\ 0 \in 0 .. MaxCloses
  BY BoundsAssumption
<1>3. AsksInv
  BY DEF Init, AsksInv, NoRequest
<1> QED  BY <1>1, <1>2, <1>3 DEF Init, TypeInv, TypeOK

\* One request is replaced by a well-formed one.
LEMMA OneRequest ==
    ASSUME TypeInv, NEW h \in Handlers, NEW r \in Request,
           handler' = [handler EXCEPT ![h] = r],
           r.at \in {"check", "create", "watch up", "up"} => r.choice # None
    PROVE  handler' \in [Handlers -> Request] /\ AsksInv'
BY DEF TypeInv, TypeOK, AsksInv

LEMMA GotoType ==
    ASSUME TypeInv, NEW h \in Handlers, NEW at \in Positions, Goto(h, at),
           at \in {"check", "create", "watch up", "up"} => handler[h].choice # None
    PROVE  handler' \in [Handlers -> Request] /\ AsksInv'
<1> DEFINE r == [handler[h] EXCEPT !.at = at]
<1>1. r \in Request /\ r.choice = handler[h].choice /\ r.at = at
  BY DEF TypeInv, TypeOK, Request
<1>2. handler' = [handler EXCEPT ![h] = r]
  BY DEF Goto
<1> HIDE DEF r
<1> QED  BY <1>1, <1>2, OneRequest

LEMMA EndType ==
    ASSUME TypeInv, NEW h \in Handlers, End(h)
    PROVE  handler' \in [Handlers -> Request] /\ AsksInv'
BY NoRequestType, OneRequest DEF End, NoRequest

LEMMA TellType ==
    ASSUME TypeInv, NEW wait, Tell(wait)
    PROVE  handler' \in [Handlers -> Request] /\ AsksInv'
<1>1. ASSUME NEW h \in Handlers
      PROVE  /\ handler'[h] \in Request
             /\ handler'[h].at = handler[h].at
             /\ handler'[h].choice = handler[h].choice
  BY DEF TypeInv, TypeOK, Request, Tell
<1>2. handler' = [h \in Handlers |-> handler'[h]]
  BY DEF Tell
<1> QED  BY <1>1, <1>2 DEF TypeInv, AsksInv

LEMMA RequestType ==
    ASSUME TypeInv, NEW h \in Handlers,
           \/ \E choice \in Choices : StartTools(h, choice)
           \/ StopTools(h) \/ Step(h) \/ AreToolsRunningFails(h) \/ Fail(h) \/ WatchCloses(h)
    PROVE  TypeInv'
<1> USE DEF TypeInv
<1>a. handler[h] \in Request /\ alone \in SUBSET Handlers
  BY DEF TypeOK
<1>b. ASSUME UNCHANGED <<cr, pod, budget>>, alone' \in SUBSET Handlers,
             handler' \in [Handlers -> Request], AsksInv'
      PROVE  TypeInv'
  BY <1>b DEF TypeOK
<1>c. ASSUME NEW at \in Positions, NEW choice \in Choices \union {None}, Begins(h, at, choice),
             at = "check" => choice # None, at \in {"check", "status"}
      PROVE  TypeInv'
  <2> DEFINE r == [handler[h] EXCEPT !.at = at, !.choice = choice]
  <2>1. r \in Request /\ r.at = at /\ r.choice = choice
    BY <1>a DEF Request
  <2>2. handler' = [handler EXCEPT ![h] = r] /\ alone' \in SUBSET Handlers
        /\ UNCHANGED <<cr, pod, budget>>
    BY <1>c DEF Begins
  <2> HIDE DEF r
  <2> QED  BY <1>b, <1>c, <2>1, <2>2, OneRequest
<1>1. CASE \E choice \in Choices : StartTools(h, choice)
  BY <1>1, <1>c, NoneAssumption DEF StartTools, Positions
<1>2. CASE StopTools(h)
  BY <1>2, <1>c DEF StopTools, Positions
<1>3. CASE AreToolsRunning(h)
  <2>1. handler[h].choice # None
    BY <1>3 DEF AreToolsRunning, AsksInv
  <2> QED  BY <1>3, <1>a, <1>b, <2>1, GotoType DEF AreToolsRunning, Positions
<1>4. CASE AreToolsRunningFails(h)
  <2>1. handler[h].choice # None
    BY <1>4 DEF AreToolsRunningFails, AsksInv
  <2> QED  BY <1>4, <1>a, <1>b, <2>1, GotoType DEF AreToolsRunningFails, Positions
<1>5. CASE GetUserToolsPodStatus(h)
  BY <1>5, <1>a, <1>b, GotoType DEF GetUserToolsPodStatus, Positions
<1>6. CASE DeleteCR(h)
  <2>1. handler' \in [Handlers -> Request] /\ AsksInv'
    BY <1>6, GotoType DEF DeleteCR, Positions
  <2>2. cr' \in Resource
    BY <1>6 DEF DeleteCR, TypeOK, Resource
  <2> QED  BY <1>6, <1>a, <2>1, <2>2 DEF DeleteCR, TypeOK
<1>7. CASE PatchFinalizers(h)
  <2>1. handler' \in [Handlers -> Request] /\ AsksInv'
    BY <1>7, GotoType DEF PatchFinalizers, Positions
  <2>2. Orphaned \in Pod \union {None}
    BY DEF TypeOK, Orphaned, Pod
  <2>3. cr' \in Resource \union {None} /\ pod' \in Pod \union {None}
    BY <1>7, <2>2 DEF PatchFinalizers, TypeOK
  <2> QED  BY <1>7, <1>a, <2>1, <2>3 DEF PatchFinalizers, TypeOK
<1>8. CASE WatchGone(h)
  BY <1>8, <1>a, <1>b, GotoType DEF WatchGone, Positions
<1>9. CASE WaitUserToolsDeleted(h)
  <2>1. CASE handler[h].choice = None
    BY <1>9, <2>1, <1>a, <1>b, EndType DEF WaitUserToolsDeleted
  <2>2. CASE handler[h].choice # None
    <3> DEFINE r == [NoRequest EXCEPT !.at = "create", !.choice = handler[h].choice]
    <3>1. r \in Request /\ r.choice # None
      BY <1>a, <2>2 DEF Request, NoRequest, Positions
    <3>2. handler' = [handler EXCEPT ![h] = r] /\ UNCHANGED <<cr, pod, budget, alone>>
      BY <1>9, <2>2 DEF WaitUserToolsDeleted
    <3> HIDE DEF r
    <3> QED  BY <1>a, <1>b, <3>1, <3>2, OneRequest
  <2> QED  BY <2>1, <2>2
<1>10. CASE CreateCR(h)
  <2>1. handler[h].choice # None
    BY <1>10 DEF CreateCR, AsksInv
  <2>2. handler' \in [Handlers -> Request] /\ AsksInv'
    BY <1>10, <2>1, GotoType DEF CreateCR, Positions
  <2>3. cr' \in Resource
    BY <1>10, <1>a, <2>1 DEF CreateCR, Resource, Request
  <2> QED  BY <1>10, <1>a, <2>2, <2>3 DEF CreateCR, TypeOK
<1>11. CASE WatchUp(h)
  <2> DEFINE r == [handler[h] EXCEPT !.at = "up", !.event = Running]
  <2>1. Running \in BOOLEAN
    BY DEF Running, TypeOK, Pod
  <2>2. handler[h].choice # None
    BY <1>11 DEF WatchUp, AsksInv
  <2>3. r \in Request /\ r.choice # None
    BY <1>a, <2>1, <2>2 DEF Request, Positions
  <2>4. handler' = [handler EXCEPT ![h] = r] /\ UNCHANGED <<cr, pod, budget, alone>>
    BY <1>11 DEF WatchUp
  <2> HIDE DEF r
  <2> QED  BY <1>a, <1>b, <2>3, <2>4, OneRequest
<1>12. CASE WaitUserToolsRunning(h)
  BY <1>12, <1>a, <1>b, EndType DEF WaitUserToolsRunning
<1>13. CASE Refused(h)
  BY <1>13, <1>a, <1>b, EndType DEF Refused
<1>14. CASE Fail(h)
  BY <1>14, <1>a, <1>b, EndType DEF Fail
<1>15. CASE WatchCloses(h)
  <2> DEFINE r == [handler[h] EXCEPT !.closed = TRUE]
  <2>1. r \in Request /\ r.at = handler[h].at /\ r.choice = handler[h].choice
    BY <1>a DEF Request
  <2>2. handler' = [handler EXCEPT ![h] = r]
    BY <1>15 DEF WatchCloses
  <2>3. r.at \in {"check", "create", "watch up", "up"} => r.choice # None
    BY <2>1 DEF AsksInv
  <2> HIDE DEF r
  <2>4. handler' \in [Handlers -> Request] /\ AsksInv'
    BY <2>1, <2>2, <2>3, OneRequest
  <2>5. closes' \in 0 .. MaxCloses
    BY <1>15, BoundsAssumption DEF WatchCloses, TypeOK
  <2> QED  BY <1>15, <2>4, <2>5 DEF WatchCloses, TypeOK
<1> QED
  BY <1>1, <1>2, <1>3, <1>4, <1>5, <1>6, <1>7, <1>8, <1>9, <1>10, <1>11, <1>12, <1>13,
     <1>14, <1>15 DEF Step

LEMMA ClusterType ==
    ASSUME TypeInv, Cluster \/ PodLost
    PROVE  TypeInv'
<1> USE DEF TypeInv
<1>1. CASE PodCreated
  BY <1>1 DEF PodCreated, TypeOK, AsksInv, Resource, Pod
<1>2. CASE PodRuns
  <2>1. handler' \in [Handlers -> Request] /\ AsksInv'
    BY <1>2, TellType DEF PodRuns
  <2>2. pod' \in Pod
    BY <1>2 DEF PodRuns, TypeOK, Pod
  <2> QED  BY <1>2, <2>1, <2>2 DEF PodRuns, TypeOK
<1>3. CASE PodGone
  <2>1. handler' \in [Handlers -> Request] /\ AsksInv'
    BY <1>3, TellType DEF PodGone
  <2> QED  BY <1>3, <2>1 DEF PodGone, TypeOK
<1>4. CASE PodLost
  <2>1. handler' \in [Handlers -> Request] /\ AsksInv'
    BY <1>4, TellType DEF PodLost
  <2>2. losses' \in 0 .. MaxLosses
    BY <1>4, BoundsAssumption DEF PodLost, TypeOK
  <2> QED  BY <1>4, <2>1, <2>2 DEF PodLost, TypeOK
<1>5. CASE OperatorFinishes
  BY <1>5 DEF OperatorFinishes, TypeOK, AsksInv
<1> QED  BY <1>1, <1>2, <1>3, <1>4, <1>5 DEF Cluster

LEMMA StepType == TypeInv /\ [Next]_vars => TypeInv'
<1>1. TypeInv /\ UNCHANGED vars => TypeInv'
  BY DEF TypeInv, TypeOK, AsksInv, vars
<1> QED  BY <1>1, RequestType, ClusterType DEF Next

(***************************************************************************)
(* Resource, pod and requests are what TypeOK says.                        *)
(***************************************************************************)
THEOREM TypeCorrect == Spec => []TypeOK
<1>1. Spec => []TypeInv
  BY InitType, StepType, PTL DEF Spec
<1>2. TypeInv => TypeOK
  BY DEF TypeInv
<1> QED  BY <1>1, <1>2, PTL

-----------------------------------------------------------------------------
(***************************************************************************)
(* No start changes tools that are on.                                     *)
(***************************************************************************)
LEMMA SessionStep ==
    ASSUME TypeInv, TypeInv', [Next]_vars
    PROVE  [Session!Next]_(IF cr = None \/ cr.dying THEN None ELSE cr.choice)
<1> DEFINE tools == IF cr = None \/ cr.dying THEN None ELSE cr.choice
<1> SUFFICES [\/ tools # None /\ tools' = None
              \/ \E choice \in Choices : tools = None /\ tools' = choice]_tools
  BY DEF Session!Next, Session!Start, Session!Stop
<1>1. ASSUME UNCHANGED cr PROVE UNCHANGED tools
  BY <1>1
<1>2. ASSUME cr # None, cr.dying, cr' = None PROVE UNCHANGED tools
  BY <1>2
<1>3. ASSUME NEW h \in Handlers, DeleteCR(h)
      PROVE  UNCHANGED tools \/ (tools # None /\ tools' = None)
  <2>1. cr' \in Resource /\ cr'.dying
    BY <1>3 DEF DeleteCR, TypeInv, TypeOK, Resource
  <2>2. tools' = None
    BY <2>1
  <2> QED  BY <2>2
<1>4. ASSUME NEW h \in Handlers, CreateCR(h)
      PROVE  \E choice \in Choices : tools = None /\ tools' = choice
  <2>1. tools = None /\ cr' = [choice |-> handler[h].choice, dying |-> FALSE]
    BY <1>4 DEF CreateCR
  <2>2. handler[h].choice \in Choices
    BY <1>4 DEF CreateCR, TypeInv, TypeOK, AsksInv, Request
  <2>3. cr' \in Resource /\ cr'.choice = handler[h].choice /\ ~cr'.dying
    BY <2>1, <2>2 DEF Resource
  <2> QED  BY <2>1, <2>2, <2>3, NoneAssumption
<1>5. ASSUME NEW h \in Handlers, PatchFinalizers(h) PROVE UNCHANGED tools
  BY <1>1, <1>2, <1>5 DEF PatchFinalizers
<1> HIDE DEF tools
<1>6. CASE \E h \in Handlers : \E choice \in Choices : StartTools(h, choice)
  BY <1>1, <1>6 DEF StartTools, Begins
<1>7. CASE \E h \in Handlers : StopTools(h) \/ AreToolsRunningFails(h) \/ Fail(h) \/ WatchCloses(h)
  BY <1>1, <1>7 DEF StopTools, Begins, AreToolsRunningFails, Fail, WatchCloses
<1>8. CASE \E h \in Handlers : Step(h)
  BY <1>1, <1>3, <1>4, <1>5, <1>8 DEF Step, AreToolsRunning, GetUserToolsPodStatus, WatchGone,
     WaitUserToolsDeleted, WatchUp, WaitUserToolsRunning, Refused
<1>9. CASE Cluster \/ PodLost
  BY <1>1, <1>2, <1>9 DEF Cluster, PodCreated, PodRuns, PodGone, PodLost, OperatorFinishes
<1> QED
  BY <1>1, <1>6, <1>7, <1>8, <1>9 DEF Next, vars

(***************************************************************************)
(* UserTools implements ToolsSession: whatever overlaps and fails, the     *)
(* tools go from off to what one start asked for, and from there to off.   *)
(***************************************************************************)
THEOREM SessionIsImplemented == Spec => RefinesSession
<1>1. Spec => []TypeInv
  BY InitType, StepType, PTL DEF Spec
<1>2. Init => Session!Init
  BY DEF Init, Session!Init
<1> QED  BY <1>1, <1>2, SessionStep, PTL DEF Spec, RefinesSession, Session!Spec

-----------------------------------------------------------------------------
(***************************************************************************)
(* A request without rivals.  The induction says what each position of     *)
(* such a request implies for the resource and the pod, that a pod which   *)
(* is no orphan is the resource's own, and that only a wait has events.    *)
(***************************************************************************)
OwnPod == pod # None /\ ~pod.orphan => cr # None /\ pod.choice = cr.choice

EventInv == \A h \in Handlers : handler[h].event => handler[h].at \in Waits

AloneInv == \A h \in alone : \A o \in Handlers \ {h} : handler[o].at = "idle"

\* What a request alone knows at its position.
Knows(h) ==
    /\ handler[h].at = "patch" => cr = None \/ cr.dying
    /\ handler[h].at \in {"watch gone", "gone"} => cr = None
    /\ handler[h].at = "gone" /\ handler[h].event => pod = None
    /\ handler[h].at = "create" /\ (cr = None \/ cr.dying) => pod = None
    /\ handler[h].at \in {"watch up", "up"} =>
          /\ cr # None /\ cr.choice = handler[h].choice /\ ~cr.dying
          /\ pod # None => pod.choice = cr.choice /\ ~pod.orphan

SoleInv == OwnPod /\ EventInv /\ AloneInv /\ \A h \in alone : Knows(h)

LEMMA InitSole == Init => SoleInv
BY DEF Init, SoleInv, OwnPod, EventInv, AloneInv, NoRequest

\* The step of one request changes no other request.
LEMMA OnlyOne ==
    ASSUME TypeInv, NEW h \in Handlers,
           \/ Step(h) \/ AreToolsRunningFails(h) \/ Fail(h) \/ WatchCloses(h)
    PROVE  /\ \A o \in Handlers \ {h} : handler'[o] = handler[o]
           /\ alone' \subseteq alone
           /\ handler[h].at # "idle"
BY DEF TypeInv, TypeOK, Step, AreToolsRunning, GetUserToolsPodStatus, DeleteCR, PatchFinalizers,
   WatchGone, WaitUserToolsDeleted, CreateCR, WatchUp, WaitUserToolsRunning, Refused,
   AreToolsRunningFails, Fail, WatchCloses, Goto, End, Waits

\* So the others that are alone are the same request or none.
LEMMA SoleStaysAlone ==
    ASSUME TypeInv, SoleInv, NEW h \in Handlers,
           \/ Step(h) \/ AreToolsRunningFails(h) \/ Fail(h) \/ WatchCloses(h)
    PROVE  AloneInv' /\ alone' \subseteq {h}
<1>1. \A g \in alone : g = h
  BY OnlyOne DEF SoleInv, AloneInv, TypeInv, TypeOK
<1> QED  BY <1>1, OnlyOne DEF SoleInv, AloneInv

LEMMA BeginSole ==
    ASSUME TypeInv, SoleInv, NEW h \in Handlers,
           (\E choice \in Choices : StartTools(h, choice)) \/ StopTools(h)
    PROVE  SoleInv'
<1>1. PICK at \in {"check", "status"}, choice \in Choices \union {None} : Begins(h, at, choice)
  BY DEF StartTools, StopTools
<1>2. /\ UNCHANGED <<cr, pod>>
      /\ handler'[h].at = at /\ handler'[h].event = handler[h].event
      /\ \A o \in Handlers \ {h} : handler'[o] = handler[o]
      /\ handler[h].at = "idle"
  BY <1>1 DEF Begins, TypeInv, TypeOK, Request
<1>3. \A g \in alone' : g = h /\ \A o \in Handlers \ {h} : handler[o].at = "idle"
  BY <1>1 DEF Begins
<1>4. OwnPod'
  BY <1>2 DEF OwnPod, SoleInv
<1>5. EventInv'
  BY <1>2 DEF EventInv, SoleInv, Waits
<1>6. AloneInv'
  BY <1>2, <1>3 DEF AloneInv
<1>7. \A g \in alone' : Knows(g)'
  BY <1>2, <1>3 DEF Knows
<1> QED  BY <1>4, <1>5, <1>6, <1>7 DEF SoleInv

\* Most steps of a request leave resource and pod alone.
LEMMA QuietStepSole ==
    ASSUME TypeInv, SoleInv, NEW h \in Handlers, UNCHANGED <<cr, pod>>,
           \/ Step(h) \/ AreToolsRunningFails(h) \/ Fail(h) \/ WatchCloses(h),
           handler'[h].event => handler'[h].at \in Waits,
           h \in alone' => Knows(h)'
    PROVE  SoleInv'
<1>1. AloneInv' /\ alone' \subseteq {h}
  BY SoleStaysAlone
<1>2. OwnPod'
  BY DEF OwnPod, SoleInv
<1>3. EventInv'
  BY OnlyOne DEF EventInv, SoleInv
<1> QED  BY <1>1, <1>2, <1>3 DEF SoleInv

LEMMA RequestSole ==
    ASSUME TypeInv, SoleInv, NEW h \in Handlers,
           \/ Step(h) \/ AreToolsRunningFails(h) \/ Fail(h) \/ WatchCloses(h)
    PROVE  SoleInv'
<1>a. /\ handler \in [Handlers -> Request] /\ handler[h] \in Request
      /\ alone \subseteq Handlers
  BY DEF TypeInv, TypeOK
<1>b. h \in alone' => h \in alone
  BY OnlyOne
<1>c. handler[h].event => handler[h].at \in Waits
  BY DEF SoleInv, EventInv
<1>d. h \in alone => Knows(h)
  BY DEF SoleInv
<1>e. ASSUME End(h) PROVE handler'[h].at = "idle" /\ ~handler'[h].event /\ Knows(h)'
  BY <1>a, <1>e DEF End, NoRequest, Knows
<1>1. CASE AreToolsRunning(h)
  <2>1. /\ handler[h].at = "check" /\ handler'[h].event = handler[h].event
        /\ handler'[h].at = (IF pod # None THEN "status" ELSE "create")
        /\ UNCHANGED <<cr, pod>>
    BY <1>1, <1>a DEF AreToolsRunning, Goto, Request
  <2>2. Knows(h)'
    BY <2>1 DEF Knows
  <2> QED  BY <1>1, <1>c, <2>1, <2>2, QuietStepSole DEF Step, Waits
<1>2. CASE AreToolsRunningFails(h)
  <2>1. /\ handler[h].at = "check" /\ handler'[h].event = handler[h].event
        /\ h \notin alone'
        /\ UNCHANGED <<cr, pod>>
    BY <1>2, <1>a DEF AreToolsRunningFails, Goto, Request
  <2> QED  BY <1>2, <1>c, <2>1, QuietStepSole DEF Waits
<1>3. CASE GetUserToolsPodStatus(h)
  <2>1. /\ handler[h].at = "status" /\ handler'[h].event = handler[h].event
        /\ handler'[h].at = "delete"
        /\ UNCHANGED <<cr, pod>>
    BY <1>3, <1>a DEF GetUserToolsPodStatus, Goto, Request
  <2>2. Knows(h)'
    BY <2>1 DEF Knows
  <2> QED  BY <1>3, <1>c, <2>1, <2>2, QuietStepSole DEF Step, Waits
<1>4. CASE DeleteCR(h)
  <2>1. /\ handler[h].at = "delete" /\ handler'[h].event = handler[h].event
        /\ handler'[h].at = "patch"
        /\ cr \in Resource /\ cr' = [cr EXCEPT !.dying = TRUE] /\ UNCHANGED pod
    BY <1>4, <1>a DEF DeleteCR, Goto, Request, TypeInv, TypeOK
  <2>2. cr' \in Resource /\ cr'.dying /\ cr'.choice = cr.choice
    BY <2>1 DEF Resource
  <2>3. Knows(h)'
    BY <2>1, <2>2 DEF Knows
  <2>4. OwnPod'
    BY <2>1, <2>2, NoneAssumption DEF OwnPod, SoleInv
  <2>5. EventInv'
    BY <1>4, <1>c, <2>1, OnlyOne DEF EventInv, SoleInv, Step, Waits
  <2>6. AloneInv' /\ alone' \subseteq {h}
    BY <1>4, SoleStaysAlone DEF Step
  <2> QED  BY <2>3, <2>4, <2>5, <2>6 DEF SoleInv
<1>5. CASE PatchFinalizers(h)
  <2>1. /\ handler[h].at = "patch" /\ handler'[h].event = handler[h].event
        /\ handler'[h].at = "watch gone" /\ cr # None
    BY <1>5, <1>a DEF PatchFinalizers, Goto, Request
  <2>2. IF cr.dying THEN cr' = None /\ pod' = Orphaned ELSE UNCHANGED <<cr, pod>>
    BY <1>5 DEF PatchFinalizers
  <2>3. Orphaned # None => Orphaned.orphan
    BY DEF Orphaned, TypeInv, TypeOK, Pod
  <2>4. h \in alone' => Knows(h)'
    BY <1>b, <1>d, <2>1, <2>2 DEF Knows
  <2>5. OwnPod'
    BY <2>2, <2>3 DEF OwnPod, SoleInv
  <2>6. EventInv'
    BY <1>5, <1>c, <2>1, OnlyOne DEF EventInv, SoleInv, Step, Waits
  <2>7. AloneInv' /\ alone' \subseteq {h}
    BY <1>5, SoleStaysAlone DEF Step
  <2> QED  BY <2>4, <2>5, <2>6, <2>7 DEF SoleInv
<1>6. CASE WatchGone(h)
  <2>1. /\ handler[h].at = "watch gone" /\ handler'[h].event = handler[h].event
        /\ handler'[h].at = "gone" /\ UNCHANGED <<cr, pod>>
    BY <1>6, <1>a DEF WatchGone, Goto, Request
  <2>2. h \in alone' => Knows(h)'
    BY <1>b, <1>c, <1>d, <2>1 DEF Knows, Waits
  <2> QED  BY <1>6, <1>c, <2>1, <2>2, QuietStepSole DEF Step, Waits
<1>7. CASE WaitUserToolsDeleted(h)
  <2>1. /\ handler[h].at = "gone" /\ handler[h].event /\ UNCHANGED <<cr, pod>>
        /\ End(h) \/ (handler'[h].at = "create" /\ ~handler'[h].event)
    BY <1>7, <1>a DEF WaitUserToolsDeleted, NoRequest
  <2>2. h \in alone' => Knows(h)'
    BY <1>b, <1>d, <1>e, <2>1 DEF Knows
  <2> QED  BY <1>7, <1>e, <2>1, <2>2, QuietStepSole DEF Step
<1>8. CASE CreateCR(h)
  <2>1. /\ handler[h].at = "create" /\ handler'[h].event = handler[h].event
        /\ handler'[h].at = "watch up" /\ handler'[h].choice = handler[h].choice
        /\ cr = None /\ UNCHANGED pod
        /\ cr' = [choice |-> handler[h].choice, dying |-> FALSE]
    BY <1>8, <1>a DEF CreateCR, Goto, Request
  <2>2. cr' \in Resource /\ cr'.choice = handler[h].choice /\ ~cr'.dying
    BY <2>1, <1>a DEF TypeInv, AsksInv, Request, Resource
  <2>3. h \in alone' => Knows(h)'
    BY <1>b, <1>d, <2>1, <2>2, NoneAssumption DEF Knows
  <2>4. OwnPod'
    BY <2>1 DEF OwnPod, SoleInv
  <2>5. EventInv'
    BY <1>8, <1>c, <2>1, OnlyOne DEF EventInv, SoleInv, Step, Waits
  <2>6. AloneInv' /\ alone' \subseteq {h}
    BY <1>8, SoleStaysAlone DEF Step
  <2> QED  BY <2>3, <2>4, <2>5, <2>6 DEF SoleInv
<1>9. CASE WatchUp(h)
  <2>1. /\ handler[h].at = "watch up" /\ UNCHANGED <<cr, pod>>
        /\ handler'[h].at = "up" /\ handler'[h].choice = handler[h].choice
    BY <1>9, <1>a DEF WatchUp, Request
  <2>2. h \in alone' => Knows(h)'
    BY <1>b, <1>d, <2>1 DEF Knows
  <2> QED  BY <1>9, <2>1, <2>2, QuietStepSole DEF Step, Waits
<1>10. CASE WaitUserToolsRunning(h) \/ Refused(h) \/ Fail(h)
  <2>1. End(h) /\ UNCHANGED <<cr, pod>>
    BY <1>10 DEF WaitUserToolsRunning, Refused, Fail
  <2> QED  BY <1>10, <1>e, <2>1, QuietStepSole DEF Step
<1>11. CASE WatchCloses(h)
  <2>1. /\ handler'[h].at = handler[h].at /\ handler'[h].event = handler[h].event
        /\ handler'[h].choice = handler[h].choice /\ UNCHANGED <<cr, pod>>
    BY <1>11, <1>a DEF WatchCloses, Request
  <2>2. h \in alone' => Knows(h)'
    BY <1>b, <1>d, <2>1 DEF Knows
  <2> QED  BY <1>11, <1>c, <2>1, <2>2, QuietStepSole
<1> QED
  BY <1>1, <1>2, <1>3, <1>4, <1>5, <1>6, <1>7, <1>8, <1>9, <1>10, <1>11 DEF Step

\* An event moves no request, and only those that wait for it get it.
LEMMA TellSole ==
    ASSUME TypeInv, NEW wait, Tell(wait), NEW h \in Handlers
    PROVE  /\ handler'[h].at = handler[h].at /\ handler'[h].choice = handler[h].choice
           /\ handler'[h].event => handler[h].event \/ handler[h].at = wait
BY DEF TypeInv, TypeOK, Request, Tell

LEMMA ClusterSole ==
    ASSUME TypeInv, SoleInv, Cluster \/ PodLost
    PROVE  SoleInv'
<1>a. UNCHANGED alone /\ alone \subseteq Handlers
  BY DEF Cluster, PodCreated, PodRuns, PodGone, PodLost, OperatorFinishes, TypeInv, TypeOK
<1>b. ASSUME UNCHANGED handler PROVE EventInv' /\ AloneInv'
  BY <1>a, <1>b DEF SoleInv, EventInv, AloneInv
<1>c. ASSUME NEW wait \in Waits, Tell(wait) PROVE EventInv' /\ AloneInv'
  BY <1>a, <1>c, TellSole DEF SoleInv, EventInv, AloneInv
<1>1. CASE PodCreated
  <2>1. /\ cr # None /\ ~cr.dying /\ pod = None
        /\ pod' = [choice |-> cr.choice, running |-> FALSE, orphan |-> FALSE]
        /\ UNCHANGED <<cr, handler>>
    BY <1>1 DEF PodCreated
  <2>2. pod'.choice = cr.choice /\ ~pod'.orphan
    BY <2>1
  <2>3. \A h \in alone' : Knows(h)'
    BY <1>a, <2>1, <2>2 DEF SoleInv, Knows
  <2> QED  BY <1>b, <2>1, <2>2, <2>3 DEF SoleInv, OwnPod
<1>2. CASE PodRuns
  <2>1. /\ pod # None /\ pod' \in Pod /\ pod'.choice = pod.choice /\ pod'.orphan = pod.orphan
        /\ UNCHANGED cr /\ Tell("up")
    BY <1>2 DEF PodRuns, TypeInv, TypeOK, Pod
  <2>2. \A h \in alone' : Knows(h)'
    <3> SUFFICES ASSUME NEW h \in alone PROVE Knows(h)'
      BY <1>a
    <3>1. Knows(h) /\ h \in Handlers
      BY <1>a DEF SoleInv
    <3>2. handler'[h].at = handler[h].at /\ handler'[h].choice = handler[h].choice
          /\ (handler'[h].event => handler[h].event \/ handler[h].at = "up")
      BY <2>1, <3>1, TellSole
    <3> QED  BY <2>1, <3>1, <3>2 DEF Knows
  <2> QED  BY <1>c, <2>1, <2>2 DEF SoleInv, OwnPod, Waits
<1>3. CASE PodGone \/ PodLost
  <2>1. pod' = None /\ UNCHANGED cr /\ Tell("gone")
    BY <1>3 DEF PodGone, PodLost
  <2>2. \A h \in alone' : Knows(h)'
    <3> SUFFICES ASSUME NEW h \in alone PROVE Knows(h)'
      BY <1>a
    <3>1. Knows(h) /\ h \in Handlers
      BY <1>a DEF SoleInv
    <3>2. handler'[h].at = handler[h].at /\ handler'[h].choice = handler[h].choice
      BY <2>1, <3>1, TellSole
    <3> QED  BY <2>1, <3>1, <3>2 DEF Knows
  <2> QED  BY <1>c, <2>1, <2>2 DEF SoleInv, OwnPod, Waits
<1>4. CASE OperatorFinishes
  <2>1. cr # None /\ cr.dying /\ pod = None /\ cr' = None /\ UNCHANGED <<pod, handler>>
    BY <1>4 DEF OperatorFinishes
  <2>2. \A h \in alone' : Knows(h)'
    BY <1>a, <2>1 DEF SoleInv, Knows
  <2> QED  BY <1>b, <2>1, <2>2 DEF SoleInv, OwnPod
<1> QED  BY <1>1, <1>2, <1>3, <1>4 DEF Cluster

LEMMA StepSole == TypeInv /\ SoleInv /\ [Next]_vars => SoleInv'
<1>1. SoleInv /\ UNCHANGED vars => SoleInv'
  BY DEF SoleInv, OwnPod, EventInv, AloneInv, Knows, vars
<1> QED  BY <1>1, BeginSole, RequestSole, ClusterSole DEF Next

LEMMA SoleInvariance == Spec => [](TypeInv /\ SoleInv)
<1> QED  BY InitType, StepType, InitSole, StepSole, PTL DEF Spec

(***************************************************************************)
(* What a start without rivals waits for is its own.                       *)
(***************************************************************************)
THEOREM SoleStartsServe == Spec => []SoleStartServes
<1>1. SoleInv => SoleStartServes
  BY DEF SoleInv, Knows, SoleStartServes
<1> QED  BY <1>1, SoleInvariance, PTL

(***************************************************************************)
(* A request without rivals that has seen the old pod go has seen it all   *)
(* go.                                                                     *)
(***************************************************************************)
THEOREM SoleStopsComplete == Spec => []SoleStopCompletes
<1>1. SoleInv => SoleStopCompletes
  BY DEF SoleInv, Knows, SoleStopCompletes
<1> QED  BY <1>1, SoleInvariance, PTL

-----------------------------------------------------------------------------
(***************************************************************************)
(* The keys of the tools.                                                  *)
(***************************************************************************)
Regeneration ==
    [at : {"idle", "check", "updateSecret", "updateKey"}, key : Nat, blind : BOOLEAN]

RegenType == regen \in [Regenerations -> Regeneration] /\ made \in Nat

\* Where a start has passed its check.
Starting == {"create", "watch up", "up"}

\* What holds while a regeneration that has passed its check has not written.
QuietInv ==
    quiet => /\ Running => mounted = secret
             /\ \A g \in Regenerations : Pending(regen[g]) => cr = None /\ pod = None

\* A request that no regeneration has met starts its pod with the present key.
CleanInv ==
    \A h \in clean :
        /\ h \in Handlers /\ handler[h].at # "idle"
        /\ \A g \in Regenerations : ~Pending(regen[g])
        /\ h \in alone /\ handler[h].at \in Starting /\ Running => mounted = secret

KeysInv == TypeInv /\ SoleInv /\ RegenType /\ QuietInv /\ CleanInv

LEMMA InitKeys == KeysInit => KeysInv
<1> SUFFICES ASSUME KeysInit PROVE KeysInv
  OBVIOUS
<1>1. TypeInv /\ SoleInv
  BY InitType, InitSole DEF KeysInit
<1>2. RegenType
  BY DEF KeysInit, RegenType, Regeneration, NoRegeneration
<1>3. QuietInv /\ CleanInv
  BY DEF KeysInit, Init, QuietInv, CleanInv, Running, Pending, NoRegeneration
<1> QED  BY <1>1, <1>2, <1>3 DEF KeysInv

LEMMA RegenStep ==
    ASSUME RegenType, RegenerationStep
    PROVE  /\ RegenType'
           /\ UNCHANGED <<vars, mounted>>
           /\ \/ UNCHANGED secret
              \/ \E g \in Regenerations : Pending(regen[g])
           /\ \A g \in Regenerations : Pending(regen'[g]) =>
                \/ Pending(regen[g])
                \/ pod = None
                \/ regen'[g].blind
<1>1. ASSUME NEW g \in Regenerations, NEW r \in Regeneration,
             regen' = [regen EXCEPT ![g] = r],
             made' \in Nat
      PROVE  RegenType' /\ regen'[g] = r /\ \A f \in Regenerations \ {g} : regen'[f] = regen[f]
  BY <1>1 DEF RegenType
<1>2. ASSUME NEW g \in Regenerations, NEW blind \in BOOLEAN, NewKeys(g, blind)
      PROVE  /\ RegenType' /\ regen'[g].blind = blind /\ UNCHANGED <<vars, mounted, secret>>
             /\ \A f \in Regenerations \ {g} : regen'[f] = regen[f]
  <2> DEFINE r == [at |-> "updateSecret", key |-> made + 1, blind |-> blind]
  <2>1. /\ r \in Regeneration /\ r.blind = blind
        /\ made' \in Nat /\ regen' = [regen EXCEPT ![g] = r]
    BY <1>2 DEF NewKeys, RegenType, Regeneration
  <2> HIDE DEF r
  <2>2. UNCHANGED <<vars, mounted, secret>>
    BY <1>2 DEF NewKeys
  <2>3. RegenType' /\ regen'[g] = r /\ \A f \in Regenerations \ {g} : regen'[f] = regen[f]
    BY <1>1, <2>1
  <2> QED  BY <2>1, <2>2, <2>3
<1>3. ASSUME NEW g \in Regenerations,
             RegenerateSSHKeys(g) \/ FindTools(g) \/ UpdateSecret(g) \/ UpdateSSHKey(g)
                \/ RegenerationFails(g)
      PROVE  /\ RegenType' /\ UNCHANGED <<vars, mounted>>
             /\ ~Pending(regen'[g])
             /\ \A f \in Regenerations \ {g} : regen'[f] = regen[f]
             /\ UNCHANGED secret \/ Pending(regen[g])
  <2>1. regen[g] \in Regeneration
    BY DEF RegenType
  <2>2. \E r \in Regeneration : regen' = [regen EXCEPT ![g] = r] /\ r.at # "updateSecret"
    <3>1. ASSUME NEW at \in {"check", "updateKey"}, regen' = [regen EXCEPT ![g].at = at]
          PROVE  \E r \in Regeneration : regen' = [regen EXCEPT ![g] = r] /\ r.at # "updateSecret"
      <4> DEFINE r == [regen[g] EXCEPT !.at = at]
      <4>1. r \in Regeneration /\ r.at # "updateSecret"
        BY <2>1 DEF Regeneration
      <4>2. regen' = [regen EXCEPT ![g] = r]
        BY <3>1
      <4> HIDE DEF r
      <4> QED  BY <4>1, <4>2
    <3>2. CASE RegenerateSSHKeys(g) \/ UpdateSecret(g)
      BY <3>1, <3>2 DEF RegenerateSSHKeys, UpdateSecret
    <3>3. CASE FindTools(g) \/ UpdateSSHKey(g) \/ RegenerationFails(g)
      <4>1. regen' = [regen EXCEPT ![g] = NoRegeneration]
        BY <3>3 DEF FindTools, UpdateSSHKey, RegenerationFails
      <4>2. NoRegeneration \in Regeneration /\ NoRegeneration.at # "updateSecret"
        BY DEF NoRegeneration, Regeneration
      <4> QED  BY <4>1, <4>2
    <3> QED  BY <1>3, <3>2, <3>3
  <2>3. UNCHANGED <<vars, made, mounted>> /\ (UNCHANGED secret \/ Pending(regen[g]))
    BY <1>3 DEF RegenerateSSHKeys, FindTools, UpdateSecret, UpdateSSHKey, RegenerationFails, keys
  <2>4. made' \in Nat
    BY <2>3 DEF RegenType
  <2> QED  BY <1>1, <2>2, <2>3, <2>4 DEF Pending
<1>4. PICK g \in Regenerations :
        \/ RegenerateSSHKeys(g) \/ FindTools(g) \/ UpdateSecret(g) \/ UpdateSSHKey(g)
        \/ RegenerationFails(g)
        \/ FindNoTools(g) \/ CheckFails(g)
  BY DEF RegenerationStep
<1>5. CASE RegenerateSSHKeys(g) \/ FindTools(g) \/ UpdateSecret(g) \/ UpdateSSHKey(g)
             \/ RegenerationFails(g)
  BY <1>3, <1>5
<1>6. CASE FindNoTools(g)
  BY <1>2, <1>6 DEF FindNoTools
<1>7. CASE CheckFails(g)
  BY <1>2, <1>7 DEF CheckFails
<1> QED  BY <1>4, <1>5, <1>6, <1>7

\* Without a resource no pod is made.
LEMMA NoResourceNoPod ==
    ASSUME Next, cr = None, pod = None
    PROVE  pod' = None
<1>1. ASSUME NEW h \in Handlers,
             \/ \E choice \in Choices : StartTools(h, choice)
             \/ StopTools(h) \/ Step(h) \/ AreToolsRunningFails(h) \/ Fail(h) \/ WatchCloses(h)
      PROVE  pod' = None
  <2>1. CASE PatchFinalizers(h)
    BY <2>1 DEF PatchFinalizers
  <2>2. CASE ~PatchFinalizers(h)
    <3>1. UNCHANGED pod
      BY <1>1, <2>2, Zenon DEF StartTools, StopTools, Begins, Step, AreToolsRunning,
         GetUserToolsPodStatus, DeleteCR, WatchGone, WaitUserToolsDeleted, CreateCR, WatchUp,
         WaitUserToolsRunning, Refused, AreToolsRunningFails, Fail, WatchCloses
    <3> QED  BY <3>1
  <2> QED  BY <2>1, <2>2
<1>2. CASE Cluster \/ PodLost
  BY <1>2 DEF Cluster, PodCreated, PodRuns, PodGone, PodLost, OperatorFinishes
<1> QED  BY <1>1, <1>2 DEF Next

LEMMA WhereTo ==
    ASSUME TypeInv, NEW h \in Handlers
    PROVE  /\ \A at : Goto(h, at) => handler'[h].at = at
           /\ End(h) => handler'[h].at = "idle"
BY DEF TypeInv, TypeOK, Request, Goto, End, NoRequest

\* A request without rivals passes its check only while no pod is there, and
\* was without rivals before.
LEMMA PassingCheck ==
    ASSUME TypeInv, SoleInv, Next, NEW h \in alone', handler'[h].at \in Starting
    PROVE  h \in alone /\ (handler[h].at \in Starting \/ ~Running')
<1>t. /\ handler \in [Handlers -> Request] /\ alone \subseteq Handlers
  BY DEF TypeInv, TypeOK
<1>1. ASSUME NEW g \in Handlers, (\E choice \in Choices : StartTools(g, choice)) \/ StopTools(g)
      PROVE  FALSE
  <2>1. PICK at \in {"check", "status"}, choice \in Choices \union {None} : Begins(g, at, choice)
    BY <1>1 DEF StartTools, StopTools
  <2>2. h = g /\ handler'[g].at = at
    BY <2>1, <1>t DEF Begins, Request
  <2>3. at # "create" /\ at # "watch up" /\ at # "up"
    BY <2>1
  <2> QED  BY <2>2, <2>3 DEF Starting
<1>2. ASSUME NEW g \in Handlers,
             Step(g) \/ AreToolsRunningFails(g) \/ Fail(g) \/ WatchCloses(g)
      PROVE  h \in alone /\ (handler[h].at \in Starting \/ ~Running')
  <2>1. h \in alone /\ h \in Handlers
    BY <1>2, <1>t, OnlyOne
  <2>2. CASE h # g
    BY <1>2, <2>1, <2>2, OnlyOne
  <2>3. CASE h = g
    <3>1. CASE AreToolsRunning(h)
      BY <3>1, <2>1, <1>t DEF AreToolsRunning, Goto, Request, Starting, Running
    <3>2. CASE WaitUserToolsDeleted(h)
      <4>1. pod = None /\ UNCHANGED pod
        <5>1. /\ handler[h].at = "gone" /\ handler[h].event
              /\ UNCHANGED pod /\ Knows(h)
          BY <3>2, <2>1 DEF WaitUserToolsDeleted, SoleInv
        <5> QED  BY <5>1 DEF Knows
      <4> QED  BY <2>1, <4>1 DEF Running
    <3>3. CASE AreToolsRunningFails(h)
      BY <3>3 DEF AreToolsRunningFails
    <3>4. CASE \/ GetUserToolsPodStatus(h) \/ DeleteCR(h) \/ PatchFinalizers(h) \/ WatchGone(h)
               \/ CreateCR(h) \/ WatchUp(h) \/ WaitUserToolsRunning(h) \/ Refused(h)
               \/ Fail(h) \/ WatchCloses(h)
      <4>1. CASE GetUserToolsPodStatus(h) \/ DeleteCR(h)
        BY <4>1, <2>1, WhereTo DEF GetUserToolsPodStatus, DeleteCR, Starting
      <4>2. CASE PatchFinalizers(h) \/ WatchGone(h)
        <5>1. handler'[h].at \in {"watch gone", "gone"}
          BY <4>2, <2>1, WhereTo DEF PatchFinalizers, WatchGone
        <5> QED  BY <5>1 DEF Starting
      <4>3. CASE CreateCR(h) \/ WatchUp(h)
        BY <4>3, <2>1 DEF CreateCR, WatchUp, Starting
      <4>4. CASE WaitUserToolsRunning(h) \/ Refused(h) \/ Fail(h)
        <5>1. handler'[h].at = "idle"
          BY <4>4, <2>1, WhereTo DEF WaitUserToolsRunning, Refused, Fail
        <5> QED  BY <5>1 DEF Starting
      <4>5. CASE WatchCloses(h)
        <5>1. handler'[h].at = handler[h].at
          BY <4>5, <2>1, <1>t DEF WatchCloses, Request
        <5> QED  BY <2>1, <5>1
      <4> QED  BY <3>4, <4>1, <4>2, <4>3, <4>4, <4>5
    <3> QED  BY <1>2, <2>3, <3>1, <3>2, <3>3, <3>4 DEF Step
  <2> QED  BY <2>2, <2>3
<1>3. CASE Cluster \/ PodLost
  BY <1>3, <1>t DEF Cluster, PodLost, PodCreated, PodRuns, PodGone, OperatorFinishes, Tell, Request
<1> QED  BY <1>1, <1>2, <1>3 DEF Next

LEMMA NotIdle == \A h : handler[h].at \in Starting => handler[h].at # "idle"
BY DEF Starting

LEMMA StepKeys == KeysInv /\ [KeysNext]_keysVars => KeysInv'
<1> SUFFICES ASSUME KeysInv, [KeysNext]_keysVars
             PROVE  KeysInv'
  OBVIOUS
<1> USE DEF KeysInv
<1>1. CASE UNCHANGED keysVars
  <2>1. UNCHANGED vars
    BY <1>1 DEF keysVars
  <2>2. TypeInv' /\ SoleInv'
    BY <2>1, StepType, StepSole
  <2>3. RegenType' /\ QuietInv' /\ CleanInv'
    BY <1>1 DEF keysVars, keys, vars, RegenType, QuietInv, CleanInv, Running, Pending
  <2> QED  BY <2>2, <2>3
<1>2. CASE KeysNext
  <2>1. TypeInv' /\ SoleInv'
    BY <1>2, StepType, StepSole, RegenStep DEF KeysNext, ToolsStep
  <2>2. RegenType'
    BY <1>2, RegenStep DEF KeysNext, ToolsStep, RegenType, keys
  <2>3. QuietInv'
    <3> SUFFICES ASSUME quiet'
                 PROVE  /\ Running' => mounted' = secret'
                        /\ \A g \in Regenerations : Pending(regen'[g]) => cr' = None /\ pod' = None
      BY DEF QuietInv, Pending
    <3>1. /\ quiet
          /\ \A g \in Regenerations : Pending(regen'[g]) => ~regen'[g].blind /\ cr' = None
      BY <1>2 DEF KeysNext, Watch
    <3>2. CASE ToolsStep
      <4>1. Running' => mounted' = secret'
        BY <3>1, <3>2 DEF ToolsStep, Mount, Running, QuietInv, keys
      <4>2. \A g \in Regenerations : Pending(regen'[g]) => pod' = None
        BY <3>1, <3>2, NoResourceNoPod DEF ToolsStep, QuietInv
      <4> QED  BY <3>1, <4>1, <4>2
    <3>3. CASE RegenerationStep
      BY <3>1, <3>3, RegenStep DEF QuietInv, Running, vars
    <3> QED  BY <1>2, <3>2, <3>3 DEF KeysNext
  <2>4. CleanInv'
    <3>1. \A h \in clean' :
            /\ h \in Handlers /\ handler'[h].at # "idle"
            /\ handler[h].at = "idle" \/ h \in clean
            /\ \A g \in Regenerations : ~Pending(regen'[g])
      BY <1>2 DEF KeysNext, Watch
    <3>2. ASSUME NEW h \in clean', h \in alone', handler'[h].at \in Starting, Running'
          PROVE  mounted' = secret'
      <4>1. CASE ToolsStep
        <5>1. handler[h].at \in Starting /\ h \in alone
          BY <3>2, <4>1, PassingCheck DEF ToolsStep
        <5>2. h \in clean
          BY <3>1, <3>2, <5>1, NotIdle
        <5>3. Running => mounted = secret
          BY <5>1, <5>2 DEF CleanInv
        <5> QED  BY <3>2, <4>1, <5>3 DEF ToolsStep, Mount, Running, keys
      <4>2. CASE RegenerationStep
        <5>1. UNCHANGED <<vars, mounted>>
          BY <4>2, RegenStep
        <5>2. h \in clean /\ h \in alone /\ handler[h].at \in Starting /\ Running
          BY <3>1, <3>2, <5>1, NotIdle DEF vars, Running
        <5>3. mounted = secret /\ UNCHANGED secret
          BY <4>2, <5>2, RegenStep DEF CleanInv
        <5> QED  BY <5>1, <5>3
      <4> QED  BY <1>2, <4>1, <4>2 DEF KeysNext
    <3> QED  BY <3>1, <3>2 DEF CleanInv, Pending
  <2> QED  BY <2>1, <2>2, <2>3, <2>4
<1> QED  BY <1>1, <1>2

LEMMA KeysInvariance == KeysSpec => []KeysInv
<1> QED  BY InitKeys, StepKeys, PTL DEF KeysSpec

(***************************************************************************)
(* As long as no regeneration, between its check and its write, has met a  *)
(* request or a resource without a pod, and no check has failed, running   *)
(* tools hold the key of the secret: for any number of requests,           *)
(* regenerations, lost pods and closed watches.                            *)
(***************************************************************************)
THEOREM QuietToolsHoldTheKey == KeysSpec => []QuietToolsHoldTheirKey
<1>1. KeysInv => QuietToolsHoldTheirKey
  BY DEF KeysInv, QuietInv, QuietToolsHoldTheirKey
<1> QED  BY <1>1, KeysInvariance, PTL

(***************************************************************************)
(* A start that meets no other request and no regeneration waits for a pod *)
(* with the key of the secret, whatever went wrong before.                 *)
(***************************************************************************)
THEOREM RestartsRepairKeys == KeysSpec => []RestartRepairsKeys
<1>1. KeysInv => RestartRepairsKeys
  <2>1. "up" \in Starting
    BY DEF Starting
  <2> QED  BY <2>1 DEF KeysInv, CleanInv, RestartRepairsKeys
<1> QED  BY <1>1, KeysInvariance, PTL

=============================================================================
