---------------------------- MODULE MCTemplateSync ----------------------------
(***************************************************************************)
(* Instances of TemplateSync for TLC.  In the first, users leave out the   *)
(* runtime or nothing, and one version of the capability's document passes *)
(* Validate and the others do not.  In the second one capability selects   *)
(* nodes and another tolerates taints.  The tools are interchangeable.     *)
(***************************************************************************)
EXTENDS TemplateSync, TLC

CONSTANTS python, gpu, spot

Symmetry == Permutations(Tools)

Both(c) == [runtime |-> python, capability |-> c]

SomeStarts == {Both(gpu), [runtime |-> None, capability |-> gpu]}

AllNamed == {Both(gpu), Both(spot)}

-----------------------------------------------------------------------------

Str(text) == Given("string", text)

Right == [key |-> Str("gpu"), operator |-> Str("Exists"), value |-> Missing,
          effect |-> Str("NoSchedule"), seconds |-> Missing]

Tolerating(ts) == [name |-> "gpu", selects |-> FALSE, attracts |-> FALSE, tolerations |-> ts]

\* "accepted" has a toleration that is in order and one that is overlooked,
\* "selecting" has none, and the others are refused.
Written ==
    [accepted |-> Tolerating(<<Right, [Right EXCEPT !.key = Given("int32", "5")]>>),
     selecting |-> [Tolerating(<<>>) EXCEPT !.selects = TRUE],
     value |-> Tolerating(<<[Right EXCEPT !.value = Str("yes")]>>),
     operator |-> Tolerating(<<Right, [Right EXCEPT !.operator = Str("exists")]>>),
     effect |-> Tolerating(<<[Right EXCEPT !.effect = Null]>>),
     empty |-> Tolerating(<<>>)]

OneCapability == gpu :> (DOMAIN Written \ {"selecting"})

OwnField == (gpu :> {"selecting"}) @@ (spot :> {"accepted"})

-----------------------------------------------------------------------------
(***************************************************************************)
(* Every toleration whose entries are right, wrong, empty, null, missing   *)
(* or of another type: what Validate accepts is what Kubernetes can        *)
(* schedule, but for what it overlooks and what it misjudges.              *)
(***************************************************************************)
Forms(xs) == {Missing, Null, Str("")} \union xs

Tolerations ==
    [key : Forms({Str("gpu"), Str("no label"), Given("int32", "5")}),
     operator : Forms({Str("Exists"), Str("Equal"), Str("exists"), Given("bool", "true")}),
     value : Forms({Str("yes"), Str("no label"), Given("bool", "true")}),
     effect : Forms({Str("NoSchedule"), Str("NoExecute"), Str("noexecute")}),
     seconds : Forms({Str("60"), Given("int64", "60"), Given("double", "0.5"),
                      Given("whole double", "60")})]

ASSUME ValidateIsExact ==
    \A t \in Tolerations :
        /\ CheckToleration(t) => (Schedulable(t) <=> ~Overlooked(t))
        /\ ~CheckToleration(t) /\ Schedulable(t) => Misjudged(t)
        /\ Misjudged(t) => ~CheckToleration(t)

=============================================================================
