----------------------------- MODULE Capabilities -----------------------------
(***************************************************************************)
(* Capabilities.Validate (app/api/entity/capabilities.go): what the server *)
(* asks of a capability before it gives the tools of a user its tolerations*)
(* (updateUserToolsTemplate).  The documents are written by hand into      *)
(* MongoDB, so that an entry of a toleration may be missing, null, empty or*)
(* of any type that BSON has.                                              *)
(*                                                                         *)
(* Validate does not look at the type of an entry: it compares what        *)
(* fmt.Sprintf("%v", ...) prints of it, "<nil>" for null, "5" for a number.*)
(* The resource carries the entry itself, and Kubernetes takes strings.    *)
(***************************************************************************)
EXTENDS Naturals, Sequences

CONSTANTS
    LabelNames,     \* the strings that Kubernetes takes for the name of a label
    LabelValues     \* the strings that it takes for the value of one

\* An entry is a record of its type and of what it prints as.
Given(type, text) == [type |-> type, prints |-> text]

Null == Given("null", "<nil>")

Missing == Given("missing", "<nil>")

\* The entry is not there or prints as the empty string.
Blank(x) == x = Missing \/ x.prints = ""

Operators == {"Exists", "Equal"}

Effects == {"NoSchedule", "PreferNoSchedule", "NoExecute"}

-----------------------------------------------------------------------------
(***************************************************************************)
(* The checks of checkToleration, each of them the negation of its errors. *)
(***************************************************************************)
CheckKey(t) == ~Blank(t.key)

CheckOperator(t) == t.operator # Missing /\ t.operator.prints \in Operators

CheckValue(t) ==
    /\ t.operator.prints = "Equal" => ~Blank(t.value)
    /\ t.operator.prints = "Exists" => Blank(t.value)

CheckEffect(t) == t.effect # Missing /\ t.effect.prints \in Effects

\* Optional.  MongoDB's numbers are int32, int64 and doubles; a double is no integer
\* for Go even if it is a whole number.
CheckSeconds(t) == t.seconds = Missing \/ t.seconds.type \in {"int32", "int64"}

CheckToleration(t) ==
    CheckKey(t) /\ CheckOperator(t) /\ CheckValue(t) /\ CheckEffect(t) /\ CheckSeconds(t)

TolerationsOf(d) == {d.tolerations[i] : i \in DOMAIN d.tolerations}

\* d.selects and d.attracts say that there are node selectors and affinities.
Validate(d) ==
    /\ d.selects \/ d.attracts \/ d.tolerations # <<>>
    /\ d.name # ""
    /\ \A t \in TolerationsOf(d) : CheckToleration(t)

\* The fields of a resource that the capability sets.
FieldsSetBy(d) ==
    (IF d.selects THEN {"nodeSelector"} ELSE {})
    \union (IF d.tolerations # <<>> THEN {"tolerations"} ELSE {})
    \union (IF d.attracts THEN {"affinity"} ELSE {})

-----------------------------------------------------------------------------
(***************************************************************************)
(* Kubernetes.                                                             *)
(***************************************************************************)
Unset(x) == x \in {Missing, Null}

Text(x) == IF Unset(x) THEN "" ELSE x.prints

\* The API server on the toleration of a pod: it would refuse the pod.
ApiServerAccepts(t) ==
    /\ \A x \in {t.key, t.operator, t.value, t.effect} : Unset(x) \/ x.type = "string"
    /\ Text(t.key) = "" => Text(t.operator) = "Exists"
    /\ Text(t.key) \in LabelNames \union {""}
    /\ Text(t.operator) \in Operators \union {""}
    /\ IF Text(t.operator) = "Exists" THEN Text(t.value) = ""
                                      ELSE Text(t.value) \in LabelValues
    /\ Text(t.effect) \in Effects \union {""}
    /\ ~Unset(t.seconds) =>
        /\ t.seconds.type \in {"int32", "int64", "whole double"}
        /\ Text(t.effect) = "NoExecute"

\* What the server wants to be spelled out, where Kubernetes has defaults.
Explicit(t) ==
    /\ Text(t.key) # "" /\ Text(t.operator) # "" /\ Text(t.effect) # ""
    /\ Text(t.operator) = "Equal" => Text(t.value) # ""

Schedulable(t) == Explicit(t) /\ ApiServerAccepts(t)

\* What Validate accepts and should not: it sees no types, knows no labels, and does
\* not hold the seconds against the effect.
Overlooked(t) ==
    \/ t.key.type # "string" \/ t.key.prints \notin LabelNames
    \/ t.operator.type # "string" \/ t.effect.type # "string"
    \/ t.operator.prints = "Equal" /\ (t.value.type # "string" \/ t.value.prints \notin LabelValues)
    \/ t.operator.prints = "Exists" /\ t.value # Missing /\ t.value.type # "string"
    \/ t.seconds # Missing /\ t.effect.prints # "NoExecute"

\* What Validate refuses although it is fine: null where Kubernetes takes it for
\* nothing, and a whole number of seconds that is stored as a double.
Misjudged(t) ==
    \/ t.operator.prints = "Exists" /\ t.value = Null
    \/ t.seconds = Null
    \/ t.seconds.type = "whole double"

=============================================================================
