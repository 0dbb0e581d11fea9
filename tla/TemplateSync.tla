----------------------------- MODULE TemplateSync -----------------------------
(***************************************************************************)
(* The templates of the KDLProject and KDLUserTools resources, and the     *)
(* goroutine that a server starts to bring every resource up to date when  *)
(* one of them is modified (app/api/usecase/configmap/interactor.go,       *)
(* UpdateKDLProjects and UpdateKDLUserTools).                              *)
(*                                                                         *)
(* The goroutine handles one event after the other.  For each it reads the *)
(* template of the moment, lists the resources, and edits and updates them *)
(* one by one through ONE object made of the template.  Meanwhile users    *)
(* create and delete resources, and the operators write to them.  An       *)
(* update names the version of the resource that was read, so a write in   *)
(* between makes it fail; such failures are logged and not retried.        *)
(*                                                                         *)
(* Tools are made of a runtime and a capability, each of which a user may  *)
(* leave out.  The document of a capability is edited by hand at any time, *)
(* so that each time the server reads it, it may find any version of it.   *)
(***************************************************************************)
EXTENDS Capabilities

CONSTANTS
    Projects,       \* KDLProject resources that may exist
    Tools,          \* KDLUserTools resources that may exist
    Runtimes,       \* what the tools of a user run
    Capabilities,   \* what they are scheduled by
    Documents,      \* for each capability the versions of its document
    Content,        \* what each version says
    Fields,         \* the fields of a resource that they set
    Starts,         \* the choices that users make
    None,           \* no resource, creation, runtime or capability
    MaxChanges,     \* how many times a template is modified
    Creators,       \* the creations that can be under way at once
    MaxFaults       \* how many times a call fails or the server restarts

ASSUME BoundsAssumption == MaxChanges \in Nat /\ MaxFaults \in Nat
ASSUME DisjointAssumption == Projects \intersect Tools = {}
ASSUME StartsAssumption ==
    Starts \subseteq [runtime : Runtimes \union {None}, capability : Capabilities \union {None}]

VARIABLES
    template,   \* how often the template of each kind has been modified
    watch,      \* the watch of the templates
    events,     \* the modifications it has reported and nobody has taken
    sync,       \* the goroutine
    cr,         \* the specs of the resources
    create,     \* the creations that have read their template
    faults,     \* how many calls have failed and restarts there were
    missed,     \* history: resources that an update has passed by
    recreated   \* history: resources created between the listing and the read

vars == <<template, watch, events, sync, cr, create, faults, missed, recreated>>

-----------------------------------------------------------------------------

Kinds == {"project", "user tools"}

Resources == Projects \union Tools

KindOf(r) == IF r \in Projects THEN "project" ELSE "user tools"

OfKind(k) == {r \in Resources : KindOf(r) = k}

\* podLabels.runtimeId and podLabels.capabilityId.
Choice == [runtime : Runtimes \union {None}, capability : Capabilities \union {None}]

NoChoice == [runtime |-> None, capability |-> None]

Choices(r) == IF r \in Projects THEN {NoChoice} ELSE Starts

\* A field of a capability's document; None is what the template says.
Labels == {None} \union UNION {[capability : {c}, document : Documents[c]] : c \in Capabilities}

\* A spec: the template and the choice it was made of, and where its fields come from.
TemplatedSpec == [template : 0 .. MaxChanges, choice : Choice, field : [Fields -> Labels]]

Listed == [resource : Resources, choice : Choice]

ASSUME NoneAssumption == None \notin Listed

\* crd is the object all resources are edited through; current says that
\* nobody has written to the resource since the goroutine read it.
Sync ==
    [at : {"waiting", "template", "list", "each", "write"}, kind : Kinds,
     crd : TemplatedSpec, todo : SUBSET Listed, item : Listed \union {None}, current : BOOLEAN]

Creation == [resource : Resources, spec : TemplatedSpec]

Plain(v) == [template |-> v, choice |-> NoChoice, field |-> [f \in Fields |-> None]]

\* updateKDLProjectTemplate and updateUserToolsTemplate, in place: a field that the
\* capability does not have is left as it is.  Both parts of the choice are given or
\* spec has none yet.
EditFor(spec, choice, d) ==
    [spec EXCEPT !.choice = choice,
                 !.field = [f \in Fields |->
                    IF choice.capability # None /\ f \in FieldsSetBy(Content[d])
                      THEN [capability |-> choice.capability, document |-> d]
                      ELSE @[f]]]

\* The versions in which the capability of a choice may be read.
Readings(choice) == IF choice.capability = None THEN {None} ELSE Documents[choice.capability]

ValidVersions == {d \in DOMAIN Content : Validate(Content[d])}

Fit(choice, d) == choice.capability # None => d \in ValidVersions

Waiting ==
    [at |-> "waiting", kind |-> "project", crd |-> Plain(0), todo |-> {},
     item |-> None, current |-> FALSE]

TypeOK ==
    /\ template \in [Kinds -> 0 .. MaxChanges]
    /\ watch \in {"starting", "open", "ended"}
    /\ events \in Seq(Kinds)
    /\ sync \in Sync
    /\ cr \in [Resources -> TemplatedSpec \union {None}]
    /\ create \in [Creators -> Creation \union {None}]
    /\ faults \in 0 .. MaxFaults
    /\ missed \in SUBSET Resources
    /\ recreated \in SUBSET Resources

Init ==
    /\ template = [k \in Kinds |-> 0]
    /\ watch = "starting"
    /\ events = <<>>
    /\ sync = Waiting
    /\ cr = [r \in Resources |-> None]
    /\ create = [c \in Creators |-> None]
    /\ faults = 0
    /\ missed = {}
    /\ recreated = {}

Fault == faults < MaxFaults /\ faults' = faults + 1

-----------------------------------------------------------------------------
(***************************************************************************)
(* The watch.  It is opened once; a watch that ends is not opened again.   *)
(***************************************************************************)
OpenWatch ==
    /\ watch = "starting"
    /\ watch' = "open"
    /\ UNCHANGED <<template, events, sync, cr, create, faults, missed, recreated>>

OpenWatchFails ==
    /\ watch = "starting"
    /\ Fault
    /\ watch' = "ended"
    /\ UNCHANGED <<template, events, sync, cr, create, missed, recreated>>

\* What it has sent is still delivered.
WatchEnds ==
    /\ watch = "open"
    /\ watch' = "ended"
    /\ UNCHANGED <<template, events, sync, cr, create, faults, missed, recreated>>

\* Somebody upgrades the installation.
ModifyTemplate(k) ==
    /\ template["project"] + template["user tools"] < MaxChanges
    /\ template' = [template EXCEPT ![k] = @ + 1]
    /\ IF watch = "open"
         THEN events' = Append(events, k) /\ UNCHANGED missed
         ELSE missed' = missed \union OfKind(k) /\ UNCHANGED events
    /\ UNCHANGED <<watch, sync, cr, create, faults, recreated>>

-----------------------------------------------------------------------------
(***************************************************************************)
(* The goroutine.                                                          *)
(***************************************************************************)
TakeEvent ==
    /\ sync.at = "waiting"
    /\ events # <<>>
    /\ sync' = [at |-> "template", kind |-> Head(events), crd |-> Plain(0), todo |-> {},
                item |-> None, current |-> FALSE]
    /\ events' = Tail(events)
    /\ UNCHANGED <<template, watch, cr, create, faults, missed, recreated>>

\* GetConfigMap and GetCrdTemplateFromConfigMap: the template of the moment.
ReadTemplate ==
    /\ sync.at = "template"
    /\ sync' = [sync EXCEPT !.at = "list", !.crd = Plain(template[sync.kind])]
    /\ UNCHANGED <<template, watch, events, cr, create, faults, missed, recreated>>

ListResources ==
    /\ sync.at = "list"
    /\ sync' = [sync EXCEPT !.at = "each",
         !.todo = {[resource |-> r, choice |-> cr[r].choice] :
                    r \in {r \in OfKind(sync.kind) : cr[r] # None}}]
    /\ recreated' = {}
    /\ UNCHANGED <<template, watch, events, cr, create, faults, missed>>

SyncFails ==
    /\ sync.at \in {"template", "list"}
    /\ Fault
    /\ sync' = Waiting
    /\ missed' = missed \union OfKind(sync.kind)
    /\ UNCHANGED <<template, watch, events, cr, create, recreated>>

\* Without spec.podLabels.runtimeId or capabilityId the loop goes on to the next tools.
Labelled(i) ==
    i.resource \in Tools => i.choice.runtime # None /\ i.choice.capability # None

\* Mutant: the capability is not validated.
GetAnyResource(i) ==
    /\ sync.at = "each"
    /\ i \in sync.todo
    /\ Labelled(i)
    /\ cr[i.resource] # None
    /\ \E d \in Readings(i.choice) :
        sync' = [sync EXCEPT !.at = "write", !.crd = EditFor(@, i.choice, d),
                             !.todo = @ \ {i}, !.item = i, !.current = TRUE]
    /\ UNCHANGED <<template, watch, events, cr, create, faults, missed, recreated>>

\* The runtime and the capability that the listing named are read, then the resource,
\* then crd is edited; nothing tells the moments of the first two reads apart.
GetResource(i) ==
    /\ sync.at = "each"
    /\ i \in sync.todo
    /\ Labelled(i)
    /\ cr[i.resource] # None
    /\ \E d \in Readings(i.choice) :
        /\ Fit(i.choice, d)
        /\ sync' = [sync EXCEPT !.at = "write", !.crd = EditFor(@, i.choice, d),
                               !.todo = @ \ {i}, !.item = i, !.current = TRUE]
    /\ UNCHANGED <<template, watch, events, cr, create, faults, missed, recreated>>

\* What makes the loop leave a resource out: it lacks a label or is gone, its
\* capability is not valid, or a call fails.
LeftOut(i) ==
    \/ UNCHANGED faults /\ \/ ~Labelled(i)
                           \/ cr[i.resource] = None
                           \/ \E d \in Readings(i.choice) : ~Fit(i.choice, d)
    \/ Fault

\* Mutant: the first resource that is skipped ends the loop.
SkipAll(i) ==
    /\ sync.at = "each"
    /\ i \in sync.todo
    /\ LeftOut(i)
    /\ sync' = [sync EXCEPT !.todo = {}]
    /\ missed' = missed \union {i.resource}
    /\ UNCHANGED <<template, watch, events, cr, create, recreated>>

\* crd stays as it is.
Skip(i) ==
    /\ sync.at = "each"
    /\ i \in sync.todo
    /\ LeftOut(i)
    /\ sync' = [sync EXCEPT !.todo = @ \ {i}]
    /\ missed' = missed \union {i.resource}
    /\ UNCHANGED <<template, watch, events, cr, create, recreated>>

NextItem == sync' = [sync EXCEPT !.at = "each", !.item = None, !.current = FALSE]

\* Mutant: the update is forced on whatever is there.
ForceUpdate ==
    /\ sync.at = "write"
    /\ cr' = [cr EXCEPT ![sync.item.resource] = IF @ = None THEN None ELSE sync.crd]
    /\ NextItem
    /\ UNCHANGED <<template, watch, events, create, faults, missed, recreated>>

UpdateResource ==
    /\ sync.at = "write"
    /\ sync.current
    /\ cr' = [cr EXCEPT ![sync.item.resource] = sync.crd]
    /\ NextItem
    /\ missed' = IF sync.crd.template = template[sync.kind]
                 THEN missed \ {sync.item.resource}
                 ELSE missed \union {r \in {sync.item.resource} : watch # "open"}
    /\ UNCHANGED <<template, watch, events, create, faults, recreated>>

\* A conflict, or a call that fails: the resource keeps what it has, crd its edits.
UpdateFails ==
    /\ sync.at = "write"
    /\ \/ ~sync.current /\ UNCHANGED faults
       \/ Fault
    /\ NextItem
    /\ missed' = missed \union {sync.item.resource}
    /\ UNCHANGED <<template, watch, events, cr, create, recreated>>

SyncEnds ==
    /\ sync.at = "each"
    /\ sync.todo = {}
    /\ sync' = Waiting
    /\ recreated' = {}
    /\ UNCHANGED <<template, watch, events, cr, create, faults, missed>>

-----------------------------------------------------------------------------
(***************************************************************************)
(* The world.                                                              *)
(***************************************************************************)
\* Whoever writes to the resource the goroutine has read makes its version old.
Outdates(r) ==
    sync' = IF sync.item # None /\ sync.item.resource = r
            THEN [sync EXCEPT !.current = FALSE]
            ELSE sync

\* CreateKDLProjectCR and CreateKDLUserToolsCR read the template, and a capability
\* that must be valid, first...
ReadForCreation(c, r, choice) ==
    /\ create[c] = None
    /\ \E d \in Readings(choice) :
        /\ Fit(choice, d)
        /\ create' = [create EXCEPT ![c] =
                        [resource |-> r, spec |-> EditFor(Plain(template[KindOf(r)]), choice, d)]]
    /\ UNCHANGED <<template, watch, events, sync, cr, faults, missed, recreated>>

\* ...and create the resource with them later.
CreateResource(c) ==
    LET r == create[c].resource
        spec == create[c].spec
    IN
    /\ create[c] # None
    /\ cr[r] = None
    /\ cr' = [cr EXCEPT ![r] = spec]
    /\ create' = [create EXCEPT ![c] = None]
    /\ missed' = IF spec.template = template[KindOf(r)] THEN missed \ {r} ELSE missed \union {r}
    /\ recreated' = recreated \union {i.resource : i \in {i \in sync.todo : i.resource = r}}
    /\ Outdates(r)
    /\ UNCHANGED <<template, watch, events, faults>>

\* The resource exists, or a call fails.
CreationFails(c) ==
    /\ create[c] # None
    /\ create' = [create EXCEPT ![c] = None]
    /\ UNCHANGED <<template, watch, events, sync, cr, faults, missed, recreated>>

DeleteResource(r) ==
    /\ cr[r] # None
    /\ cr' = [cr EXCEPT ![r] = None]
    /\ Outdates(r)
    /\ UNCHANGED <<template, watch, events, create, faults, missed, recreated>>

\* An operator writes its status or its finalizer.
OperatorWrites(r) ==
    /\ cr[r] # None
    /\ sync.current
    /\ Outdates(r)
    /\ UNCHANGED <<template, watch, events, cr, create, faults, missed, recreated>>

\* What the goroutine had not finished is not taken up again.
Restart ==
    /\ Fault
    /\ watch' = "starting"
    /\ events' = <<>>
    /\ sync' = Waiting
    /\ create' = [c \in Creators |-> None]
    /\ missed' = missed \union {r \in Resources :
                    \/ \E i \in DOMAIN events : events[i] = KindOf(r)
                    \/ sync.at # "waiting" /\ KindOf(r) = sync.kind}
    /\ UNCHANGED <<template, cr, recreated>>

SyncStep ==
    \/ OpenWatch
    \/ TakeEvent
    \/ ReadTemplate
    \/ ListResources
    \/ \E i \in sync.todo : GetResource(i) \/ Skip(i)
    \/ UpdateResource
    \/ UpdateFails
    \/ SyncEnds

Next ==
    \/ SyncStep
    \/ OpenWatchFails
    \/ WatchEnds
    \/ \E k \in Kinds : ModifyTemplate(k)
    \/ SyncFails
    \/ \E c \in Creators :
        \/ \E r \in Resources : \E choice \in Choices(r) : ReadForCreation(c, r, choice)
        \/ CreateResource(c)
        \/ CreationFails(c)
    \/ \E r \in Resources : DeleteResource(r) \/ OperatorWrites(r)
    \/ Restart

Spec == Init /\ [][Next]_vars

-----------------------------------------------------------------------------
(***************************************************************************)
(* "update all the KDL UserTools in the namespace" (UpdateKDLUserTools): a *)
(* goroutine that has nothing left to do leaves every resource with its    *)
(* template, but for those that were left out or whose update failed, that *)
(* were created from an older one, or that were passed by while nobody     *)
(* watched.  Tools with a runtime and a capability that stays valid are    *)
(* left out only if a call fails or they are deleted meanwhile.            *)
(***************************************************************************)
UpToDate ==
    sync.at = "waiting" /\ events = <<>> =>
        \A r \in Resources \ missed : cr[r] # None => cr[r].template = template[KindOf(r)]

(***************************************************************************)
(* Bringing tools up to date leaves them with the runtime and capability   *)
(* their user chose, although the choice comes from the listing and the    *)
(* resource may have been deleted and created since: the version that the  *)
(* update names keeps it from a resource created after the last read.  It  *)
(* does not help tools that are created again between listing and read.    *)
(***************************************************************************)
ChoiceIsKept ==
    [][\A r \in Resources :
        cr[r] # None /\ cr'[r] # None /\ cr'[r].choice # cr[r].choice => r \in recreated]_vars

(***************************************************************************)
(* Whatever is written into the documents of capabilities, and whenever,   *)
(* no tools get tolerations that the API server would refuse in their pod, *)
(* or that leave something to its defaults, by a start or by an update of  *)
(* any other tools, but for the mistakes that Validate overlooks.          *)
(***************************************************************************)
SchedulableVersions ==
    {d \in DOMAIN Content : \A t \in TolerationsOf(Content[d]) : Schedulable(t) \/ Overlooked(t)}

TolerationsAreSchedulable ==
    \A r \in Resources : cr[r] # None =>
        \A f \in Fields \intersect {"tolerations"} :
            cr[r].field[f] # None => cr[r].field[f].document \in SchedulableVersions

(***************************************************************************)
(* "update the CRD object with correct values" (UpdateKDLUserToolsCR):     *)
(* tools have no field of a capability that is not theirs.                 *)
(***************************************************************************)
NoForeignFields ==
    \A r \in Resources : cr[r] # None =>
        \A f \in Fields :
            cr[r].field[f] # None => cr[r].field[f].capability = cr[r].choice.capability

=============================================================================
