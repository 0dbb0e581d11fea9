-------------------------- MODULE TemplateSyncProofs --------------------------
(***************************************************************************)
(* What the goroutine that brings the resources up to date guarantees for  *)
(* any number of resources, modifications, creations and faults: it passes *)
(* no resource by that it does not lose for a reason UpToDate names, and   *)
(* the tools keep the choice of their user as far as versions can see.     *)
(* And what Validate lets through of the tolerations that tools may get.   *)
(***************************************************************************)
EXTENDS TemplateSync, TLAPS

\* An event of kind k has been reported and not been taken.
Reported(k) == \E i \in DOMAIN events : events[i] = k

\* The watch reports nothing before it is opened.
WatchInv == watch = "starting" => sync.at = "waiting" /\ events = <<>>

\* What the goroutine has listed is of its kind, once each.
TodoInv ==
    sync.at \in {"each", "write"} =>
        /\ \A i \in sync.todo : KindOf(i.resource) = sync.kind
        /\ \A i, j \in sync.todo : i.resource = j.resource => i = j
        /\ sync.at = "write" =>
            /\ sync.item \in Listed
            /\ sync.crd.choice = sync.item.choice
            /\ KindOf(sync.item.resource) = sync.kind
            /\ \A i \in sync.todo : i.resource # sync.item.resource

\* A goroutine that is watched has the template of the moment, or hears of it.
CrdInv ==
    sync.at \in {"list", "each", "write"} /\ watch = "open" =>
        sync.crd.template = template[sync.kind] \/ Reported(sync.kind)

\* The goroutine has resource r before it, with the template of the moment.
Before(r) ==
    /\ sync.kind = KindOf(r)
    /\ \/ sync.at = "template"
       \/ /\ sync.crd.template = template[KindOf(r)]
          /\ \/ sync.at = "list"
             \/ sync.at \in {"each", "write"} /\ \E i \in sync.todo : i.resource = r
             \/ sync.at = "write" /\ sync.item.resource = r

\* A resource that was not passed by has its template, or will get it.
CoveredInv ==
    \A r \in Resources \ missed : cr[r] # None =>
        cr[r].template = template[KindOf(r)] \/ Reported(KindOf(r)) \/ Before(r)

\* What was listed is still the choice, but for what was created again.
ChoiceInv ==
    /\ sync.at \in {"each", "write"} =>
        \A i \in sync.todo : cr[i.resource] # None =>
            cr[i.resource].choice = i.choice \/ i.resource \in recreated
    /\ sync.at = "write" /\ sync.current /\ cr[sync.item.resource] # None =>
        \/ cr[sync.item.resource].choice = sync.item.choice
        \/ sync.item.resource \in recreated

SyncInv == TypeOK /\ WatchInv /\ TodoInv /\ CrdInv /\ CoveredInv /\ ChoiceInv

-----------------------------------------------------------------------------
(***************************************************************************)
(* Types.                                                                  *)
(***************************************************************************)
LEMMA KindType == \A r : KindOf(r) \in Kinds
BY DEF KindOf, Kinds

LEMMA PlainType == \A v \in 0 .. MaxChanges : Plain(v) \in TemplatedSpec
<1> SUFFICES ASSUME NEW v \in 0 .. MaxChanges PROVE Plain(v) \in TemplatedSpec
  OBVIOUS
<1>1. NoChoice \in Choice
  BY DEF NoChoice, Choice
<1>2. None \in Labels
  BY DEF Labels
<1> QED  BY <1>1, <1>2 DEF Plain, TemplatedSpec

LEMMA WaitingType == Waiting \in Sync /\ Waiting.at = "waiting"
BY PlainType, BoundsAssumption DEF Waiting, Sync, Kinds

LEMMA EditType ==
    ASSUME NEW spec \in TemplatedSpec, NEW choice \in Choice, NEW d \in Readings(choice)
    PROVE  /\ EditFor(spec, choice, d) \in TemplatedSpec
           /\ EditFor(spec, choice, d).template = spec.template
           /\ EditFor(spec, choice, d).choice = choice
<1> DEFINE own(f) == choice.capability # None /\ f \in FieldsSetBy(Content[d])
           label == [capability |-> choice.capability, document |-> d]
           field == [f \in Fields |-> IF own(f) THEN label ELSE spec.field[f]]
<1>1. choice.capability # None => label \in Labels
  <2> SUFFICES ASSUME choice.capability # None PROVE label \in Labels
    OBVIOUS
  <2>1. choice.capability \in Capabilities /\ d \in Documents[choice.capability]
    BY DEF Choice, Readings
  <2>2. label \in [capability : {choice.capability}, document : Documents[choice.capability]]
    BY <2>1
  <2> HIDE DEF label
  <2> QED  BY <2>1, <2>2 DEF Labels
<1>2. field \in [Fields -> Labels]
  <2> HIDE DEF label
  <2>1. ASSUME NEW f \in Fields PROVE (IF own(f) THEN label ELSE spec.field[f]) \in Labels
    BY <1>1 DEF TemplatedSpec
  <2> HIDE DEF own
  <2> QED  BY <2>1
<1>3. EditFor(spec, choice, d) = [spec EXCEPT !.choice = choice, !.field = field]
  BY DEF EditFor, TemplatedSpec
<1> HIDE DEF field
<1> QED  BY <1>2, <1>3 DEF TemplatedSpec

LEMMA InitInv == Init => SyncInv
<1> SUFFICES ASSUME Init PROVE SyncInv
  OBVIOUS
<1>1. TypeOK
  BY WaitingType, BoundsAssumption DEF Init, TypeOK
<1>2. sync.at = "waiting"
  BY WaitingType DEF Init
<1> QED
  BY <1>1, <1>2 DEF Init, SyncInv, WatchInv, TodoInv, CrdInv, CoveredInv, ChoiceInv

\* What an event says stays reported until the event is taken.
LEMMA ReportedAppend ==
    ASSUME TypeOK, NEW k \in Kinds, events' = Append(events, k)
    PROVE  Reported(k)' /\ \A l : Reported(l) => Reported(l)'
<1>1. /\ events \in Seq(Kinds) /\ Len(events') = Len(events) + 1
      /\ events'[Len(events) + 1] = k
      /\ \A i \in 1 .. Len(events) : events'[i] = events[i]
      /\ events' \in Seq(Kinds)
  BY DEF TypeOK
<1>2. DOMAIN events' = 1 .. Len(events) + 1 /\ DOMAIN events = 1 .. Len(events)
  BY <1>1
<1> QED  BY <1>1, <1>2 DEF Reported

LEMMA ReportedTail ==
    ASSUME TypeOK, events # <<>>, events' = Tail(events)
    PROVE  \A l : Reported(l) => Reported(l)' \/ l = Head(events)
<1>1. /\ events \in Seq(Kinds) /\ Len(events') = Len(events) - 1 /\ Len(events) > 0
      /\ \A i \in 1 .. Len(events) - 1 : events'[i] = events[i + 1]
      /\ events' \in Seq(Kinds) /\ Head(events) = events[1]
  BY DEF TypeOK
<1> SUFFICES ASSUME NEW l, NEW i \in 1 .. Len(events), events[i] = l, i # 1
             PROVE  Reported(l)'
  BY <1>1 DEF Reported
<1>2. i - 1 \in 1 .. Len(events') /\ events'[i - 1] = events[i]
  <2>1. Len(events) \in Nat /\ i - 1 \in 1 .. Len(events) - 1
    BY <1>1
  <2>2. events'[i - 1] = events[(i - 1) + 1] /\ (i - 1) + 1 = i
    BY <1>1, <2>1
  <2> QED  BY <1>1, <2>1, <2>2
<1>3. DOMAIN events' = 1 .. Len(events')
  BY <1>1
<1> QED  BY <1>2, <1>3 DEF Reported

-----------------------------------------------------------------------------
(***************************************************************************)
(* The watch, and the modifications of the templates.                      *)
(***************************************************************************)
\* Steps that neither the goroutine nor the resources notice.
LEMMA UnseenInv ==
    ASSUME SyncInv, UNCHANGED <<template, events, sync, cr, missed, recreated>>,
           watch' \in {"starting", "open", "ended"},
           watch' = "starting" => watch = "starting",
           watch' = "open" => watch \in {"starting", "open"},
           create' \in [Creators -> Creation \union {None}], faults' \in 0 .. MaxFaults
    PROVE  SyncInv'
<1>1. TypeOK'
  BY DEF SyncInv, TypeOK
<1>2. WatchInv' /\ TodoInv' /\ ChoiceInv'
  BY DEF SyncInv, WatchInv, TodoInv, ChoiceInv
<1>3. CrdInv'
  BY DEF SyncInv, WatchInv, CrdInv, Reported
<1>4. CoveredInv'
  BY DEF SyncInv, CoveredInv, Reported, Before
<1> QED  BY <1>1, <1>2, <1>3, <1>4 DEF SyncInv

LEMMA FaultType == TypeOK /\ Fault => faults' \in 0 .. MaxFaults
BY BoundsAssumption DEF TypeOK, Fault

LEMMA WatchStepInv ==
    ASSUME SyncInv, OpenWatch \/ OpenWatchFails \/ WatchEnds
    PROVE  SyncInv'
<1>1. TypeOK /\ create \in [Creators -> Creation \union {None}] /\ faults \in 0 .. MaxFaults
  BY DEF SyncInv, TypeOK
<1>2. CASE OpenWatch
  BY <1>1, <1>2, UnseenInv DEF OpenWatch
<1>3. CASE OpenWatchFails
  BY <1>1, <1>3, FaultType, UnseenInv DEF OpenWatchFails
<1>4. CASE WatchEnds
  BY <1>1, <1>4, UnseenInv DEF WatchEnds
<1> QED  BY <1>2, <1>3, <1>4

LEMMA ModifyInv ==
    ASSUME SyncInv, NEW k \in Kinds, ModifyTemplate(k)
    PROVE  SyncInv'
<1>1. TypeOK
  BY DEF SyncInv
<1>2. /\ UNCHANGED <<watch, sync, cr, create, faults, recreated>>
      /\ missed \subseteq missed' /\ missed' \in SUBSET Resources
      /\ \A l \in Kinds : l # k => template'[l] = template[l]
      /\ \A l : Reported(l) => Reported(l)'
      /\ watch = "open" => Reported(k)'
      /\ watch # "open" => OfKind(k) \subseteq missed' /\ events' = events
      /\ events' \in Seq(Kinds)
  <2>1. CASE watch = "open"
    <3>1. /\ events' = Append(events, k)
          /\ UNCHANGED <<watch, sync, cr, create, faults, missed, recreated>>
      BY <2>1 DEF ModifyTemplate
    <3>2. Reported(k)' /\ \A l : Reported(l) => Reported(l)'
      BY <1>1, <3>1, ReportedAppend
    <3>3. \A l \in Kinds : l # k => template'[l] = template[l]
      BY <1>1 DEF ModifyTemplate, TypeOK
    <3> QED  BY <1>1, <2>1, <3>1, <3>2, <3>3 DEF TypeOK
  <2>2. CASE watch # "open"
    BY <1>1, <2>2 DEF ModifyTemplate, TypeOK, OfKind, Reported
  <2> QED  BY <2>1, <2>2
<1>3. template' \in [Kinds -> 0 .. MaxChanges]
  <2>1. template["project"] \in Nat /\ template["user tools"] \in Nat
    <3>1. \A l \in Kinds : template[l] \in Nat
      BY <1>1, BoundsAssumption DEF TypeOK
    <3>2. "project" \in Kinds /\ "user tools" \in Kinds
      BY DEF Kinds
    <3> QED  BY <3>1, <3>2
  <2>2. template[k] + 1 \in 0 .. MaxChanges
    <3>0. \A m, n, max \in Nat : m + n < max => m + 1 \in 0 .. max /\ n + 1 \in 0 .. max
      OBVIOUS
    <3>1. template["project"] + template["user tools"] < MaxChanges
      BY DEF ModifyTemplate
    <3>2. /\ template["project"] + 1 \in 0 .. MaxChanges
          /\ template["user tools"] + 1 \in 0 .. MaxChanges
      BY <2>1, <3>0, <3>1, BoundsAssumption
    <3>3. k = "project" \/ k = "user tools"
      BY DEF Kinds
    <3> QED  BY <3>2, <3>3
  <2> QED  BY <1>1, <2>2 DEF ModifyTemplate, TypeOK
<1>4. TypeOK'
  BY <1>1, <1>2, <1>3 DEF TypeOK
<1>5. WatchInv' /\ TodoInv' /\ ChoiceInv'
  BY <1>2 DEF SyncInv, WatchInv, TodoInv, ChoiceInv
<1>6. CrdInv'
  BY <1>1, <1>2 DEF SyncInv, CrdInv, TypeOK, Sync
<1>7. CoveredInv'
  <2> SUFFICES ASSUME NEW r \in Resources \ missed', cr[r] # None
               PROVE  \/ cr[r].template = template'[KindOf(r)]
                      \/ Reported(KindOf(r))' \/ Before(r)'
    BY <1>2 DEF CoveredInv
  <2>1. \/ cr[r].template = template[KindOf(r)] \/ Reported(KindOf(r)) \/ Before(r)
    BY <1>2 DEF SyncInv, CoveredInv
  <2>2. CASE KindOf(r) = k
    BY <1>2, <2>2 DEF OfKind
  <2>3. CASE KindOf(r) # k
    BY <1>2, <2>1, <2>3, KindType DEF Before
  <2> QED  BY <2>2, <2>3
<1> QED  BY <1>4, <1>5, <1>6, <1>7 DEF SyncInv

-----------------------------------------------------------------------------
(***************************************************************************)
(* The goroutine.                                                          *)
(***************************************************************************)
LEMMA TakeEventInv == SyncInv /\ TakeEvent => SyncInv'
<1> SUFFICES ASSUME SyncInv, TakeEvent PROVE SyncInv'
  OBVIOUS
<1> DEFINE s == [at |-> "template", kind |-> Head(events), crd |-> Plain(0), todo |-> {},
                 item |-> None, current |-> FALSE]
<1>1. /\ TypeOK /\ sync.at = "waiting" /\ events # <<>> /\ sync' = s
      /\ events' = Tail(events)
      /\ UNCHANGED <<template, watch, cr, create, faults, missed, recreated>>
  BY DEF TakeEvent, SyncInv
<1>2. Head(events) \in Kinds /\ Tail(events) \in Seq(Kinds)
  BY <1>1 DEF TypeOK
<1>3. s \in Sync /\ s.at = "template" /\ s.kind = Head(events)
  BY <1>2, PlainType, BoundsAssumption DEF Sync
<1> HIDE DEF s
<1>4. TypeOK'
  BY <1>1, <1>2, <1>3 DEF TypeOK
<1>5. WatchInv' /\ TodoInv' /\ ChoiceInv' /\ CrdInv'
  BY <1>1, <1>3 DEF SyncInv, WatchInv, TodoInv, ChoiceInv, CrdInv
<1>6. CoveredInv'
  <2>1. \A l : Reported(l) => Reported(l)' \/ l = Head(events)
    BY <1>1, ReportedTail
  <2>2. \A r : ~Before(r)
    BY <1>1 DEF Before
  <2>3. \A r : KindOf(r) = Head(events) => Before(r)'
    BY <1>1, <1>3 DEF Before
  <2> QED  BY <1>1, <2>1, <2>2, <2>3 DEF SyncInv, CoveredInv
<1> QED  BY <1>4, <1>5, <1>6 DEF SyncInv

LEMMA ReadTemplateInv == SyncInv /\ ReadTemplate => SyncInv'
<1> SUFFICES ASSUME SyncInv, ReadTemplate PROVE SyncInv'
  OBVIOUS
<1> DEFINE s == [sync EXCEPT !.at = "list", !.crd = Plain(template[sync.kind])]
<1>1. /\ TypeOK /\ sync.at = "template" /\ sync' = s /\ sync \in Sync
      /\ UNCHANGED <<template, watch, events, cr, create, faults, missed, recreated>>
  BY DEF ReadTemplate, SyncInv, TypeOK
<1>2. Plain(template[sync.kind]) \in TemplatedSpec
  BY <1>1, PlainType DEF TypeOK, Sync
<1>3. /\ s \in Sync /\ s.at = "list" /\ s.kind = sync.kind
      /\ s.crd.template = template[sync.kind]
  BY <1>1, <1>2 DEF Sync, Plain
<1> HIDE DEF s
<1>4. TypeOK'
  BY <1>1, <1>3 DEF TypeOK
<1>5. WatchInv' /\ TodoInv' /\ ChoiceInv' /\ CrdInv'
  BY <1>1, <1>3 DEF SyncInv, WatchInv, TodoInv, ChoiceInv, CrdInv
<1>6. CoveredInv'
  <2>1. \A r : Before(r) => Before(r)'
    BY <1>1, <1>3 DEF Before
  <2> QED  BY <1>1, <2>1 DEF SyncInv, CoveredInv, Reported
<1> QED  BY <1>4, <1>5, <1>6 DEF SyncInv

LEMMA ListInv == SyncInv /\ ListResources => SyncInv'
<1> SUFFICES ASSUME SyncInv, ListResources PROVE SyncInv'
  OBVIOUS
<1> DEFINE there == {r \in OfKind(sync.kind) : cr[r] # None}
           todo == {[resource |-> r, choice |-> cr[r].choice] : r \in there}
           s == [sync EXCEPT !.at = "each", !.todo = todo]
<1>1. /\ TypeOK /\ sync.at = "list" /\ sync' = s /\ sync \in Sync /\ recreated' = {}
      /\ UNCHANGED <<template, watch, events, cr, create, faults, missed>>
  BY DEF ListResources, SyncInv, TypeOK
<1>2. \A r \in there : r \in Resources /\ KindOf(r) = sync.kind /\ cr[r] \in TemplatedSpec
  BY <1>1 DEF TypeOK, OfKind
<1>3. \A i \in todo : /\ i \in Listed /\ i.resource \in there
                      /\ i.choice = cr[i.resource].choice
  <2> SUFFICES ASSUME NEW r \in there
               PROVE  [resource |-> r, choice |-> cr[r].choice] \in Listed
    OBVIOUS
  <2> QED  BY <1>2 DEF Listed, TemplatedSpec
<1>4. ASSUME NEW r \in there PROVE \E i \in todo : i.resource = r
  <2>1. [resource |-> r, choice |-> cr[r].choice] \in todo
    OBVIOUS
  <2> HIDE DEF todo
  <2> QED  BY <2>1
<1>5. \A i, j \in todo : i.resource = j.resource => i = j
  OBVIOUS
<1> HIDE DEF todo
<1>6. /\ s \in Sync /\ s.at = "each" /\ s.kind = sync.kind /\ s.todo = todo
      /\ s.crd = sync.crd
  <2>1. todo \in SUBSET Listed
    BY <1>3
  <2> QED  BY <1>1, <2>1 DEF Sync
<1> HIDE DEF s
<1>7. TypeOK'
  BY <1>1, <1>6 DEF TypeOK
<1>8. WatchInv' /\ CrdInv'
  BY <1>1, <1>6 DEF SyncInv, WatchInv, CrdInv, Reported
<1>9. TodoInv'
  BY <1>1, <1>2, <1>3, <1>5, <1>6 DEF TodoInv
<1>10. ChoiceInv'
  BY <1>1, <1>3, <1>6 DEF ChoiceInv
<1>11. CoveredInv'
  <2> SUFFICES ASSUME NEW r \in Resources \ missed, cr[r] # None, Before(r)
               PROVE  Before(r)'
    BY <1>1 DEF SyncInv, CoveredInv, Reported
  <2>1. r \in there
    BY DEF Before, OfKind
  <2> QED  BY <1>1, <1>4, <1>6, <2>1 DEF Before
<1> QED  BY <1>7, <1>8, <1>9, <1>10, <1>11 DEF SyncInv

LEMMA SyncFailsInv == SyncInv /\ SyncFails => SyncInv'
<1> SUFFICES ASSUME SyncInv, SyncFails PROVE SyncInv'
  OBVIOUS
<1>1. /\ TypeOK /\ sync' = Waiting /\ missed' = missed \union OfKind(sync.kind)
      /\ UNCHANGED <<template, watch, events, cr, create, recreated>>
      /\ faults' \in 0 .. MaxFaults
  BY FaultType DEF SyncFails, SyncInv
<1>2. TypeOK'
  BY <1>1, WaitingType DEF TypeOK, OfKind
<1>3. WatchInv' /\ TodoInv' /\ ChoiceInv' /\ CrdInv'
  BY <1>1, WaitingType DEF SyncInv, WatchInv, SyncFails, TodoInv, ChoiceInv, CrdInv
<1>4. CoveredInv'
  BY <1>1 DEF SyncInv, CoveredInv, Reported, Before, OfKind
<1> QED  BY <1>2, <1>3, <1>4 DEF SyncInv

LEMMA GetInv ==
    ASSUME SyncInv, NEW i \in Listed, GetResource(i)
    PROVE  SyncInv'
<1>1. PICK d \in Readings(i.choice) :
        sync' = [sync EXCEPT !.at = "write", !.crd = EditFor(@, i.choice, d),
                             !.todo = @ \ {i}, !.item = i, !.current = TRUE]
  BY DEF GetResource
<1> DEFINE crd == EditFor(sync.crd, i.choice, d)
<1>2. /\ TypeOK /\ sync.at = "each" /\ sync \in Sync /\ i \in sync.todo
      /\ UNCHANGED <<template, watch, events, cr, create, faults, missed, recreated>>
  BY DEF GetResource, SyncInv, TypeOK
<1>3. crd \in TemplatedSpec /\ crd.template = sync.crd.template /\ crd.choice = i.choice
  BY <1>2, EditType DEF Sync, Listed
<1> HIDE DEF crd
<1>4. sync' = [sync EXCEPT !.at = "write", !.crd = crd, !.todo = @ \ {i}, !.item = i,
                           !.current = TRUE]
  BY <1>1, <1>2 DEF crd, Sync
<1>5. /\ sync' \in Sync /\ sync'.at = "write" /\ sync'.kind = sync.kind
      /\ sync'.todo = sync.todo \ {i} /\ sync'.crd = crd /\ sync'.item = i
  BY <1>2, <1>3, <1>4 DEF Sync
<1>6. TypeOK'
  BY <1>2, <1>5 DEF TypeOK
<1>7. WatchInv' /\ CrdInv'
  BY <1>2, <1>3, <1>5 DEF SyncInv, WatchInv, CrdInv, Reported
<1>8. TodoInv'
  BY <1>2, <1>3, <1>5 DEF SyncInv, TodoInv
<1>9. ChoiceInv'
  BY <1>2, <1>5 DEF SyncInv, ChoiceInv
<1>10. CoveredInv'
  <2>1. \A r : Before(r) => Before(r)'
    BY <1>2, <1>3, <1>5 DEF Before
  <2> QED  BY <1>2, <2>1 DEF SyncInv, CoveredInv, Reported
<1> QED  BY <1>6, <1>7, <1>8, <1>9, <1>10 DEF SyncInv

LEMMA SkipInv ==
    ASSUME SyncInv, NEW i \in Listed, Skip(i)
    PROVE  SyncInv'
<1> DEFINE s == [sync EXCEPT !.todo = @ \ {i}]
<1>1. /\ TypeOK /\ sync.at = "each" /\ sync' = s /\ sync \in Sync /\ i \in sync.todo
      /\ missed' = missed \union {i.resource}
      /\ UNCHANGED <<template, watch, events, cr, create, recreated>>
      /\ faults' \in 0 .. MaxFaults
  BY FaultType DEF Skip, LeftOut, SyncInv, TypeOK
<1>2. /\ s \in Sync /\ s.at = "each" /\ s.kind = sync.kind /\ s.todo = sync.todo \ {i}
      /\ s.crd = sync.crd
  BY <1>1 DEF Sync
<1> HIDE DEF s
<1>3. TypeOK'
  BY <1>1, <1>2 DEF TypeOK, Listed
<1>4. WatchInv' /\ CrdInv'
  BY <1>1, <1>2 DEF SyncInv, WatchInv, CrdInv, Reported
<1>5. TodoInv' /\ ChoiceInv'
  BY <1>1, <1>2 DEF SyncInv, TodoInv, ChoiceInv
<1>6. CoveredInv'
  <2>1. \A r : r # i.resource /\ Before(r) => Before(r)'
    BY <1>1, <1>2 DEF Before
  <2> QED  BY <1>1, <2>1 DEF SyncInv, CoveredInv, Reported
<1> QED  BY <1>3, <1>4, <1>5, <1>6 DEF SyncInv

\* What is the same whether the update of a resource succeeds or not.
LEMMA NextItemStep ==
    ASSUME SyncInv, sync.at = "write", NextItem
    PROVE  /\ sync.crd \in TemplatedSpec /\ sync.crd.choice = sync.item.choice
           /\ sync' \in Sync /\ sync'.at = "each" /\ sync'.kind = sync.kind
           /\ sync'.todo = sync.todo /\ sync'.crd = sync.crd
           /\ sync.item.resource \in Resources
           /\ \A r : r # sync.item.resource /\ Before(r) /\ UNCHANGED template => Before(r)'
<1>1. sync \in Sync /\ sync.item \in Listed /\ sync.crd.choice = sync.item.choice
  BY DEF SyncInv, TypeOK, TodoInv
<1>2. sync.item.resource \in Resources /\ sync.crd \in TemplatedSpec
  BY <1>1 DEF Listed, Sync
<1>3. /\ sync' \in Sync /\ sync'.at = "each" /\ sync'.kind = sync.kind
      /\ sync'.todo = sync.todo /\ sync'.crd = sync.crd
  BY <1>1 DEF NextItem, Sync
<1>4. \A r : r # sync.item.resource /\ Before(r) /\ UNCHANGED template => Before(r)'
  BY <1>3 DEF Before
<1> QED  BY <1>1, <1>2, <1>3, <1>4

LEMMA UpdateInv == SyncInv /\ UpdateResource => SyncInv'
<1> SUFFICES ASSUME SyncInv, UpdateResource PROVE SyncInv'
  OBVIOUS
<1> DEFINE t == sync.item.resource
           crd == sync.crd
<1>1. /\ TypeOK /\ sync.at = "write" /\ NextItem /\ sync.current
      /\ cr' = [cr EXCEPT ![t] = crd]
      /\ missed' = IF crd.template = template[sync.kind]
                   THEN missed \ {t} ELSE missed \union {r \in {t} : watch # "open"}
      /\ UNCHANGED <<template, watch, events, create, faults, recreated>>
  BY DEF UpdateResource, SyncInv
<1>2. /\ crd \in TemplatedSpec /\ crd.choice = sync.item.choice
      /\ sync' \in Sync /\ sync'.at = "each" /\ sync'.kind = sync.kind
      /\ sync'.todo = sync.todo /\ sync'.crd = crd /\ t \in Resources
      /\ \A r : r # t /\ Before(r) => Before(r)'
  BY <1>1, NextItemStep
<1>3. /\ cr' \in [Resources -> TemplatedSpec \union {None}] /\ cr'[t] = crd
      /\ \A r \in Resources : r # t => cr'[r] = cr[r]
  BY <1>1, <1>2 DEF TypeOK
<1>4. TypeOK'
  BY <1>1, <1>2, <1>3 DEF TypeOK
<1>5. WatchInv' /\ CrdInv'
  BY <1>1, <1>2 DEF SyncInv, WatchInv, CrdInv, Reported
<1>6. TodoInv'
  BY <1>1, <1>2 DEF SyncInv, TodoInv
<1>7. ChoiceInv'
  <2> SUFFICES ASSUME NEW i \in sync.todo, cr'[i.resource] # None
               PROVE  cr'[i.resource].choice = i.choice \/ i.resource \in recreated
    BY <1>1, <1>2 DEF ChoiceInv
  <2>1. i.resource # t /\ i.resource \in Resources
    BY <1>1 DEF SyncInv, TodoInv, TypeOK, Sync, Listed
  <2>2. cr'[i.resource] = cr[i.resource]
    BY <1>3, <2>1
  <2> QED  BY <1>1, <2>2 DEF SyncInv, ChoiceInv
<1>8. CoveredInv'
  <2> SUFFICES ASSUME NEW r \in Resources \ missed', cr'[r] # None
               PROVE  cr'[r].template = template[KindOf(r)] \/ Reported(KindOf(r)) \/ Before(r)'
    BY <1>1 DEF CoveredInv, Reported
  <2>1. CASE r = t
    <3>1. KindOf(r) = sync.kind
      BY <1>1, <2>1 DEF SyncInv, TodoInv
    <3>2. crd.template = template[sync.kind] \/ watch = "open"
      BY <1>1, <2>1
    <3> QED  BY <1>1, <1>2, <1>3, <2>1, <3>1, <3>2 DEF SyncInv, CrdInv
  <2>2. CASE r # t
    <3>1. r \notin missed
      BY <1>1, <2>2
    <3> QED  BY <1>2, <1>3, <2>2, <3>1 DEF SyncInv, CoveredInv
  <2> QED  BY <2>1, <2>2
<1> QED  BY <1>4, <1>5, <1>6, <1>7, <1>8 DEF SyncInv

LEMMA UpdateFailsInv == SyncInv /\ UpdateFails => SyncInv'
<1> SUFFICES ASSUME SyncInv, UpdateFails PROVE SyncInv'
  OBVIOUS
<1> DEFINE t == sync.item.resource
<1>1. /\ TypeOK /\ sync.at = "write" /\ NextItem /\ missed' = missed \union {t}
      /\ UNCHANGED <<template, watch, events, cr, create, recreated>>
      /\ faults' \in 0 .. MaxFaults
  BY FaultType DEF UpdateFails, SyncInv, TypeOK
<1>2. /\ sync' \in Sync /\ sync'.at = "each" /\ sync'.kind = sync.kind
      /\ sync'.todo = sync.todo /\ sync'.crd = sync.crd /\ t \in Resources
      /\ \A r : r # t /\ Before(r) => Before(r)'
  BY <1>1, NextItemStep
<1>3. TypeOK'
  BY <1>1, <1>2 DEF TypeOK
<1>4. WatchInv' /\ CrdInv'
  BY <1>1, <1>2 DEF SyncInv, WatchInv, CrdInv, Reported
<1>5. TodoInv' /\ ChoiceInv'
  BY <1>1, <1>2 DEF SyncInv, TodoInv, ChoiceInv
<1>6. CoveredInv'
  BY <1>1, <1>2 DEF SyncInv, CoveredInv, Reported
<1> QED  BY <1>3, <1>4, <1>5, <1>6 DEF SyncInv

LEMMA SyncEndsInv == SyncInv /\ SyncEnds => SyncInv'
<1> SUFFICES ASSUME SyncInv, SyncEnds PROVE SyncInv'
  OBVIOUS
<1>1. /\ TypeOK /\ sync.at = "each" /\ sync.todo = {} /\ sync' = Waiting /\ recreated' = {}
      /\ UNCHANGED <<template, watch, events, cr, create, faults, missed>>
  BY DEF SyncEnds, SyncInv
<1>2. TypeOK'
  BY <1>1, WaitingType DEF TypeOK
<1>3. WatchInv' /\ TodoInv' /\ ChoiceInv' /\ CrdInv'
  BY <1>1, WaitingType DEF SyncInv, WatchInv, TodoInv, ChoiceInv, CrdInv
<1>4. CoveredInv'
  BY <1>1 DEF SyncInv, CoveredInv, Reported, Before
<1> QED  BY <1>2, <1>3, <1>4 DEF SyncInv

-----------------------------------------------------------------------------
(***************************************************************************)
(* The world.                                                              *)
(***************************************************************************)
LEMMA CreationInv ==
    ASSUME SyncInv, NEW c \in Creators,
           CreationFails(c)
           \/ \E r \in Resources : \E choice \in Choices(r) : ReadForCreation(c, r, choice)
    PROVE  SyncInv'
<1>1. TypeOK /\ faults \in 0 .. MaxFaults /\ watch \in {"starting", "open", "ended"}
  BY DEF SyncInv, TypeOK
<1>2. CASE CreationFails(c)
  <2>1. create' \in [Creators -> Creation \union {None}]
    BY <1>1, <1>2 DEF CreationFails, TypeOK
  <2> QED  BY <1>1, <1>2, <2>1, UnseenInv DEF CreationFails
<1>3. ASSUME NEW r \in Resources, NEW choice \in Choices(r), ReadForCreation(c, r, choice)
      PROVE  SyncInv'
  <2>1. PICK d \in Readings(choice) :
          create' = [create EXCEPT ![c] =
              [resource |-> r, spec |-> EditFor(Plain(template[KindOf(r)]), choice, d)]]
    BY <1>3 DEF ReadForCreation
  <2>2. choice \in Choice
    BY StartsAssumption DEF Choices, Choice, NoChoice
  <2>3. EditFor(Plain(template[KindOf(r)]), choice, d) \in TemplatedSpec
    BY <1>1, <2>2, KindType, PlainType, EditType DEF TypeOK
  <2>4. create' \in [Creators -> Creation \union {None}]
    BY <1>1, <2>1, <2>3 DEF Creation, TypeOK
  <2> QED  BY <1>1, <1>3, <2>4, UnseenInv DEF ReadForCreation
<1> QED  BY <1>2, <1>3

\* A write to resource r is seen only by an update that is about to name its version.
LEMMA OutdatesStep ==
    ASSUME SyncInv, NEW r \in Resources, Outdates(r)
    PROVE  /\ sync' \in Sync /\ sync'.at = sync.at /\ sync'.kind = sync.kind
           /\ sync'.todo = sync.todo /\ sync'.crd = sync.crd /\ sync'.item = sync.item
           /\ sync'.current => sync.current
           /\ sync'.current /\ sync.at = "write" => sync.item.resource # r
           /\ \A q : UNCHANGED template /\ Before(q) => Before(q)'
<1>1. sync \in Sync
  BY DEF SyncInv, TypeOK
<1>2. CASE sync.item # None /\ sync.item.resource = r
  <2>1. sync' = [sync EXCEPT !.current = FALSE]
    BY <1>2 DEF Outdates
  <2>2. /\ sync' \in Sync /\ sync'.at = sync.at /\ sync'.kind = sync.kind
        /\ sync'.todo = sync.todo /\ sync'.crd = sync.crd /\ sync'.item = sync.item
        /\ ~sync'.current
    BY <1>1, <2>1 DEF Sync
  <2> QED  BY <2>2 DEF Before
<1>3. CASE ~(sync.item # None /\ sync.item.resource = r)
  <2>1. sync' = sync
    BY <1>3 DEF Outdates
  <2>2. sync.at = "write" => sync.item # None
    BY NoneAssumption DEF SyncInv, TodoInv
  <2> QED  BY <1>1, <1>3, <2>1, <2>2 DEF Before
<1> QED  BY <1>2, <1>3

LEMMA CreateInv ==
    ASSUME SyncInv, NEW c \in Creators, CreateResource(c)
    PROVE  SyncInv'
<1> DEFINE r == create[c].resource
           spec == create[c].spec
<1>1. /\ TypeOK /\ create[c] # None /\ cr[r] = None
      /\ cr' = [cr EXCEPT ![r] = spec] /\ create' = [create EXCEPT ![c] = None]
      /\ missed' = IF spec.template = template[KindOf(r)]
                   THEN missed \ {r} ELSE missed \union {r}
      /\ recreated' = recreated \union {i.resource : i \in {i \in sync.todo : i.resource = r}}
      /\ Outdates(r) /\ UNCHANGED <<template, watch, events, faults>>
  BY DEF CreateResource, SyncInv
<1>2. create[c] \in Creation
  BY <1>1 DEF TypeOK
<1>3. r \in Resources /\ spec \in TemplatedSpec
  BY <1>2 DEF Creation
<1> HIDE DEF spec
<1>4. /\ sync' \in Sync /\ sync'.at = sync.at /\ sync'.kind = sync.kind
      /\ sync'.todo = sync.todo /\ sync'.crd = sync.crd /\ sync'.item = sync.item
      /\ sync'.current => sync.current
      /\ sync'.current /\ sync.at = "write" => sync.item.resource # r
      /\ \A q : Before(q) => Before(q)'
  BY <1>1, <1>3, OutdatesStep
<1>5. /\ cr' \in [Resources -> TemplatedSpec \union {None}] /\ cr'[r] = spec
      /\ \A q \in Resources : q # r => cr'[q] = cr[q]
  BY <1>1, <1>3 DEF TypeOK
<1>6. TypeOK'
  <2>1. create' \in [Creators -> Creation \union {None}]
    BY <1>1 DEF TypeOK
  <2>2. recreated' \in SUBSET Resources /\ missed' \in SUBSET Resources
    BY <1>1, <1>3 DEF TypeOK
  <2> QED  BY <1>1, <1>4, <1>5, <2>1, <2>2 DEF TypeOK
<1>7. WatchInv' /\ CrdInv'
  BY <1>1, <1>4 DEF SyncInv, WatchInv, CrdInv, Reported
<1>8. TodoInv'
  BY <1>1, <1>4 DEF SyncInv, TodoInv
<1>9. \A i \in sync.todo : i.resource \in Resources
  BY <1>1 DEF TypeOK, Sync, Listed
<1>10. ChoiceInv'
  <2>1. ASSUME NEW i \in sync.todo, sync.at \in {"each", "write"}, cr'[i.resource] # None
        PROVE  cr'[i.resource].choice = i.choice \/ i.resource \in recreated'
    <3>1. CASE i.resource = r
      BY <1>1, <3>1
    <3>2. CASE i.resource # r
      BY <1>1, <1>5, <1>9, <2>1, <3>2 DEF SyncInv, ChoiceInv
    <3> QED  BY <3>1, <3>2
  <2>2. ASSUME sync.at = "write", sync'.current, cr'[sync.item.resource] # None
        PROVE  \/ cr'[sync.item.resource].choice = sync.item.choice
               \/ sync.item.resource \in recreated'
    <3>1. sync.item.resource # r /\ sync.item.resource \in Resources
      BY <1>4, <2>2 DEF SyncInv, TodoInv, Listed
    <3>2. cr'[sync.item.resource] = cr[sync.item.resource]
      BY <1>5, <3>1
    <3>3. recreated \subseteq recreated'
      BY <1>1
    <3> QED  BY <1>4, <2>2, <3>2, <3>3 DEF SyncInv, ChoiceInv
  <2> QED  BY <1>4, <2>1, <2>2 DEF ChoiceInv
<1>11. CoveredInv'
  <2> SUFFICES ASSUME NEW q \in Resources \ missed', cr'[q] # None
               PROVE  cr'[q].template = template[KindOf(q)] \/ Reported(KindOf(q)) \/ Before(q)'
    BY <1>1 DEF CoveredInv, Reported
  <2>1. CASE q = r
    BY <1>1, <1>3, <1>5, <2>1
  <2>2. CASE q # r
    <3>1. q \notin missed /\ cr'[q] = cr[q]
      BY <1>1, <1>5, <2>2
    <3> QED  BY <1>4, <3>1 DEF SyncInv, CoveredInv
  <2> QED  BY <2>1, <2>2
<1> QED  BY <1>6, <1>7, <1>8, <1>10, <1>11 DEF SyncInv

LEMMA DeleteInv ==
    ASSUME SyncInv, NEW r \in Resources, DeleteResource(r) \/ OperatorWrites(r)
    PROVE  SyncInv'
<1>1. /\ TypeOK /\ Outdates(r)
      /\ cr' \in [Resources -> TemplatedSpec \union {None}]
      /\ \A q \in Resources : cr'[q] = cr[q] \/ cr'[q] = None
      /\ UNCHANGED <<template, watch, events, create, faults, missed, recreated>>
  BY DEF DeleteResource, OperatorWrites, SyncInv, TypeOK
<1>2. /\ sync' \in Sync /\ sync'.at = sync.at /\ sync'.kind = sync.kind
      /\ sync'.todo = sync.todo /\ sync'.crd = sync.crd /\ sync'.item = sync.item
      /\ sync'.current => sync.current
      /\ \A q : Before(q) => Before(q)'
  BY <1>1, OutdatesStep
<1>3. TypeOK'
  BY <1>1, <1>2 DEF TypeOK
<1>4. WatchInv' /\ CrdInv'
  BY <1>1, <1>2 DEF SyncInv, WatchInv, CrdInv, Reported
<1>5. TodoInv'
  BY <1>1, <1>2 DEF SyncInv, TodoInv
<1>6. ChoiceInv'
  <2>1. \A i \in sync.todo : i.resource \in Resources
    BY <1>1 DEF TypeOK, Sync, Listed
  <2>2. sync.at = "write" => sync.item.resource \in Resources
    BY DEF SyncInv, TodoInv, Listed
  <2> QED  BY <1>1, <1>2, <2>1, <2>2 DEF SyncInv, ChoiceInv
<1>7. CoveredInv'
  BY <1>1, <1>2 DEF SyncInv, CoveredInv, Reported
<1> QED  BY <1>3, <1>4, <1>5, <1>6, <1>7 DEF SyncInv

LEMMA RestartInv == SyncInv /\ Restart => SyncInv'
<1> SUFFICES ASSUME SyncInv, Restart PROVE SyncInv'
  OBVIOUS
<1>1. /\ TypeOK /\ watch' = "starting" /\ events' = <<>> /\ sync' = Waiting
      /\ create' = [c \in Creators |-> None]
      /\ missed' = missed \union {r \in Resources :
                        \/ \E i \in DOMAIN events : events[i] = KindOf(r)
                        \/ sync.at # "waiting" /\ KindOf(r) = sync.kind}
      /\ UNCHANGED <<template, cr, recreated>> /\ faults' \in 0 .. MaxFaults
  BY FaultType DEF Restart, SyncInv
<1>2. TypeOK'
  BY <1>1, WaitingType DEF TypeOK
<1>3. WatchInv' /\ TodoInv' /\ ChoiceInv' /\ CrdInv'
  BY <1>1, WaitingType DEF WatchInv, TodoInv, ChoiceInv, CrdInv
<1>4. CoveredInv'
  BY <1>1 DEF SyncInv, CoveredInv, Reported, Before
<1> QED  BY <1>2, <1>3, <1>4 DEF SyncInv

LEMMA StepInv == SyncInv /\ [Next]_vars => SyncInv'
<1> SUFFICES ASSUME SyncInv, [Next]_vars PROVE SyncInv'
  OBVIOUS
<1>1. CASE UNCHANGED vars
  <2>1. /\ create' \in [Creators -> Creation \union {None}] /\ faults' \in 0 .. MaxFaults
        /\ watch' \in {"starting", "open", "ended"}
    BY <1>1 DEF SyncInv, TypeOK, vars
  <2> QED  BY <1>1, <2>1, UnseenInv DEF vars
<1>2. CASE SyncStep
  <2>1. \A i \in sync.todo : i \in Listed
    BY DEF SyncInv, TypeOK, Sync
  <2> QED
  BY <1>2, <2>1, WatchStepInv, TakeEventInv, ReadTemplateInv, ListInv, GetInv, SkipInv, UpdateInv,
     UpdateFailsInv, SyncEndsInv
  DEF SyncStep
<1>3. CASE OpenWatchFails \/ WatchEnds \/ SyncFails \/ Restart
           \/ \E k \in Kinds : ModifyTemplate(k)
  BY <1>3, WatchStepInv, SyncFailsInv, RestartInv, ModifyInv
<1>4. ASSUME NEW c \in Creators,
             \/ \E r \in Resources : \E choice \in Choices(r) : ReadForCreation(c, r, choice)
             \/ CreateResource(c)
             \/ CreationFails(c)
      PROVE  SyncInv'
  BY <1>4, CreationInv, CreateInv
<1>5. ASSUME NEW r \in Resources, DeleteResource(r) \/ OperatorWrites(r)
      PROVE  SyncInv'
  BY <1>5, DeleteInv
<1> QED  BY <1>1, <1>2, <1>3, <1>4, <1>5 DEF Next

LEMMA Invariance == Spec => []SyncInv
BY InitInv, StepInv, PTL DEF Spec

-----------------------------------------------------------------------------
(***************************************************************************)
(* The types: among others, the specs of the resources are templates of    *)
(* their time with fields of the capabilities.                             *)
(***************************************************************************)
THEOREM TypeCorrect == Spec => []TypeOK
<1>1. SyncInv => TypeOK
  BY DEF SyncInv
<1> QED  BY <1>1, Invariance, PTL

(***************************************************************************)
(* When the goroutine has nothing left to do, every resource has the       *)
(* template of the moment, but for those that UpToDate excepts.            *)
(***************************************************************************)
THEOREM ResourcesAreUpToDate == Spec => []UpToDate
<1>1. SyncInv => UpToDate
  <2> SUFFICES ASSUME SyncInv, sync.at = "waiting", events = <<>>,
                      NEW r \in Resources \ missed, cr[r] # None
               PROVE  cr[r].template = template[KindOf(r)]
    BY DEF UpToDate
  <2>1. ~Reported(KindOf(r))
    BY DEF Reported
  <2>2. ~Before(r)
    BY DEF Before
  <2> QED  BY <2>1, <2>2 DEF SyncInv, CoveredInv
<1> QED  BY <1>1, Invariance, PTL

(***************************************************************************)
(* An update of a resource leaves it the choice it has, but for one that   *)
(* was created again between the listing and the read.                     *)
(***************************************************************************)
THEOREM ChoicesAreKept == Spec => ChoiceIsKept
<1> DEFINE Keeps(r) ==
      cr[r] # None /\ cr'[r] # None /\ cr'[r].choice # cr[r].choice => r \in recreated
<1>1. SyncInv /\ [Next]_vars => [\A r \in Resources : Keeps(r)]_vars
  <2> SUFFICES ASSUME SyncInv, Next, NEW r \in Resources, cr[r] # None, cr'[r] # None,
                      cr'[r].choice # cr[r].choice
               PROVE  r \in recreated
    OBVIOUS
  <2>1. TypeOK
    BY DEF SyncInv
  <2>2. cr' # cr
    OBVIOUS
  <2>3. CASE UpdateResource
    <3>1. /\ sync.at = "write" /\ sync.current /\ NextItem
          /\ cr' = [cr EXCEPT ![sync.item.resource] = sync.crd]
      BY <2>3 DEF UpdateResource
    <3>2. sync.crd.choice = sync.item.choice
      BY <3>1, NextItemStep
    <3>3. r = sync.item.resource /\ cr'[r] = sync.crd
      BY <2>1, <3>1 DEF TypeOK
    <3> QED  BY <3>1, <3>2, <3>3 DEF SyncInv, ChoiceInv
  <2>4. ASSUME NEW c \in Creators, CreateResource(c) PROVE FALSE
    BY <2>1, <2>4 DEF CreateResource, TypeOK
  <2>5. ASSUME NEW q \in Resources, DeleteResource(q) PROVE FALSE
    BY <2>1, <2>5 DEF DeleteResource, TypeOK
  <2>6. CASE SyncStep
    BY <2>2, <2>3, <2>6 DEF SyncStep, OpenWatch, TakeEvent, ReadTemplate, ListResources,
       GetResource, Skip, UpdateFails, SyncEnds
  <2>7. CASE \/ OpenWatchFails \/ WatchEnds \/ SyncFails \/ Restart
             \/ \E k \in Kinds : ModifyTemplate(k)
             \/ \E q \in Resources : OperatorWrites(q)
             \/ \E c \in Creators :
                 \/ \E q \in Resources : \E choice \in Choices(q) : ReadForCreation(c, q, choice)
                 \/ CreationFails(c)
    BY <2>2, <2>7 DEF OpenWatchFails, WatchEnds, SyncFails, Restart, ModifyTemplate,
       OperatorWrites, ReadForCreation, CreationFails
  <2> QED  BY <2>4, <2>5, <2>6, <2>7 DEF Next
<1> QED  BY <1>1, Invariance, PTL DEF Spec, ChoiceIsKept

-----------------------------------------------------------------------------
(***************************************************************************)
(* The tolerations that tools may get: Validate.                           *)
(***************************************************************************)

(***************************************************************************)
(* checkToleration accepts a toleration that the API server accepts and    *)
(* that leaves nothing to its defaults, unless Overlooked names a mistake  *)
(* in it, and then it is one indeed: the exceptions are exact.             *)
(***************************************************************************)
THEOREM AcceptedAreSchedulable ==
    ASSUME NEW t, CheckToleration(t)
    PROVE  Schedulable(t) <=> ~Overlooked(t)
<1>1. /\ ~Blank(t.key)
      /\ t.operator # Missing /\ t.operator.prints \in Operators
      /\ t.operator.prints = "Equal" => ~Blank(t.value)
      /\ t.operator.prints = "Exists" => Blank(t.value)
      /\ t.effect # Missing /\ t.effect.prints \in Effects
      /\ t.seconds = Missing \/ t.seconds.type \in {"int32", "int64"}
  BY DEF CheckToleration, CheckKey, CheckOperator, CheckValue, CheckEffect, CheckSeconds
<1>2. /\ Missing.type = "missing" /\ Missing.prints = "<nil>"
      /\ Null.type = "null" /\ Null.prints = "<nil>"
  BY DEF Missing, Null, Given
<1>3. /\ \A x : x.type = "string" => ~Unset(x)
      /\ \A x : ~Unset(x) => Text(x) = x.prints
      /\ \A x : Unset(x) => Text(x) = ""
  BY <1>2 DEF Unset, Text
<1>4. /\ t.operator # Null /\ t.effect # Null /\ t.seconds # Null
      /\ ~Unset(t.operator) /\ ~Unset(t.effect)
      /\ Unset(t.seconds) = (t.seconds = Missing)
  BY <1>1, <1>2 DEF Operators, Effects, Unset
<1>5. ASSUME ~Overlooked(t) PROVE Schedulable(t)
  <2>1. /\ t.key.type = "string" /\ t.key.prints \in LabelNames
        /\ t.operator.type = "string" /\ t.effect.type = "string"
        /\ t.operator.prints = "Equal" => t.value.type = "string" /\ t.value.prints \in LabelValues
        /\ t.operator.prints = "Exists" => t.value = Missing \/ t.value.type = "string"
        /\ t.seconds # Missing => t.effect.prints = "NoExecute"
    BY <1>5 DEF Overlooked
  <2>2. /\ Text(t.key) = t.key.prints /\ t.key.prints # ""
        /\ Text(t.operator) = t.operator.prints /\ Text(t.effect) = t.effect.prints
    BY <1>1, <1>3, <2>1 DEF Blank
  <2>3. CASE t.operator.prints = "Equal"
    <3>1. Text(t.value) = t.value.prints /\ t.value.prints # ""
      BY <1>1, <1>3, <2>1, <2>3 DEF Blank
    <3>2. Explicit(t)
      BY <1>1, <2>2, <2>3, <3>1 DEF Explicit, Effects
    <3>3. ApiServerAccepts(t)
      BY <1>1, <1>4, <2>1, <2>2, <2>3, <3>1 DEF ApiServerAccepts
    <3> QED  BY <3>2, <3>3 DEF Schedulable
  <2>4. CASE t.operator.prints = "Exists"
    <3>1. Text(t.value) = ""
      BY <1>1, <1>3, <2>1, <2>4 DEF Blank, Unset
    <3>2. Unset(t.value) \/ t.value.type = "string"
      BY <2>1, <2>4 DEF Unset
    <3>3. Explicit(t)
      BY <1>1, <2>2, <2>4 DEF Explicit, Effects
    <3>4. ApiServerAccepts(t)
      BY <1>1, <1>4, <2>1, <2>2, <2>4, <3>1, <3>2 DEF ApiServerAccepts
    <3> QED  BY <3>3, <3>4 DEF Schedulable
  <2> QED  BY <1>1, <2>3, <2>4 DEF Operators
<1>6. ASSUME Schedulable(t) PROVE ~Overlooked(t)
  <2>1. /\ Text(t.key) # "" /\ Text(t.operator) # "" /\ Text(t.effect) # ""
        /\ Text(t.operator) = "Equal" => Text(t.value) # ""
    BY <1>6 DEF Schedulable, Explicit
  <2>2. /\ \A x \in {t.key, t.operator, t.value, t.effect} : Unset(x) \/ x.type = "string"
        /\ Text(t.key) \in LabelNames \union {""}
        /\ Text(t.operator) # "Exists" => Text(t.value) \in LabelValues
        /\ ~Unset(t.seconds) => Text(t.effect) = "NoExecute"
    BY <1>6 DEF Schedulable, ApiServerAccepts
  <2>3. /\ t.key.type = "string" /\ t.operator.type = "string" /\ t.effect.type = "string"
        /\ Text(t.key) = t.key.prints /\ Text(t.operator) = t.operator.prints
        /\ Text(t.effect) = t.effect.prints
    BY <1>3, <2>1, <2>2
  <2>4. /\ t.key.prints \in LabelNames
        /\ t.seconds # Missing => t.effect.prints = "NoExecute"
    BY <1>4, <2>1, <2>2, <2>3
  <2>5. t.operator.prints = "Equal" => t.value.type = "string" /\ t.value.prints \in LabelValues
    BY <1>3, <2>1, <2>2, <2>3
  <2>6. t.operator.prints = "Exists" => t.value = Missing \/ t.value.type = "string"
    BY <1>1, <1>2, <2>2 DEF Blank, Unset
  <2> QED  BY <2>3, <2>4, <2>5, <2>6 DEF Overlooked
<1> QED  BY <1>5, <1>6

(***************************************************************************)
(* What it refuses although it is in order is what Misjudged names: null   *)
(* beside Exists or for the seconds, and whole seconds stored as a double. *)
(***************************************************************************)
THEOREM RefusedAreMisjudged ==
    ASSUME NEW t, Schedulable(t), ~CheckToleration(t)
    PROVE  Misjudged(t)
<1>1. /\ Text(t.key) # "" /\ Text(t.operator) # "" /\ Text(t.effect) # ""
      /\ Text(t.operator) = "Equal" => Text(t.value) # ""
  BY DEF Schedulable, Explicit
<1>2. /\ Text(t.operator) \in Operators \union {""} /\ Text(t.effect) \in Effects \union {""}
      /\ Text(t.operator) = "Exists" => Text(t.value) = ""
      /\ ~Unset(t.seconds) => t.seconds.type \in {"int32", "int64", "whole double"}
  BY DEF Schedulable, ApiServerAccepts
<1>3. /\ \A x : Text(x) # "" => x # Missing /\ Text(x) = x.prints
      /\ \A x : Text(x) = "" => x = Missing \/ x = Null \/ x.prints = ""
  BY DEF Text, Unset
<1>4. CheckKey(t) /\ CheckOperator(t) /\ CheckEffect(t)
  BY <1>1, <1>2, <1>3 DEF CheckKey, CheckOperator, CheckEffect, Blank
<1>5. CASE ~CheckSeconds(t)
  BY <1>2, <1>5 DEF CheckSeconds, Misjudged, Unset
<1>6. CASE ~CheckValue(t)
  <2>1. Text(t.operator) = t.operator.prints
    BY <1>1, <1>3
  <2>2. t.operator.prints = "Equal" => ~Blank(t.value)
    BY <1>1, <1>3, <2>1 DEF Blank
  <2>3. t.operator.prints = "Exists" /\ ~Blank(t.value)
    BY <1>6, <2>2 DEF CheckValue
  <2> QED  BY <1>2, <1>3, <2>1, <2>3 DEF Misjudged, Blank
<1> QED  BY <1>4, <1>5, <1>6 DEF CheckToleration

(***************************************************************************)
(* A document that Validate accepts sets a field of the tools.             *)
(***************************************************************************)
THEOREM ValidHaveFields == ASSUME NEW d, Validate(d) PROVE FieldsSetBy(d) # {}
BY DEF Validate, FieldsSetBy

LEMMA ValidVersionsAreSchedulable == ValidVersions \subseteq SchedulableVersions
<1> SUFFICES ASSUME NEW d \in ValidVersions, NEW t \in TolerationsOf(Content[d])
             PROVE  Schedulable(t) \/ Overlooked(t)
  BY DEF ValidVersions, SchedulableVersions
<1>1. CheckToleration(t)
  BY DEF ValidVersions, Validate
<1> QED  BY <1>1, AcceptedAreSchedulable

\* All the fields of a spec are of versions that were valid.
Sound(spec) == \A f \in Fields : spec.field[f] # None => spec.field[f].document \in ValidVersions

SoundInv ==
    /\ Sound(sync.crd)
    /\ \A r \in Resources : cr[r] # None => Sound(cr[r])
    /\ \A c \in Creators : create[c] # None => Sound(create[c].spec)

LEMMA PlainIsSound == \A v : Sound(Plain(v))
BY DEF Sound, Plain

LEMMA WaitingIsSound == Sound(Waiting.crd)
BY PlainIsSound DEF Waiting

LEMMA EditIsSound ==
    ASSUME NEW spec \in TemplatedSpec, NEW choice, NEW d, Sound(spec), Fit(choice, d)
    PROVE  Sound(EditFor(spec, choice, d))
<1> SUFFICES ASSUME NEW f \in Fields, EditFor(spec, choice, d).field[f] # None
             PROVE  EditFor(spec, choice, d).field[f].document \in ValidVersions
  BY DEF Sound
<1>1. EditFor(spec, choice, d).field[f] =
        IF choice.capability # None /\ f \in FieldsSetBy(Content[d])
          THEN [capability |-> choice.capability, document |-> d]
          ELSE spec.field[f]
  BY DEF EditFor, TemplatedSpec
<1> QED  BY <1>1 DEF Sound, Fit

LEMMA SoundInit == Init => SoundInv
BY WaitingIsSound DEF Init, SoundInv

LEMMA SoundStep == SyncInv /\ SoundInv /\ [Next]_vars => SoundInv'
<1> SUFFICES ASSUME SyncInv, SoundInv, [Next]_vars PROVE SoundInv'
  OBVIOUS
<1>1. TypeOK
  BY DEF SyncInv
<1>2. ASSUME sync'.crd = sync.crd \/ Sound(sync'.crd),
             UNCHANGED create \/ \A c \in Creators :
                create'[c] = create[c] \/ create'[c] = None \/ Sound(create'[c].spec),
             \A r \in Resources : cr'[r] = cr[r] \/ cr'[r] = None \/ Sound(cr'[r])
      PROVE  SoundInv'
  BY <1>2 DEF SoundInv, Sound
<1>3. CASE UNCHANGED <<sync, cr, create>>
  BY <1>3 DEF SoundInv
<1>4. CASE UNCHANGED vars
  BY <1>3, <1>4 DEF vars
<1>5. CASE OpenWatch \/ OpenWatchFails \/ WatchEnds \/ \E k \in Kinds : ModifyTemplate(k)
  BY <1>3, <1>5 DEF OpenWatch, OpenWatchFails, WatchEnds, ModifyTemplate
<1>6. CASE TakeEvent \/ ReadTemplate
  <2>1. UNCHANGED <<cr, create>>
    BY <1>6 DEF TakeEvent, ReadTemplate
  <2>2. sync'.crd = Plain(0) \/ sync'.crd = Plain(template[sync.kind])
    <3>1. CASE TakeEvent
      BY <3>1 DEF TakeEvent
    <3>2. CASE ReadTemplate
      BY <1>1, <3>2 DEF ReadTemplate, TypeOK, Sync
    <3> QED  BY <1>6, <3>1, <3>2
  <2>3. Sound(sync'.crd)
    BY <2>2, PlainIsSound
  <2> QED  BY <1>2, <2>1, <2>3
<1>7. CASE SyncFails \/ SyncEnds \/ Restart
  <2>1. Sound(sync'.crd) /\ UNCHANGED cr
    BY <1>7, WaitingIsSound DEF SyncFails, SyncEnds, Restart
  <2>2. UNCHANGED create \/ \A c \in Creators : create'[c] = None
    BY <1>7 DEF SyncFails, SyncEnds, Restart
  <2> QED  BY <1>2, <2>1, <2>2
<1>8. CASE ListResources \/ UpdateFails \/ \E i \in sync.todo : Skip(i)
  <2>1. sync'.crd = sync.crd /\ UNCHANGED <<cr, create>>
    BY <1>1, <1>8 DEF ListResources, UpdateFails, Skip, NextItem, TypeOK, Sync
  <2> QED  BY <1>2, <2>1
<1>9. CASE UpdateResource
  <2>1. sync'.crd = sync.crd /\ UNCHANGED create
    BY <1>1, <1>9 DEF UpdateResource, NextItem, TypeOK, Sync
  <2>2. \A r \in Resources : cr'[r] = cr[r] \/ cr'[r] = sync.crd
    BY <1>1, <1>9 DEF UpdateResource, TypeOK
  <2> QED  BY <1>2, <2>1, <2>2 DEF SoundInv
<1>10. ASSUME NEW i \in sync.todo, GetResource(i) PROVE SoundInv'
  <2>1. PICK d \in Readings(i.choice) :
          /\ Fit(i.choice, d)
          /\ sync' = [sync EXCEPT !.at = "write", !.crd = EditFor(@, i.choice, d),
                                 !.todo = @ \ {i}, !.item = i, !.current = TRUE]
    BY <1>10 DEF GetResource
  <2>2. sync'.crd = EditFor(sync.crd, i.choice, d) /\ sync.crd \in TemplatedSpec
    BY <1>1, <2>1 DEF TypeOK, Sync
  <2>3. Sound(sync'.crd)
    BY <2>1, <2>2, EditIsSound DEF SoundInv
  <2>4. UNCHANGED <<cr, create>>
    BY <1>10 DEF GetResource
  <2> QED  BY <1>2, <2>3, <2>4
<1>11. ASSUME NEW c \in Creators, NEW r \in Resources, NEW choice \in Choices(r),
              ReadForCreation(c, r, choice)
       PROVE  SoundInv'
  <2>1. PICK d \in Readings(choice) :
          /\ Fit(choice, d)
          /\ create' = [create EXCEPT ![c] =
                [resource |-> r, spec |-> EditFor(Plain(template[KindOf(r)]), choice, d)]]
    BY <1>11 DEF ReadForCreation
  <2> DEFINE plain == Plain(template[KindOf(r)])
  <2>2. plain \in TemplatedSpec /\ Sound(plain)
    BY <1>1, KindType, PlainType, PlainIsSound DEF TypeOK
  <2>3. Sound(EditFor(plain, choice, d))
    <3> HIDE DEF plain
    <3> QED  BY <2>1, <2>2, EditIsSound
  <2>4. \A b \in Creators : create'[b] = create[b] \/ Sound(create'[b].spec)
    BY <1>1, <2>1, <2>3 DEF TypeOK
  <2>5. UNCHANGED <<sync, cr>>
    BY <1>11 DEF ReadForCreation
  <2> QED  BY <1>2, <2>4, <2>5
<1>12. ASSUME NEW c \in Creators, CreateResource(c) PROVE SoundInv'
  <2> DEFINE r == create[c].resource
  <2>1. /\ create[c] # None /\ cr' = [cr EXCEPT ![r] = create[c].spec]
        /\ create' = [create EXCEPT ![c] = None] /\ Outdates(r)
    BY <1>12 DEF CreateResource
  <2>2. r \in Resources
    BY <1>1, <2>1 DEF TypeOK, Creation
  <2>3. sync'.crd = sync.crd
    BY <2>1, <2>2, OutdatesStep
  <2>4. \A q \in Resources : cr'[q] = cr[q] \/ Sound(cr'[q])
    BY <1>1, <2>1 DEF TypeOK, SoundInv
  <2>5. \A b \in Creators : create'[b] = create[b] \/ create'[b] = None
    BY <1>1, <2>1 DEF TypeOK
  <2> QED  BY <1>2, <2>3, <2>4, <2>5
<1>13. ASSUME NEW c \in Creators, CreationFails(c) PROVE SoundInv'
  <2>1. \A b \in Creators : create'[b] = create[b] \/ create'[b] = None
    BY <1>1, <1>13 DEF CreationFails, TypeOK
  <2> QED  BY <1>2, <1>13, <2>1 DEF CreationFails
<1>14. ASSUME NEW r \in Resources, DeleteResource(r) \/ OperatorWrites(r) PROVE SoundInv'
  <2>1. Outdates(r) /\ UNCHANGED create
    BY <1>14 DEF DeleteResource, OperatorWrites
  <2>2. sync'.crd = sync.crd
    BY <2>1, OutdatesStep
  <2>3. \A q \in Resources : cr'[q] = cr[q] \/ cr'[q] = None
    BY <1>1, <1>14 DEF DeleteResource, OperatorWrites, TypeOK
  <2> QED  BY <1>2, <2>1, <2>2, <2>3
<1> QED
  BY <1>4, <1>5, <1>6, <1>7, <1>8, <1>9, <1>10, <1>11, <1>12, <1>13, <1>14 DEF Next, SyncStep

(***************************************************************************)
(* For any documents, edited at any moment, and any number of tolerations: *)
(* tools only get tolerations that can be scheduled or that are overlooked.*)
(***************************************************************************)
THEOREM TolerationsCanBeScheduled == Spec => []TolerationsAreSchedulable
<1>1. SoundInv => TolerationsAreSchedulable
  BY ValidVersionsAreSchedulable DEF SoundInv, Sound, TolerationsAreSchedulable
<1>2. Spec => []SoundInv
  BY SoundInit, SoundStep, Invariance, PTL DEF Spec
<1> QED  BY <1>1, <1>2, PTL

=============================================================================
