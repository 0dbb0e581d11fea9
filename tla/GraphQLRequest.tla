---------------------------- MODULE GraphQLRequest ----------------------------
(***************************************************************************)
(* One GraphQL request: how the generated executor                         *)
(* (app/api/infrastructure/graph/generated/generated.go) calls the         *)
(* resolvers (schema.resolvers.go) and joins what they return, over the    *)
(* loader of users that the request has.                                   *)
(*                                                                         *)
(* An object is the path to it: for each field on the way its place in its *)
(* selection, the index of the element, and the type.  A field is an       *)
(* object and a place.  One action is the resolver of one field, or the    *)
(* end of a field whose value is marshalled.  What resolvers do to the     *)
(* stores is in the modules for the other components: here they return,    *)
(* or fail.                                                                *)
(***************************************************************************)
EXTENDS GraphQLSchema, UserLoader

CONSTANTS
    Requests,   \* the requests: an operation, and its root fields in order
    Width       \* how many elements a list of projects or members may have

ASSUME WidthAssumption == Width \in Nat

ASSUME RequestsAssumption ==
    \A r \in Requests : /\ r.operation \in {"Query", "Mutation"}
                        /\ r.fields \in Seq(DOMAIN Fields[r.operation])

VARIABLES
    request,    \* the request
    field,      \* the fields that have been begun
    elements,   \* the objects in their values: users for members, else None
    responded   \* the response has been written

executorVars == <<request, field, elements, responded>>

vars == <<loaderVars, executorVars>>

-----------------------------------------------------------------------------

Selection(type) ==
    IF type \in {"Query", "Mutation"} THEN request.fields ELSE SelectionOf[type]

TypeOf(o) == IF o = <<>> THEN request.operation ELSE Last(o)[3]

NameOf(n) == Selection(TypeOf(n[1]))[n[2]]

ValueOf(n) == Fields[TypeOf(n[1])][NameOf(n)]

Later(n) == NameOf(n) \in Objects[TypeOf(n[1])].later

Nullable(n) == NameOf(n) \in Objects[TypeOf(n[1])].nullable

FieldsOf(o) == {<<o, p>> : p \in DOMAIN Selection(TypeOf(o))}

ObjectIn(n, i) == Append(n[1], <<n[2], i, ValueOf(n).type>>)

ObjectsIn(n) == {ObjectIn(n, i) : i \in DOMAIN elements[n]}

Existing == {<<>>} \union UNION {ObjectsIn(n) : n \in DOMAIN field}

Parent(o) == <<Front(o), Last(o)[1]>>

\* The lookup of a member's user bears the name of the member.
IsLookup(n) == TypeOf(n[1]) = "Member"

UserOf(o) == elements[Parent(o)][Last(o)[2]]

Done(n) == n \in DOMAIN field /\ field[n] # "running"

\* Invalids > 0: a field that must not be null is.
IsNull(o) == \E n \in FieldsOf(o) : field[n] \in {"null", "failed"} /\ ~Nullable(n)

-----------------------------------------------------------------------------

Init ==
    /\ LoaderInit
    /\ request \in Requests
    /\ field = <<>>
    /\ elements = <<>>
    /\ responded = FALSE

\* Fields are begun in order and wait for one another, but for the later ones,
\* which begin together when all others are done.
MayBegin(n) ==
    /\ n \notin DOMAIN field
    /\ \A m \in FieldsOf(n[1]) :
        ~Later(m) /\ (Later(n) \/ m[2] < n[2]) => Done(m)

\* f with x at n.
Adding(f, n, x) == [m \in DOMAIN f \union {n} |-> IF m = n THEN x ELSE f[m]]

Begin(n, status, value) ==
    /\ field' = Adding(field, n, status)
    /\ elements' = Adding(elements, n, value)
    /\ UNCHANGED <<request, responded>>

\* What a field may hold: a project has the members it was read with, of other
\* objects only the number matters.  Lookups bounds the members, Width the rest.
Values(n) ==
    CASE ValueOf(n).type \notin Risky -> {<<>>}
      [] ValueOf(n).type = "Member" ->
            {v \in UNION {[1 .. w -> Ids] : w \in 0 .. Width} :
                \A i \in DOMAIN v : ObjectIn(n, i) \in Lookups}
      [] OTHER -> {[i \in 1 .. w |-> None] : w \in IF ValueOf(n).list THEN 0 .. Width ELSE {1}}

\* A resolver returns, or the field is read from the struct.
Resolve(n) ==
    /\ MayBegin(n) /\ ~IsLookup(n)
    /\ NameOf(n) \notin NotImplemented
    /\ \E value \in Values(n) :
        Begin(n, IF ValueOf(n).type \in Risky THEN "running" ELSE "value", value)
    /\ UNCHANGED loaderVars

\* A field that may be null is, and nothing failed.
ResolveNil(n) ==
    /\ MayBegin(n) /\ ~IsLookup(n)
    /\ Nullable(n)
    /\ NameOf(n) \notin NotImplemented \union {"deleteProject"}
    /\ Begin(n, "null", <<>>)
    /\ UNCHANGED loaderVars

\* An error, or a panic that is recovered from: the field is null.
ResolveFails(n) ==
    /\ MayBegin(n) /\ ~IsLookup(n)
    /\ NameOf(n) \in Fallible[TypeOf(n[1])]
    /\ Begin(n, "failed", <<>>)
    /\ UNCHANGED loaderVars

\* memberResolver.User calls Load.
BeginLookup(n) ==
    /\ MayBegin(n) /\ IsLookup(n)
    /\ Begin(n, "running", <<>>)
    /\ LoadThunk(n[1], UserOf(n[1]))

EndLookup(n) ==
    /\ n \in DOMAIN field /\ field[n] = "running" /\ IsLookup(n)
    /\ Return(n[1])
    /\ field' = [field EXCEPT ![n] = IF lookup'[n[1]].answer = Error THEN "failed" ELSE "value"]
    /\ UNCHANGED <<request, elements, responded>>

\* Mutant: a null element of a list leaves the others.
FinishKeepingOthers(n) ==
    /\ n \in DOMAIN field /\ field[n] = "running" /\ ~IsLookup(n)
    /\ \A o \in ObjectsIn(n) : \A m \in FieldsOf(o) : Done(m)
    /\ field' = [field EXCEPT ![n] =
        IF ~ValueOf(n).list /\ \E o \in ObjectsIn(n) : IsNull(o) THEN "null" ELSE "value"]
    /\ UNCHANGED <<loaderVars, request, elements, responded>>

\* Dispatch and the marshalling of lists wait for every goroutine; an element
\* that is null makes the list null, an object that is null the field.
Finish(n) ==
    /\ n \in DOMAIN field /\ field[n] = "running" /\ ~IsLookup(n)
    /\ \A o \in ObjectsIn(n) : \A m \in FieldsOf(o) : Done(m)
    /\ field' = [field EXCEPT ![n] =
        IF \E o \in ObjectsIn(n) : IsNull(o) THEN "null" ELSE "value"]
    /\ UNCHANGED <<loaderVars, request, elements, responded>>

Respond ==
    /\ ~responded
    /\ \A n \in FieldsOf(<<>>) : Done(n)
    /\ responded' = TRUE
    /\ UNCHANGED <<loaderVars, request, field, elements>>

FieldStep(n) ==
    \/ Resolve(n) \/ ResolveNil(n) \/ ResolveFails(n)
    \/ BeginLookup(n) \/ EndLookup(n)
    \/ Finish(n)

Executor == \E o \in Existing : \E n \in FieldsOf(o) : FieldStep(n)

Batches == (\E b \in Lookups : BatchStep(b)) /\ UNCHANGED executorVars

Others == (\E k \in Ids : WriteUser(k)) /\ UNCHANGED executorVars

Progress == Respond \/ Batches \/ Executor

Next == Progress \/ Others

Spec == Init /\ [][Next]_vars

(***************************************************************************)
(* Resolvers return, the timer of a batch fires, and as long as any        *)
(* goroutine of the request can go on one of them does.                    *)
(***************************************************************************)
FairSpec == Spec /\ WF_vars(Progress)

-----------------------------------------------------------------------------

\* No field from n up to the root may be null.
Unshielded(n) ==
    /\ ~Nullable(n)
    /\ \A d \in 1 .. Len(n[1]) : ~Nullable(Parent(SubSeq(n[1], 1, d)))

(***************************************************************************)
(* Errors take away what the schema says and nothing else: the response    *)
(* has no data exactly if some resolver failed below fields none of which  *)
(* may be null.  One member whose user cannot be looked up thereby hides   *)
(* all projects, and the mutations before it, which have taken effect.     *)
(***************************************************************************)
NullsMatchFailures ==
    responded => (IsNull(<<>>) <=> \E n \in DOMAIN field : field[n] = "failed" /\ Unshielded(n))

(***************************************************************************)
(* No goroutine outlives its field: when a field is done, or a mutation is *)
(* begun, no lookup of what was begun before is still using the loader.    *)
(***************************************************************************)
LookupsOf(n) ==
    {i \in Lookups : /\ Len(i) > Len(n[1]) /\ SubSeq(i, 1, Len(n[1])) = n[1]
                     /\ i[Len(n[1]) + 1][1] = n[2]}

Waiting(i) == lookup[i].at \in {"hit", "wait"}

NothingOutlives ==
    \A n \in DOMAIN field :
        /\ Done(n) => \A i \in LookupsOf(n) : ~Waiting(i)
        /\ n[1] = <<>> /\ request.operation = "Mutation"
            => \A q \in 1 .. n[2] - 1 : \A i \in LookupsOf(<< <<>>, q >>) : ~Waiting(i)

(***************************************************************************)
(* What the mutations of a request answer agrees: a user that an earlier   *)
(* one has shown is shown by a later one as one of the earlier ones did,   *)
(* even when it was changed in between, by the request itself.             *)
(***************************************************************************)
Shown(p, k) ==
    {lookup[i].answer : i \in {j \in Lookups : /\ j[1][1] = p /\ lookup[j].key = k
                                               /\ lookup[j].at = "told"}} \ {Error}

MutationsAgree ==
    request.operation = "Mutation" =>
        \A k \in Ids, p \in DOMAIN request.fields, q \in DOMAIN request.fields :
            p < q /\ Shown(p, k) # {}
                => Shown(q, k) \subseteq UNION {Shown(r, k) : r \in 1 .. q - 1}

(***************************************************************************)
(* Every request is answered: no field waits for another that waits for    *)
(* it, and no lookup is left in a batch that nobody ends.                  *)
(***************************************************************************)
Responds == <>responded

=============================================================================
