---------------------------- MODULE GraphQLSchema ----------------------------
(***************************************************************************)
(* The schema as gqlgen generated it                                       *)
(* (app/api/infrastructure/graph/generated/generated.go).  Each type has   *)
(* two tables:                                                             *)
(*                                                                         *)
(*   - its fields, with the type of their values, from the functions       *)
(*     _Type_field;                                                        *)
(*   - how an object of the type is marshalled, from the function _Type:   *)
(*     the fields that run concurrently after all others (Concurrently and *)
(*     Dispatch), and the fields that may be null (all others count among  *)
(*     the Invalids, which make the object null).                          *)
(*                                                                         *)
(* The functions _Type_field differ in nothing else: each recovers from a  *)
(* panic, reports an error of its resolver, and reports a missing value    *)
(* that may not be null.  GraphQLRequest has these branches once, for the  *)
(* fields in Fallible; the others read a field of a struct, or have a      *)
(* resolver that returns no error, and cannot take them.                   *)
(*                                                                         *)
(* @defer, __typename and introspection are left out.                      *)
(***************************************************************************)
EXTENDS Naturals, Sequences, SequencesExt, TLC

One(type) == [type |-> type, list |-> FALSE]

ListOf(type) == [type |-> type, list |-> TRUE]

Leaves(names) == [f \in names |-> One("Leaf")]

Marshal(later, nullable) == [later |-> later, nullable |-> nullable]

-----------------------------------------------------------------------------

ApiTokenFields == Leaves({"id", "name", "creationDate", "lastUsedDate", "token"})

ApiToken == Marshal({}, {})

CapabilityFields == Leaves({"id", "name", "default"})

Capability == Marshal({}, {})

MemberFields == Leaves({"accessLevel", "addedDate"}) @@ [user |-> One("User")]

Member == Marshal({"user", "addedDate"}, {})

RepositoryFields == Leaves({"url", "error"})

Repository == Marshal({}, {"error"})

ToolUrlsFields ==
    Leaves({"knowledgeGalaxyEnabled", "knowledgeGalaxy", "filebrowser", "mlflow", "minio"})

ToolUrls == Marshal({}, {})

ProjectDescription ==
    [repository |-> One("Repository")]
        @@ Leaves({"id", "name", "description", "favorite", "creationDate"})

ProjectState ==
    [members |-> ListOf("Member"), toolUrls |-> One("ToolUrls")]
        @@ Leaves({"lastActivationDate", "error", "needAccess", "archived"})

ProjectFields == ProjectDescription @@ ProjectState

Project ==
    Marshal({"creationDate", "toolUrls", "needAccess"}, {"repository", "error"})

SSHKeyFields == Leaves({"public", "private", "creationDate", "lastActivity"})

SSHKey == Marshal({"creationDate", "lastActivity"}, {"lastActivity"})

UserAccount ==
    Leaves({"id", "username", "email", "creationDate", "accessLevel", "lastActivity"})

UserKeys ==
    [apiTokens |-> ListOf("ApiToken"), sshKey |-> One("SSHKey")]
        @@ Leaves({"isKubeconfigEnabled"})

UserFields == UserAccount @@ UserKeys

User == Marshal({"creationDate", "lastActivity", "isKubeconfigEnabled"}, {"lastActivity"})

RuntimeFields ==
    [labels |-> ListOf("Leaf")]
        @@ Leaves({"id", "name", "desc", "dockerImage", "dockerTag", "runtimePod",
                   "runtimePodStatus"})

Runtime == Marshal({}, {"labels"})

QualityProjectDescFields == Leaves({"quality"})

QualityProjectDesc == Marshal({}, {})

UserMutations ==
    [regenerateSSHKey |-> One("User"), setActiveUserTools |-> One("User"),
     updateAccessLevel |-> ListOf("User")]

ProjectMutations ==
    [addMembers |-> One("Project"), createProject |-> One("Project"),
     deleteProject |-> One("Project"), removeMembers |-> One("Project"),
     updateMembers |-> One("Project"), updateProject |-> One("Project")]

TokenMutations == [addApiToken |-> One("ApiToken"), removeApiToken |-> One("ApiToken")]

MutationFields == UserMutations @@ ProjectMutations @@ TokenMutations

\* Mutant: the mutations of a request run concurrently, like queries.
MutationLater == Marshal(DOMAIN MutationFields, {"deleteProject", "addApiToken"})

\* Its fields are in no goroutine: each is marshalled before the next begins.
Mutation == Marshal({}, {"deleteProject", "addApiToken"})

UserQueries ==
    [capabilities |-> ListOf("Capability"), kubeconfig |-> One("Leaf"), me |-> One("User")]

ProjectQueries ==
    [project |-> One("Project"), projects |-> ListOf("Project"),
     qualityProjectDesc |-> One("QualityProjectDesc")]

RuntimeQueries ==
    [runningCapability |-> One("Capability"), runningRuntime |-> One("Runtime"),
     runtimes |-> ListOf("Runtime"), users |-> ListOf("User")]

QueryFields == UserQueries @@ ProjectQueries @@ RuntimeQueries

Query == Marshal(DOMAIN QueryFields, {"runningCapability", "runningRuntime"})

-----------------------------------------------------------------------------

Fields ==
    [ApiToken |-> ApiTokenFields, Capability |-> CapabilityFields, Member |-> MemberFields,
     Mutation |-> MutationFields, Project |-> ProjectFields,
     QualityProjectDesc |-> QualityProjectDescFields, Query |-> QueryFields,
     Repository |-> RepositoryFields, Runtime |-> RuntimeFields, SSHKey |-> SSHKeyFields,
     ToolUrls |-> ToolUrlsFields, User |-> UserFields, Leaf |-> Leaves({})]

Objects ==
    [ApiToken |-> ApiToken, Capability |-> Capability, Member |-> Member,
     Mutation |-> Mutation, Project |-> Project,
     QualityProjectDesc |-> QualityProjectDesc, Query |-> Query,
     Repository |-> Repository, Runtime |-> Runtime, SSHKey |-> SSHKey,
     ToolUrls |-> ToolUrls, User |-> User, Leaf |-> Marshal({}, {})]

\* The resolvers (schema.resolvers.go) that may return an error: those of all
\* root fields, the lookup of a member's user, and needAccess, which reads the
\* logged user again.
Fallible ==
    [t \in DOMAIN Fields |->
        CASE t \in {"Query", "Mutation"} -> DOMAIN Fields[t]
          [] t = "Member" -> {"user"}
          [] t = "Project" -> {"needAccess"}
          [] OTHER -> {}]

\* These always fail: the first panics, which its goroutine recovers from.
NotImplemented == {"qualityProjectDesc", "addApiToken", "removeApiToken"}

(***************************************************************************)
(* The types in whose values something can fail: those with a resolver     *)
(* that may, and those that hold such a type, up to three levels deep.     *)
(***************************************************************************)
Holding(types) ==
    types \union {t \in DOMAIN Fields : \E f \in DOMAIN Fields[t] : Fields[t][f].type \in types}

Risky == Holding(Holding(Holding({t \in DOMAIN Fields : Fallible[t] # {}})))

\* A client asks for everything; what cannot fail needs no step of its own.
SelectionOf ==
    [t \in DOMAIN Fields |->
        SetToSeq({f \in DOMAIN Fields[t] : f \in Fallible[t] \/ Fields[t][f].type \in Risky})]

\* The tables are closed, and fit together.
ASSUME SchemaAssumption ==
    /\ {"Query", "Mutation", "Member"} \subseteq DOMAIN Fields
    /\ \A t \in DOMAIN Fields :
        /\ \A f \in DOMAIN Fields[t] :
            Fields[t][f].type \in DOMAIN Fields \ {"Query", "Mutation"}
        /\ NotImplemented \intersect DOMAIN Fields[t] \subseteq Fallible[t]
    /\ \A t \in DOMAIN Fields \ {"Query", "Mutation"} :
        SelectionOf[t] \in Seq(DOMAIN Fields[t])
    /\ Len(SelectionOf["Member"]) = 1

=============================================================================
