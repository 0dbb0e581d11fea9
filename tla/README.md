# Verification of kdl-server

TLA+ modules that model the core of kdl-server (the server that manages the
projects, users and tools of a KDL installation), TLC configurations that check
them on small instances, and proofs about them that TLAPS checks for every
value of the constants. `PROJECT.json` is the index: components, runs,
properties, theorems, hazards, and the source lines behind every definition.

1. [The system](#the-system)
2. [The modules](#the-modules)
3. [The runs](#the-runs)
4. [Fairness](#fairness)
5. [The proofs](#the-proofs)
6. [What is not modelled](#what-is-not-modelled)
7. [Plan](#plan)

Check a run with `tlc -config Lifecycle.cfg MCProjectLifecycle`, the proofs of
a module with `tlapm ProjectLifecycleProofs.tla`.

## The system

The server is one Go process (`src/app/api`): a GraphQL API behind a proxy that
authenticates. Every request runs in a goroutine of its own. **Nothing locks a
project or a user, nothing is a transaction, and no operation undoes what it
did before it failed.** State is kept in three stores that the server changes
one call at a time:

- MongoDB: documents of users and projects, the log of user activity; the
  collections of runtimes and capabilities, which the server only reads.
- MinIO: one bucket per project, and the backups of deleted ones.
- Kubernetes: custom resources for projects (`KDLProject`) and for the running
  tools of a user (`KDLUserTools`), which Helm operators turn into pods;
  secrets with SSH keys; service accounts; config maps with the templates of
  the two resources.

Beside the tools of each user runs a *repository cloner* (`src/repo-cloner`),
a process of its own that clones the repositories of the user's projects.

Paths below are relative to `src/app/api` unless they begin with `src/`.

| component | source | state | operations | what makes it hard |
|---|---|---|---|---|
| project members | `usecase/project/interactor_members.go`, `infrastructure/mongodb/project.go` | the member array of a project | addMembers, removeMembers, updateMembers | the checks are done on a project read earlier; the update is filtered by the id alone |
| project lifecycle | `usecase/project/interactor.go`, `infrastructure/minioservice`, `infrastructure/k8s/kdlproject.go` | resource, bucket, backups, document, activity | createProject, deleteProject, updateProject | four calls to three stores without compensation; users write the bucket meanwhile |
| user accounts | `http/middleware/auth.go`, `usecase/user/interactor.go`, `infrastructure/mongodb/user.go`, `infrastructure/k8s/user_ssh.go` | user documents, unique indexes, key secrets | creation at the first request, change of subject, regenerateSSHKey | check-then-act; keys are in two stores; a server listens although its indexes failed |
| user tools | `usecase/user/interactor.go`, `infrastructure/k8s/kdlusertools.go` | `KDLUserTools` resource, pod | setActiveUserTools (start, stop) | decides by the pod, acts on the resource, waits on a watch; clients leave; overlapping requests |
| template synchronisation | `usecase/configmap/interactor.go`, `UpdateKDLProjects`, `UpdateKDLUserTools` | the specs of all resources | on each modification of a template | a watch that ends; a listing that grows old; version conflicts; one shared object |
| repository cloner | `src/repo-cloner` | folders on a volume | look every few seconds, clone what is missing | goroutines that do not know of each other; restarts in the middle of a clone |
| service accounts | `infrastructure/k8s/service_account.go`, `kubeconfig.go`, `SynchronizeServiceAccountsForUsers` | service accounts, token secrets | at creation of a user, at the start of a server, getKubeconfig | two calls; several servers; slugs that users share; Kubernetes fills and removes tokens |
| GraphQL requests | `infrastructure/graph` | the response while it is made | resolve, marshal, join | a goroutine per field and per element; errors that climb |
| user data loader | `infrastructure/dataloader` | the cache and the open batch of a request or connection | Load | a batch closed by a timer or by its size; documents that change meanwhile |
| project authorisation | `http/controller/auth.go` | none | is this user a member | reads project and user one after the other, while members change |
| capabilities validation | `entity/capabilities.go` | none | Validate | documents written by hand: entries missing, null, of another type |
| pod status, runtimes and capabilities queries, configuration, health check, keycloak client, cron | see `PROJECT.json` | none, or not in use | | |

How they interact. A request passes `AuthMiddleware` (accounts) before it
reaches any mutation. Creating a project makes the resource by the template,
which synchronisation may be replacing; the same holds for starting tools. The
cloner reads membership straight from MongoDB, and the proxy asks the server
about it for every request to a project's tools. Regenerating keys is refused
while the tools run, which is decided by the pod; the pod has the keys it was
started with. Mutations and queries are fields of GraphQL requests, whose
executor looks up the members' users through one loader per HTTP request; a
websocket is one such request with all its operations. The
operators and the API server of Kubernetes act on resources, pods and tokens at
any time.

What makes the parts correct, in the terms of the code:

- *members*: a project always has an admin, nobody is a member twice, only an
  admin changes anything.
- *lifecycle*: no upload is lost by a deletion, a project that users see has
  its resource and bucket, an activity record names a finished backup and leads
  to the data.
- *accounts*: email, username and subject are unique; document and secret have
  the same key pair.
- *service accounts*: every user gets a kubeconfig and keeps it.
- *tools*: one start's choice at a time; a start waits for its own pod, and a
  stop sees everything go; waits end; running tools hold the stored key.
- *templates*: resources follow their template and keep their users' choice.
- *cloner*: repositories are cloned in the end, a complete clone is not harmed.
- *GraphQL requests*: every request is answered, with what the schema leaves of
  it when something failed; nothing of it is at work after its answer.
- *loader*: a lookup gets its own user, as it is or as the request has shown it.
- *authorisation*: the answer was right at some moment of the visit.
- *capabilities*: what is accepted can be scheduled.

Many of these the code only keeps under conditions. Finding the exact condition
is what most of the properties below are about.

## The modules

`ProjectRoster`, `ToolsSession` and `UserLookup` are abstract specifications.
`ProjectAccess` composes project authorisation with `ProjectMembers`,
`ToolsKeys` the regeneration of keys with `UserTools`, `TemplateSync` the
validation of capabilities with the updates of tools, and `GraphQLRequest` the
executor with `UserLoader`. Each MC module only gives constants their values
(`RepoCloner` needs none); each Proofs module extends the modules it is about:
`GraphQLRequestProofs` the loader and the executor, `TemplateSyncProofs` the
templates and the capabilities they are made for. Definitions with the comment
*Mutant* are faulty forms of the definition that follows them: with one of them
in its place, the property named for it in `PROJECT.json` is violated.

Common to all modules: a call to a store is one atomic action, because MongoDB,
Kubernetes and MinIO make single calls atomic. What happens between two calls
of a handler may interleave with anything. A handler that fails, a server that
stops and a call that times out look alike to the stores, and are one action
(`Fail`, `CreateFails`, ...), possible at every call. Histories (variables that
no action's guard reads) are marked as such.

### ProjectRoster, ProjectMembers

`ProjectRoster` gives each user at most one level and has the three operations
as atomic steps of an admin, guarded as the code guards them.

`ProjectMembers` has the handlers. `Begin...` is everything up to and with the
checks on the project that `projectRepo.Get` returned; `Commit...` is the single
`UpdateOne` ($push, $pull, or $set with an array filter). A rejected request
leaves no trace and is no action. The users of a request are a set, because
`FindByIDs` returns each once, and may be empty. The array is kept as one
sequence of levels per user, since the order among users is never looked at,
while `getMember` takes the *first* entry of a user and `checkAtLeastOneAdmin`
*any* entry. The history `fresh` says whether the read of a handler is current.

### ProjectAccess

Adds the visits to `ProjectMembers`. `HandleProjectAuth` reads the project
(`GetProject`: is the user a member, by any entry), then the user, and answers
(`Answer`: 200 or 403; `Unauthorized`: 401, whatever failed). Handlers of the
members take their steps in between. The histories: `standing`, the users whose
last addition or removal was an addition, and `held`, what that was for the
visitor since the visit began.

### ProjectLifecycle

One project id. Positions of a handler are the calls of `interactor.Create`
(resource, bucket, folders, document) and `interactor.Delete` (document read,
backup bucket, listing, copy by copy, removal of the bucket, resource, document,
activity). `bucket` and each of `backups` is a set of objects or the singleton
of `Gone`. The listing of MinIO is paged while copying goes on, so a late upload
may or may not be listed (`ListLateObject`), nor need what was erased since
(`MissErasedObject`). A deleted resource is `dying`, and refuses a creation,
until the project operator has uninstalled its release and takes its finalizer
away (`OperatorFinishes`). `ForceDelete` removes the bucket
with all it holds. The backup's name is made of the milliseconds of the clock,
so `CreateBackup` takes *any* stamp, one in use as well, and is then refused.
Backups of one project are never the buckets of another: an id has no such
suffix. `CreateBucket` is the check that the bucket exists and its making in one
step; the second of two concurrent makers is refused either way.

Histories: `upload` (what became of each upload; *late* if it arrived while a
deletion was copying) and `orderly` (no call failed of its own and no two
deletions overlapped so far).

### UserAccounts

`Arrive` is `GetByEmail` in the middleware and the three ways from there:
create, change the subject, or serve. Creation is three separate reads, the
insert, the secret and the service account. `UpdateSub` treats an error of its
check like "not found", which `CheckSub` keeps. An error of `GetByEmail` other
than "not found" goes on into `UpdateSub` with the zero user, whose username no
document has: it ends in an error without effects, which is `Fail`. `EnsureIndexes` is the start of
a server; its failure is only logged (`http/main.go:153`), so `indexes` may stay
empty. Username and secret name are functions of the email (`Username`,
`Slug`), both of which may coincide for different people. Keys are fresh
whenever they are generated. The history `alone` has the regenerations that no
other writer of the same secret overlapped.

### ToolsSession, UserTools

`ToolsSession`: off, or on with what one start asked for; a start only takes
tools that are off.

`UserTools` has the requests of one user. Positions follow the code: pod check,
pod status, delete the resource, patch its finalizers away, open a watch, wait
for a deleted pod; create the resource, open a watch, wait for a running pod.
Both watches are opened *after* the change they wait for. They have no resource
version, so the API server first reports the pods that exist: a running pod
ends the wait of a start, while an absent pod says nothing to a stop. A closed
watch leaves the handler in a busy loop until its client leaves (`closed` stays
set and no event comes). Deletion is in the foreground: the resource stays,
dying, until its pod is gone, or until the patch takes the finalizers and makes
the pod an orphan. Operator, stateful set and garbage collector are external.

### ToolsKeys

Adds `RegenerateSSHKeys` to `UserTools`: the check for a pod, the new pair, the
update of the secret and that of the document, each a step. `AreToolsRunning`
drops the error of its listing, so that a failed check finds no tools
(`CheckFails`). The pod mounts the private key by a `subPath` (the operator's
`statefulset.yaml`): it holds the key its containers started with (`Mount`).
Histories: `quiet` (no regeneration, between check and write, has met a request
or a resource, and no check has failed) and `clean` (the requests that met no
such regeneration).

### TemplateSync

The goroutine that `actionsBeforeStartingHTTPServer` starts: one event after the
other it reads the template of the moment, lists the resources of that kind,
reads each again and updates it. `sync.crd` is the one object that all updates
of an event are edited through. `sync.current` is the resource version: whoever
writes the resource in between makes the update fail, which is logged and not
retried. A spec is the template version, the choice (runtime and capability) it
was made of, and for each of nodeSelector, tolerations and affinity the document
it came from (`None`: from the template). A user may start tools without a
runtime or without a capability; they lack the label then, and no update touches
them (`Labelled`). The documents of capabilities are edited by hand at any time:
each read finds any version of its document, and one that `Validate` refuses
ends the start, or makes the loop leave these tools out before it edits anything
(`LeftOut`). A watch that ends is not opened again before the next start of the
server. The history `missed` has the resources that some update passed by.

### RepoCloner

The loop and its goroutines (`Slots` bounds how many run at once) over the
folders of a volume. go-git is external: `PlainInit` refuses a folder with a
repository, and a failing `PlainClone` removes what it made if the folder was
missing when it looked. `cloneRepo` then removes the folder if `os.Stat` says
that it does *not* exist (`user_repo.go:129`, the check is inverted). Users make
and remove folders, but leave one alone while it is being filled. The history
`rivals` has the projects that two goroutines have worked on at once.

### ServiceAccounts

A worker is a starting server, which goes through all users one by one, or the
creation of one user. Its calls are steps: get the account, create it or set its
automount, create the token's secret; or delete the account, for users that are
marked as deleted. A call that finds something else than it expects is refused
(`Refused`); a server logs that and goes on with the next user. A *legacy*
account is from before the server made tokens itself. Accounts bear the slug of
the username, which users may share. Kubernetes fills the secret of an account's
token, and removes the secret when the account is gone or was made anew:
external. `Kubeconfig` is what getKubeconfig answers, as a function of both.

### UserLookup, UserLoader

`UserLookup`: a lookup is told an error, or its own user as it was at some moment
since the lookup began, or what an earlier lookup of that user was told.

`UserLoader` is the generated loader: one action for each section under its
mutex (`LoadThunk` with the cache, `keyIndex` and the start of a batch;
`TimerFires`), for the query (`Fetch`, `FetchFails`) and for the return of a
lookup, which writes the cache. A batch is named after the lookup that began it.
A document is the number of times it was written; 0 is a document that is not
there, for which the loader answers the zero user without an error.

### GraphQLSchema, GraphQLRequest

`GraphQLSchema` has the tables that are spread over the generated executor: the
fields of each type, which of them run after the others in goroutines, which may
be null, and which resolvers may fail. `GraphQLRequest` is the executor over
them, for one request: fields begin in their order, wait for one another or run
together, a list waits for its elements, a null climbs to the next field that
may be null. An object is the path to it. Members' users are looked up in
`UserLoader`. A client asks for every field, but only fields in which something
can fail have steps of their own (`SelectionOf`). What resolvers do to the
stores is in the other modules.

### Capabilities

Operators without state, used by `TemplateSync`: `Validate` over a document, and
what the API server would say of the same tolerations (`ApiServerAccepts`,
external). `Validate` compares what `fmt.Sprintf("%v", ...)` prints of an entry,
while the resource carries the entry itself; so an entry is a pair of its type
and of what it prints as, and a key 5 or a value true passes. Which strings are
names and values of labels is a constant: `Validate` does not look. `Overlooked`
names everything that `Validate` accepts and the API server does not, and
`Misjudged` what it refuses without need: the two are exact.

## The runs

A *violation* run checks a property that a comment or README of the repository
states and the code does not keep; `PROJECT.json` quotes it under `findings`.

| run | instance | distinct states | shows |
|---|---|---|---|
| members_access | 2 users, 3 levels, 2 handlers, 1 visit | 137,481 | What is left when handlers overlap: a write whose read is current is an operation of the roster and leaves an admin (`FreshCommitIsAtomic`); a user is stored at most once per handler; first and any entry agree about admins; a project without admins stays so; the proxy is told what was true at some moment of the visit (`AnswersWereRight`). |
| lifecycle | 2 creations, 2 deletions, 2 objects, 3 stamps | 334,514 | `SettledUploadsKept` however deletions overlap and fail; a recorded backup no longer changes; half-created and half-deleted projects stay what they are; until the first fault or overlap of deletions a visible project is whole and the records lead to what was in the bucket (`RecordsLeadToData`). |
| accounts_faults | 2 people with one slug, 2 subjects, 5 key pairs, 2 requests, faults | 38,330 | Only the indexes keep users unique; a regeneration that is alone repairs the keys; a user without a secret stays so unless a namesake is created; a duplicated email stays. |
| accounts_secrets | the same with 1 request | violation | A user whose secret is missing regenerates its keys: the comment says the secret is created, the code refuses. |
| tools | 2 requests, 2 choices, 1 lost pod, 1 closed watch | 103,356 | `UserTools` implements `ToolsSession`; requests without rivals get what they asked for, whatever was left behind; the wait of a start ends, and so does that of a stop which sees its pod go. |
| tools_keys | 2 requests, 1 regeneration, 2 new pairs, 1 lost pod | 485,620 | Running tools hold the stored key unless a regeneration met a request, a resource or a failed check; a restart repairs it. |
| templates | 1 project, 2 tools with or without a runtime, 1 capability with 5 versions of its document, 2 modifications, 1 fault | 1,436,590 | When the goroutine is idle all but the missed resources have their template; tools only get tolerations that can be scheduled or that `Validate` overlooks; an update changes the choice only of tools that were created anew between listing and read. `ValidateIsExact` is evaluated over every single toleration whose entries are right, wrong, empty, null, missing or of another type. |
| templates_fields | 2 tools, 2 capabilities, 1 modification | violation | One user's node selector gets into another user's tools. |
| cloner | 1 project, 3 goroutines, 2 faults, 1 restart | 157,700 | A complete clone is kept and a failed one is tried again while no two goroutines are at work on the project; what a restart interrupts is never completed. |
| cloner_restart | 1 project, 1 goroutine, 1 restart, no fault | violation | The README promises that every repository is cloned; one that was being cloned at a restart never is. |
| service_accounts | 3 users, 2 with one slug, 2 workers | 331,188 | Until a fault accounts have their tokens however workers overlap; one without a token stays so after a fault; a kubeconfig is kept; an undisturbed start serves every user. Slugs of deleted users are excepted. |
| graphql | 2 users, up to 2 members, batches of 2, 4 requests, documents that appear meanwhile | 116,828 | `UserLoader` implements `UserLookup`, its batches end once and nobody is left out; errors take away what the schema says; no lookup outlives its field; mutations of a request agree about users; every request is answered. |

Why the bounds are enough. Most properties speak of one project, user, resource
or folder, and of what two (in the cloner, three: two rivals and a third that
comes after them) concurrent actors do to it; the visitor of a project's tools
is one of the two users that change. The two people of the accounts share a slug,
which has every anomaly of one secret for two documents; the behaviours of slugs
that differ are those of either alone. Three stamps let two deletions meet a backup that exists. Five key pairs are
more than two documents and a secret that all differ need with two regenerations
on top. Two modifications of a
template are the least for an update that is old before it is written; two new
key pairs let tools run with an older key than the one a regeneration replaces.
Two users with one slug and a third are enough for a worker that meets another's
account. The first project of a GraphQL request has up to two members and the
project of its second root field one. Two members and batches of two let a full batch race with its timer and
a later mutation meet the cache of an earlier one; the four requests have serial
and concurrent root fields, fields that may be null and resolvers that always
fail. One fault or restart per behaviour is enough because nothing counts them.
`MaxLosses`, `MaxCloses`, `MaxFaults`, `MaxCrashes`, `MaxChanges`, `MaxKeys`,
`MaxVersion` and `Width` bound what nothing else would. Symmetry is used only
for constants that `Init`, `Next` and the properties treat alike, and in no run
with a liveness property. `CHECK_DEADLOCK FALSE` is set where the system may
stop: a project without admins, all uploads, stamps or keys used up, a request
that has been answered.

What the conditions in the properties mean, and so what the code does not
promise without them:

- an admin is only kept while handlers do not overlap: two admins who demote or
  remove each other leave a project without one, for good
  (`LosingAdminsIsFinal`). Documents and secrets of keys only agree
  (`SoleRegenerationAgrees`) while regenerations do not overlap. A start that
  finds a resource without a pod, as one that crashed leaves it, is refused by
  Kubernetes, although a comment says that existing tools are replaced.
- *late uploads* may be lost by a deletion: nothing in the code says otherwise.
- `VisibleProjectIsWhole` needs `orderly`, because a deletion that was overtaken
  by another and by a new creation destroys the new project's bucket and
  resource; after a fault the stores part for good anyway, which
  `HalfCreatedIsFinal` and `HalfDeletedIsFinal` state.
- `QuietToolsHoldTheirKey` needs `quiet`, and `RestartRepairsKeys` a start in
  `clean` and `alone`: the check for a pod is made once, before the writes, and a
  start that overlaps them mounts the older key.
- In `ServiceAccounts`, the slug of a deleted user (`Doomed`) loses its account at
  every start of a server, whoever else bears it; after a fault (`faulted`) an
  account may be without a token, and then stays so.
- `StopReturns` is about waits that begin while the pod is there: a watch opened
  after the pod has gone reports nothing, and the handler waits until its client
  leaves. `StartReturns` excepts closed watches and resources that are removed
  under the start.
- `RecordsLeadToData` needs `orderly` too. `RecordedBackupsAreFinal` does not,
  and says less: a deletion that fails after its copy leaves a backup that no
  record names, and the one that succeeds later may record an empty backup of a
  bucket that was made anew in between.
- `Overlooked` in `Capabilities`: an entry that is no string but prints as a
  valid one (null prints as `<nil>`), a string that is no label, and
  `tolerationSeconds` beside another effect than NoExecute pass `Validate`, and
  the API server refuses the pod. Such tolerations do get into tools.
- `AbandonedForGood` of the accounts contradicts the comment of
  `RegenerateSSHKeys` that a missing secret is created; that of the cloner
  contradicts the promise of `src/repo-cloner/README.md` that every repository
  is cloned. Both are findings, with a run of their own. A user without a secret
  gets one only if another with the same slug is created, and then the other's.
- `Kubeconfig` is what getKubeconfig answers while the user's tools have a
  running pod; without one it is an error, before anything is read.
- `UpToDate` excepts resources in `missed`: conflicts, failed calls, creations
  from an older template, tools without a runtime or a capability, tools whose
  capability is no longer valid, and everything that is modified while nobody watches, although a comment calls the loop forever
  running.

## Fairness

Only liveness properties use it.

- `UserTools`: weak fairness of each request's own next step, since a goroutine
  is scheduled and its calls return; and of what the cluster does (make and run
  the pod of a resource, collect an orphan, finish an uninstallation), since its
  controllers retry. None for clients that leave, calls that fail, pods that are
  lost or watches that close. `StartReturns` and `StopReturns` hold under it.
- `RepoCloner`: weak fairness of the look (a ticker) and of each goroutine's
  step. Faults and restarts are bounded, so that retrying has an end.
- `ServiceAccounts`: weak fairness of each worker's next call and of Kubernetes'
  filling and removing of tokens, for `EveryUserServed`. Nothing makes a server
  start, a call fail or a worker stop.
- `GraphQLRequest`: weak fairness of the request as a whole (`Progress`), for
  `Responds`: each of its steps happens once, so that it is enough that some
  goroutine which can go on does, or a timer or query of the loader ends.

## The proofs

Each theorem is proved for every value of the constants from the named
assumptions of its module: sentinels differ from the values they stand beside,
bounds are natural numbers, handlers of members are a finite set, functions have
their domains, requests name fields of their operation. The type invariant comes first in each module, strengthened by
what later proofs need of it; it is proved and in no run. Where a theorem needs
more than its module assumes, the condition is in its statement.

- **ProjectMembersProofs.** `FreshCommitsAreAtomic` rests on `FreshPasses`: a
  handler whose read is current would still pass all of its checks. From it
  each commit maps to an operation of the roster, through one lemma per commit.
  `DuplicatesAreBounded` is not inductive as it stands: `DuplicatesInv` counts
  the entries of a user together with the additions of it that are yet to be
  written. `SequentialAdmin` (`AtLeastOneAdmin`), `SequentialRoster` (the refinement of
  `ProjectRoster`) and `SequentialUniqueness` assume `OneHandler`, under which
  every read is current: handled one at a time the checks of the code are enough.
  Both properties are false of overlapping handlers, and in no run. `FirstEntryAlwaysDecides` and `LosingAdminsIsForever`
  hold for any number of handlers. `AnswersAreRight`, about `ProjectAccess`: by
  `AccessInv` whoever has a standing has an entry and the other way round, since
  nothing but additions and removals makes or empties a user's entries, and
  `held` has the standing of every moment since the visit began.
- **ProjectLifecycleProofs.** `SettledUploadsAreKept`: the induction needs
  `ListedInv`, that of all the bucket holds only late uploads are neither still
  to be copied nor copied, for every deletion between its listing and its
  removal, also when another has removed the bucket and a creation has made it
  again. `OrderlyProjectsAreWhole`: under `orderly`, `CreationInv` and
  `DeletionInv` say what each handler knows of the three stores at each call.
  `HalfCreatedStays` and `HalfDeletedStays` go through the actions that are
  still enabled. `RecordedBackupsStay`: by `RecordInv` a stamp belongs to one
  deletion at most, and a recorded one to none that still copies.
  `OrderlyRecordsLeadToData` joins `KeptInv` (what was settled is in the bucket
  or a backup, and a deletion about to remove the bucket has copied it) and
  `WholeInv` (what each handler knows of the stores under `orderly`).
- **UserAccountsProofs.** `IndexedUsersAreUnique` is the binding check at the
  write, not the reads before it. `SoleRegenerationsAgree` needs that a sole
  regeneration past its first write owns the secret. `AbandonedUsersStayAbandoned`
  is about any slugs and goes through the writers of a secret: only a creation
  makes one, and it belongs to the user or to a namesake. `DuplicatesStay` needs `OwnKeys`, that a key pair is in one
  document only, to tell two documents that share an email apart.
- **UserToolsProofs.** `SessionIsImplemented` is the refinement of
  `ToolsSession` with faults, losses and any number of requests.
  `SoleStartsServe` and `SoleStopsComplete` come from one invariant: a pod that
  is not an orphan belongs to the resource, an event is there only where it was
  told, a request that is alone is the only one, and what it then knows at each
  position (`Knows`). `QuietToolsHoldTheKey` and `RestartsRepairKeys`, about
  `ToolsKeys`, join it in `KeysInv` with what holds while the history is quiet,
  and with what a clean start knows of the key at each of its positions.
- **ServiceAccountsProofs.** `Inv`: a worker that is past the choice of a user
  has one, and only the slugs of deleted users lose their accounts. From it
  `AccountsGetTokens` (an account without a token has the worker that made it),
  `TokenlessStays` and `KubeconfigsAreKept`, for any number of workers and users.
- **GraphQLRequestProofs**, the loader. `LoaderInv`: a batch is unused, the open
  one, or sent once (`BatchInv`); it is named after a lookup that has begun
  (`NameInv`); a query answers place by place (`DataInv`), so that a lookup that
  waits stands where its own key was sent (`WaitInv`); the cache holds what was
  told (`CacheInv`). `LookupIsImplemented`, the refinement of `UserLookup`,
  follows. `RequestUsesLoader` is that the executor's specification implies the
  loader's, because by `LookupInv` a lookup is begun once, by its own field: the
  theorems about the loader hold in every request (`LoaderPromisesHold`).
- **GraphQLRequestProofs**, the executor. The response is a tree of any depth,
  and the prover has no induction over it; the invariants carry it along instead.
  `TreeInv` keeps with each field all of those on the way to it (`Above`) and how
  they lie in one another. `NothingOutlives` is not inductive: a step only knows
  that the fields directly in a value are done (`ClosedInv`), and `DeepInv` has it
  for everything below. In the same way `NullInv` has at each field that is done
  what `NullsMatchFailures` says of the response: it is null exactly if a failure
  below it reaches it (`Hit`). `MutationsAgree` needs that by `RootInv` nobody
  below the earlier mutations waits when one begins, so that what they were told
  is cached (`KeptInv`), and that a later lookup of that user hits (`AgreeInv`).
  `SomethingGoesOn` says that until the response is written some action of
  `Progress` is possible: of the fields that run take a deepest one (`DepthInv`);
  it is a lookup, whose batch has been answered or goes on (`RunningInv`,
  `BatchInv`), or all that is in its value is done, or something in it can begin.
  It is what `Responds` needs of safety. The conditions of the actions are written
  out in it (`Able`), since the prover has no ENABLED; on the instance of the
  graphql run the model checker found them to be those of the actions.
- **RepoClonerProofs.** `CloneInv`: no two goroutines work on one project but for
  `rivals`, and one without a rival fills what it began and removes only where
  there is no repository. `CompletedClonesAreKept` and `AbandonedIsLeft` follow.
- **TemplateSyncProofs.** `SyncInv`: the goroutine has each resource before it, or
  will hear of a modification, or has brought it up to date, or has missed it
  (`CoveredInv`); `ResourcesAreUpToDate` is what that says when it is idle.
  `ChoicesAreKept` needs that what was listed is still the choice of a resource,
  unless the resource was made again (`ChoiceInv`).
- **TemplateSyncProofs**, the tolerations. `AcceptedAreSchedulable` and
  `RefusedAreMisjudged` compare the checks of one toleration with the rules of
  the API server, entry by entry, for entries of any type and text.
  `TolerationsCanBeScheduled`: the fields of the shared object, and of every spec
  made of it, come from versions that `Validate` accepted, whose tolerations can
  be scheduled or are overlooked. `ValidHaveFields`: a valid document sets a field.

`SchemaAssumption` of `GraphQLSchema` states what the proofs use of its tables. It
is about definitions, not constants, and the model checker evaluates it in full:
the tables are built with operators that the prover cannot unfold.

What is only model-checked is liveness (`StartReturns`, `StopReturns`,
`FailuresAreRetried`, `EveryUserServed`, `Responds`), because the prover has
neither fairness nor ENABLED.

## What is not modelled

- `updateProject`, `updateAccessLevel`, `UpdateLastActivity`: independent
  updates of single fields that nothing modelled reads.
- Of GraphQL: the reading of inputs, introspection, `@defer` and the transport.
  Of the loader: `LoadAll`, `Prime` and `Clear`, which nobody calls.
- `PodStatusFromK8sStatus`, a table from one value to another, of which
  `UserTools` has the only distinction that a request makes; the queries of
  runtimes and capabilities, which read collections the server never writes.
- Formatting, logging, parsing of templates (a template that cannot be parsed is
  a `SyncFails`), routes, configuration and health check: no state.
- The keycloak client and cron, which no code calls; the web client, the Helm
  charts, images and scripts, which are not the server's logic. Of operators,
  MinIO, Kubernetes and go-git the modules have what the server sees, marked
  external. Mocks and generated inputs are not modelled.
- Two servers at once in `TemplateSync`, which has a single goroutine. Elsewhere
  handlers of two servers are like handlers of one, so that members, lifecycle,
  accounts, service accounts and tools cover them.
- Six hazards have no property, because the code does what they say: uploads
  that a deletion cannot have seen, the end of the watch of the templates, the
  end of a watch of the tools (the loop spins), two goroutines of the cloner on
  one project, tools created anew between listing and read, a creation from a
  template that is modified meanwhile. The modules have the behaviours, and the
  conditions of the properties above except them by name.

## Plan

The order was: what holds the users' data first, then what concurrency makes
hard. All modules of it are written, and all their safety properties are proved:
`ProjectRoster`, `ProjectMembers`, `ProjectAccess`; `ProjectLifecycle`;
`UserAccounts`; `ToolsSession`, `UserTools`, `ToolsKeys`; `RepoCloner`;
`TemplateSync`; `ServiceAccounts`; `UserLookup`, `UserLoader`; `GraphQLSchema`,
`GraphQLRequest`; `Capabilities`.

What is left, the most useful first:

1. The safety halves of the other liveness properties, as `SomethingGoesOn` is
   that of `Responds`: that a worker of `ServiceAccounts`, a start or stop of the
   tools and a goroutine of the cloner can always go on, and that their steps
   lead towards the end.
2. The cloner beside the member mutations: what a removed member still gets.
3. `TemplateSync` with the goroutines of two servers.
