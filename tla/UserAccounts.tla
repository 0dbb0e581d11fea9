---------------------------- MODULE UserAccounts ----------------------------
(***************************************************************************)
(* The users of the server and their SSH keys: AuthMiddleware, which makes *)
(* a user of whoever the proxy lets through, and the regenerateSSHKey      *)
(* mutation (app/api/http/middleware/auth.go,                              *)
(* app/api/usecase/user/interactor.go), over the user collection in        *)
(* MongoDB and the key secrets in Kubernetes.                              *)
(*                                                                         *)
(* Every request runs in its own goroutine, and the first page a new user  *)
(* opens sends several.  Each call to a store is one action: the checks    *)
(* that a user is new are reads, only the unique indexes are binding, and  *)
(* those are built when a server starts, or not: a failure is only logged. *)
(*                                                                         *)
(* A document's username is the local part of its email, and the name of   *)
(* the secret is the slug of the username: both may coincide for different *)
(* users.  Documents never carry the same key, so they are a set.          *)
(***************************************************************************)
CONSTANTS
    Emails,     \* X-Forwarded-Email: who is logged in
    Subs,       \* X-Forwarded-User: the identity provider's subject
    Usernames,
    Slugs,
    Username,   \* kdlutil.GetUsernameFromEmail
    Slug,       \* slug.Make, with "_" replaced by "-"
    Keys,       \* SSH key pairs
    NoKey,      \* a secret that does not exist, a handler that made no keys
    Handlers,   \* the requests that can be served at the same time
    Faults      \* whether calls fail, and servers stop, of their own accord

ASSUME NamesAssumption ==
    Username \in [Emails -> Usernames] /\ Slug \in [Usernames -> Slugs]
ASSUME NoKeyAssumption == NoKey \notin Keys
ASSUME FaultsAssumption == Faults \in BOOLEAN

VARIABLES
    users,      \* the documents of the user collection
    indexes,    \* the fields that have a unique index
    started,    \* a server has been started
    secret,     \* the SSH key secret of each slug
    handler,    \* the next call of each request, with its data
    alone       \* history: regenerations that have had the secret to themselves

vars == <<users, indexes, started, secret, handler, alone>>

-----------------------------------------------------------------------------

User == [email : Emails, sub : Subs, key : Keys]

UniqueFields == {"email", "username", "sub"}

Field(u) == [email |-> u.email, username |-> Username[u.email], sub |-> u.sub]

SlugOf(e) == Slug[Username[e]]

\* The reads of Create, and the calls that follow each of them.
Checks == {"username", "email", "sub"}

Creating == Checks \union {"insert", "secret"}

Regenerating == {"updateSecret", "updateKey"}

Calls == Creating \union Regenerating \union {"account", "subCheck", "subWrite", "serve"}

Request == [at : Calls, email : Emails, sub : Subs, key : Keys \union {NoKey}]

Idle == [at |-> "idle"]

Busy(h) == handler[h].at # "idle"

TypeOK ==
    /\ users \in SUBSET User
    /\ indexes \in SUBSET UniqueFields
    /\ started \in BOOLEAN
    /\ secret \in [Slugs -> Keys \union {NoKey}]
    /\ handler \in [Handlers -> Request \union {Idle}]
    /\ alone \in SUBSET Handlers

Init ==
    /\ users = {}
    /\ indexes = {}
    /\ started = FALSE
    /\ secret = [s \in Slugs |-> NoKey]
    /\ handler = [h \in Handlers |-> Idle]
    /\ alone = {}

\* sshGenerator.NewKeys: a pair that nobody has.
Fresh(k) ==
    /\ \A u \in users : u.key # k
    /\ \A s \in Slugs : secret[s] # k
    /\ \A h \in Handlers : Busy(h) => handler[h].key # k

\* What MongoDB refuses with a duplicate key error.
Clash(u, others) == \E v \in others, f \in indexes : Field(u)[f] = Field(v)[f]

Unique == \A u, v \in users : u # v => \A f \in UniqueFields : Field(u)[f] # Field(v)[f]

Goto(h, call) == handler' = [handler EXCEPT ![h].at = call]

GotoWith(h, call, k) == handler' = [handler EXCEPT ![h] = [@ EXCEPT !.at = call, !.key = k]]

Answer(h) ==
    /\ handler' = [handler EXCEPT ![h] = Idle]
    /\ alone' = alone \ {h}

-----------------------------------------------------------------------------
(***************************************************************************)
(* A server starts: EnsureIndexes builds the indexes, unless documents     *)
(* that clash or a fault prevent it; either way the server then listens.   *)
(***************************************************************************)

\* Mutant: the index on sub is forgotten.
EnsureIndexesWithoutSub ==
    /\ \/ Unique /\ indexes' = {"email", "username"}
       \/ (Faults \/ ~Unique) /\ UNCHANGED indexes
    /\ started' = TRUE
    /\ UNCHANGED <<users, secret, handler, alone>>

\* Mutant: documents that clash are dropped to build the index (dropDups).
EnsureIndexesDropping ==
    /\ \/ /\ users' = {CHOOSE u \in users : u.email = e : e \in {u.email : u \in users}}
          /\ indexes' = UniqueFields
       \/ Faults /\ UNCHANGED <<users, indexes>>
    /\ started' = TRUE
    /\ UNCHANGED <<secret, handler, alone>>

EnsureIndexes ==
    /\ \/ Unique /\ indexes' = UniqueFields
       \/ (Faults \/ ~Unique) /\ UNCHANGED indexes
    /\ started' = TRUE
    /\ UNCHANGED <<users, secret, handler, alone>>

-----------------------------------------------------------------------------
(***************************************************************************)
(* AuthMiddleware: GetByEmail decides what is to be done first.  When it   *)
(* fails otherwise than by finding nobody, the middleware goes on with the *)
(* zero user into UpdateSub, whose filter then matches no document: the    *)
(* request ends with an error and nothing has changed, as in Fail.         *)
(***************************************************************************)
Arrive(h, e, s) ==
    /\ started
    /\ ~Busy(h)
    /\ \E next \in {"username", "serve", "subCheck"} :
        /\ CASE next = "username" -> \A u \in users : u.email # e
             [] next = "serve"    -> \E u \in users : u.email = e /\ u.sub = s
             [] next = "subCheck" -> \E u \in users : u.email = e /\ u.sub # s
        /\ handler' = [handler EXCEPT ![h] =
                        [at |-> next, email |-> e, sub |-> s, key |-> NoKey]]
    /\ UNCHANGED <<users, indexes, started, secret, alone>>

\* The user the request would add.
Newcomer(h) == [email |-> handler[h].email, sub |-> handler[h].sub, key |-> handler[h].key]

Taken(h, f) == \E u \in users : Field(u)[f] = Field(Newcomer(h))[f]

After(check) ==
    CASE check = "username" -> "email" [] check = "email" -> "sub" [] check = "sub" -> "insert"

\* GetByUsername, GetByEmail and GetBySub each found nobody.
CheckNew(h) ==
    /\ handler[h].at \in Checks
    /\ ~Taken(h, handler[h].at)
    /\ Goto(h, After(handler[h].at))
    /\ UNCHANGED <<users, indexes, started, secret, alone>>

\* NewKeys and InsertOne.
InsertUser(h, k) ==
    LET u == [Newcomer(h) EXCEPT !.key = k] IN
    /\ handler[h].at = "insert"
    /\ Fresh(k)
    /\ ~Clash(u, users)
    /\ users' = users \union {u}
    /\ GotoWith(h, "secret", k)
    /\ UNCHANGED <<indexes, started, secret, alone>>

\* CreateUserSSHKeySecret.
CreateSecret(h) ==
    LET s == SlugOf(handler[h].email) IN
    /\ handler[h].at = "secret"
    /\ secret[s] = NoKey
    /\ secret' = [secret EXCEPT ![s] = handler[h].key]
    /\ Goto(h, "account")
    /\ UNCHANGED <<users, indexes, started, alone>>

\* CreateUserServiceAccount: nothing here depends on the account it makes.
CreateAccount(h) ==
    /\ handler[h].at = "account"
    /\ \/ Goto(h, "serve") /\ UNCHANGED alone
       \/ Answer(h)
    /\ UNCHANGED <<users, indexes, started, secret>>

\* UpdateSub's check: only a user that is found stops it, an error does not.
CheckSub(h) ==
    /\ handler[h].at = "subCheck"
    /\ Taken(h, "sub") => Faults
    /\ Goto(h, "subWrite")
    /\ UNCHANGED <<users, indexes, started, secret, alone>>

\* UpdateOne by username.
UpdateSub(h) ==
    /\ handler[h].at = "subWrite"
    /\ \E u \in users :
        LET v == [u EXCEPT !.sub = handler[h].sub] IN
        /\ Username[u.email] = Username[handler[h].email]
        /\ ~Clash(v, users \ {u})
        /\ users' = (users \ {u}) \union {v}
    /\ Goto(h, "serve")
    /\ UNCHANGED <<indexes, started, secret, alone>>

\* The server serves the request: anything but regenerateSSHKey ends here.
Serve(h) ==
    /\ handler[h].at = "serve"
    /\ Answer(h)
    /\ UNCHANGED <<users, indexes, started, secret>>

-----------------------------------------------------------------------------
(***************************************************************************)
(* RegenerateSSHKeys, for the user that is logged in.                      *)
(***************************************************************************)
SharesSecret(g, h) ==
    /\ handler[g].at \in Creating \union Regenerating
    /\ SlugOf(handler[g].email) = SlugOf(handler[h].email)

\* The user exists, its tools do not run (UserTools), and it has new keys.
GenerateKeys(h, k) ==
    LET rivals == {g \in Handlers \ {h} : SharesSecret(g, h)} IN
    /\ handler[h].at = "serve"
    /\ \E u \in users : u.email = handler[h].email
    /\ Fresh(k)
    /\ GotoWith(h, "updateSecret", k)
    /\ alone' = (alone \ rivals) \union (IF rivals = {} THEN {h} ELSE {})
    /\ UNCHANGED <<users, indexes, started, secret>>

\* Mutant: a secret that is missing is left missing.
UpdateSecretIfThere(h) ==
    LET s == SlugOf(handler[h].email) IN
    /\ handler[h].at = "updateSecret"
    /\ secret' = [secret EXCEPT ![s] = IF @ = NoKey THEN NoKey ELSE handler[h].key]
    /\ Goto(h, "updateKey")
    /\ UNCHANGED <<users, indexes, started, alone>>

\* Mutant: a secret that is missing is created.
UpdateSecretOrCreate(h) ==
    LET s == SlugOf(handler[h].email) IN
    /\ handler[h].at = "updateSecret"
    /\ secret' = [secret EXCEPT ![s] = handler[h].key]
    /\ Goto(h, "updateKey")
    /\ UNCHANGED <<users, indexes, started, alone>>

\* UpdateUserSSHKeySecret: Kubernetes updates what exists.
UpdateSecret(h) ==
    LET s == SlugOf(handler[h].email) IN
    /\ handler[h].at = "updateSecret"
    /\ secret[s] # NoKey
    /\ secret' = [secret EXCEPT ![s] = handler[h].key]
    /\ Goto(h, "updateKey")
    /\ UNCHANGED <<users, indexes, started, alone>>

\* UpdateSSHKey: UpdateOne by username.
UpdateKey(h) ==
    /\ handler[h].at = "updateKey"
    /\ \E u \in users :
        /\ Username[u.email] = Username[handler[h].email]
        /\ users' = (users \ {u}) \union {[u EXCEPT !.key = handler[h].key]}
    /\ Answer(h)
    /\ UNCHANGED <<indexes, started, secret>>

-----------------------------------------------------------------------------

\* ErrDuplicatedUser, a duplicate key, AlreadyExists or NotFound.
Refused(h) ==
    /\ \/ handler[h].at \in Checks /\ Taken(h, handler[h].at)
       \/ handler[h].at = "insert" /\ Clash(Newcomer(h), users)
       \/ handler[h].at = "secret" /\ secret[SlugOf(handler[h].email)] # NoKey
       \/ handler[h].at = "subCheck" /\ Taken(h, "sub")
       \/ /\ handler[h].at = "subWrite"
          /\ "sub" \in indexes
          /\ \E u \in users : /\ u.sub = handler[h].sub
                             /\ Username[u.email] # Username[handler[h].email]
       \/ handler[h].at = "updateSecret" /\ secret[SlugOf(handler[h].email)] = NoKey
    /\ Answer(h)
    /\ UNCHANGED <<users, indexes, started, secret>>

\* A call fails, or the server stops.
Fail(h) ==
    /\ Faults
    /\ Busy(h)
    /\ Answer(h)
    /\ UNCHANGED <<users, indexes, started, secret>>

Next ==
    \/ EnsureIndexes
    \/ \E h \in Handlers :
        \/ \E e \in Emails, s \in Subs : Arrive(h, e, s)
        \/ CheckNew(h)
        \/ \E k \in Keys : InsertUser(h, k) \/ GenerateKeys(h, k)
        \/ CreateSecret(h)
        \/ CreateAccount(h)
        \/ CheckSub(h)
        \/ UpdateSub(h)
        \/ Serve(h)
        \/ UpdateSecret(h)
        \/ UpdateKey(h)
        \/ Refused(h)
        \/ Fail(h)

Spec == Init /\ [][Next]_vars

-----------------------------------------------------------------------------
(***************************************************************************)
(* "email, username and sub must be unique" (Create).  The checks of       *)
(* Create and UpdateSub are torn from their writes, so that overlapping    *)
(* requests pass them together: only the indexes, once some server could   *)
(* build them, keep the promise, for whatever is asked of which server.    *)
(***************************************************************************)
UniqueUsers == indexes # {} => Unique

(***************************************************************************)
(* A regeneration that answers, and had the secret to itself, leaves the   *)
(* pair it generated in both places, whatever failed before: regenerating  *)
(* again repairs a user whose keys had parted.                             *)
(***************************************************************************)
SoleRegenerationAgrees ==
    [][\A h \in alone :
        handler[h].at = "updateKey" /\ users' # users /\ handler'[h] = Idle
            => /\ secret'[SlugOf(handler[h].email)] = handler[h].key
               /\ \E u \in users' : /\ Username[u.email] = Username[handler[h].email]
                                    /\ u.key = handler[h].key]_vars

(***************************************************************************)
(* A user whose secret was not created, because Create failed after it had *)
(* stored the document, never makes it: the next request finds the user    *)
(* and skips Create, and RegenerateSSHKeys only updates.  What ends it is  *)
(* the creation of another user whose slug is the same, and who thereby    *)
(* gives the first one its own keys.                                       *)
(***************************************************************************)
Abandoned(e) ==
    /\ \E u \in users : u.email = e
    /\ secret[SlugOf(e)] = NoKey
    /\ \A h \in Handlers : Busy(h) /\ handler[h].email = e => handler[h].at \notin Creating

Namesake(h, e) == handler[h].email # e /\ SlugOf(handler[h].email) = SlugOf(e)

AbandonedForGood ==
    [][\A e \in Emails : Abandoned(e) =>
        Abandoned(e)' \/ \E h \in Handlers : CreateSecret(h) /\ Namesake(h, e)]_vars

(***************************************************************************)
(* "Check if k8s secret exists. If yes, update it. Else, create it." (the  *)
(* comment of RegenerateSSHKeys): no regeneration ends because there is no *)
(* secret to update.                                                       *)
(***************************************************************************)
MissingSecretsAreCreated ==
    [][\A h \in Handlers : Refused(h) => handler[h].at # "updateSecret"]_vars

(***************************************************************************)
(* A server that could not build the indexes lets overlapping requests     *)
(* store one email twice, and then no restart ever builds them.            *)
(***************************************************************************)
Twice(e) == \E u, v \in users : u # v /\ u.email = e /\ v.email = e

DuplicatesAreFinal == [][\A e \in Emails : Twice(e) => Twice(e)' /\ indexes' = indexes]_vars

=============================================================================
