--------------------------- MODULE ServiceAccounts ---------------------------
(***************************************************************************)
(* The service account and the token of each user                          *)
(* (app/api/infrastructure/k8s/service_account.go, kubeconfig.go), made    *)
(* when the user is created and whenever a server starts                   *)
(* (SynchronizeServiceAccountsForUsers in                                  *)
(* app/api/usecase/user/interactor.go).                                    *)
(*                                                                         *)
(* A worker is a server that starts, or the request that creates a user.   *)
(* Each call to Kubernetes is one action.  A call may fail and a worker    *)
(* may stop at any point; a starting server logs what failed for a user    *)
(* and goes on with the next.  Accounts and tokens are named by the slug   *)
(* of the username, which different users may share.                       *)
(*                                                                         *)
(* Kubernetes fills the secret of a token, and removes it when its account *)
(* is gone or was made anew: both external.                                *)
(***************************************************************************)
CONSTANTS
    Users,
    Slugs,
    Slug,       \* User.UsernameSlug
    Workers,    \* the servers and the requests that run at the same time
    None        \* no account, no user

ASSUME SlugAssumption == Slug \in [Users -> Slugs]

ASSUME NoneAssumption == None \notin Users \union {"legacy", "mounted"}

VARIABLES
    users,      \* the users that have a document
    deleted,    \* those that are marked as deleted
    account,    \* the service account of each slug
    token,      \* the secret with its token
    worker,     \* the workers
    faulted     \* history: a call has failed or a worker has stopped

vars == <<users, deleted, account, token, worker, faulted>>

-----------------------------------------------------------------------------

\* A legacy account is from before tokens were made by the server: its automount
\* is nil, and it lists a secret that Kubernetes made.
Accounts == {"legacy", "mounted"}

\* A stale token belongs to an account that was deleted.
Tokens == {"absent", "empty", "filled", "stale"}

Calls == {"next", "get", "create", "token", "update", "delete"}

Worker == [at : Calls, todo : SUBSET Users, user : Users \union {None}]

Idle == [at |-> "idle"]

TypeOK ==
    /\ users \in SUBSET Users
    /\ deleted \in SUBSET Users
    /\ account \in [Slugs -> Accounts \union {None}]
    /\ token \in [Slugs -> Tokens]
    /\ worker \in [Workers -> Worker \union {Idle}]
    /\ faulted \in BOOLEAN

Init ==
    /\ users \in SUBSET Users
    /\ deleted \in SUBSET users
    /\ account \in [Slugs -> {None, "legacy"}]
    /\ token = [s \in Slugs |-> "absent"]
    /\ worker = [w \in Workers |-> Idle]
    /\ faulted = FALSE

At(w, call) == worker[w].at = call

SlugOf(w) == Slug[worker[w].user]

Goto(w, call) == worker' = [worker EXCEPT ![w].at = call]

\* What a worker does after a user: a server goes on, a request ends.
Proceed(w) ==
    worker' = [worker EXCEPT ![w] =
        IF @.todo = {} THEN Idle ELSE [@ EXCEPT !.at = "next", !.user = None]]

-----------------------------------------------------------------------------
(***************************************************************************)
(* The workers.                                                            *)
(***************************************************************************)
\* FindAll: deleted users are among the result.
StartServer(w) ==
    /\ worker[w] = Idle
    /\ users # {}
    /\ worker' = [worker EXCEPT ![w] = [at |-> "next", todo |-> users, user |-> None]]
    /\ UNCHANGED <<users, deleted, account, token, faulted>>

\* Create has stored the document.  It comes to the service account unless the
\* key secret cannot be made, as when another user has the slug.
CreateUser(w, u) ==
    /\ worker[w] = Idle
    /\ u \notin users
    /\ users' = users \union {u}
    /\ \/ /\ \A v \in users : Slug[v] # Slug[u]
          /\ worker' = [worker EXCEPT ![w] = [at |-> "get", todo |-> {}, user |-> u]]
       \/ UNCHANGED worker
    /\ UNCHANGED <<deleted, account, token, faulted>>

\* Mutant: nobody asks whether the user is deleted.
NextUserDeleting(w, u) ==
    /\ At(w, "next")
    /\ u \in worker[w].todo
    /\ worker' = [worker EXCEPT ![w] =
        [at |-> "delete", todo |-> @.todo \ {u}, user |-> u]]
    /\ UNCHANGED <<users, deleted, account, token, faulted>>

NextUser(w, u) ==
    /\ At(w, "next")
    /\ u \in worker[w].todo
    /\ worker' = [worker EXCEPT ![w] =
        [at |-> IF u \in deleted THEN "delete" ELSE "get",
         todo |-> @.todo \ {u}, user |-> u]]
    /\ UNCHANGED <<users, deleted, account, token, faulted>>

\* Mutant: an account without a token is made again.
GetAccountAndToken(w) ==
    /\ At(w, "get")
    /\ CASE account[SlugOf(w)] = None -> Goto(w, "create")
         [] account[SlugOf(w)] = "legacy" -> Goto(w, "update")
         [] account[SlugOf(w)] = "mounted" ->
                IF token[SlugOf(w)] = "absent" THEN Goto(w, "token") ELSE Proceed(w)
    /\ UNCHANGED <<users, deleted, account, token, faulted>>

\* GetUserServiceAccount: an account whose automount is set is left alone.
GetAccount(w) ==
    /\ At(w, "get")
    /\ CASE account[SlugOf(w)] = None -> Goto(w, "create")
         [] account[SlugOf(w)] = "legacy" -> Goto(w, "update")
         [] account[SlugOf(w)] = "mounted" -> Proceed(w)
    /\ UNCHANGED <<users, deleted, account, token, faulted>>

CreateAccount(w) ==
    /\ At(w, "create")
    /\ account[SlugOf(w)] = None
    /\ account' = [account EXCEPT ![SlugOf(w)] = "mounted"]
    /\ Goto(w, "token")
    /\ UNCHANGED <<users, deleted, token, faulted>>

\* Mutant: the token is left to Kubernetes, as it used to be.
UpdateAutomountOnly(w) ==
    /\ At(w, "update")
    /\ account[SlugOf(w)] = "legacy"
    /\ account' = [account EXCEPT ![SlugOf(w)] = "mounted"]
    /\ Proceed(w)
    /\ UNCHANGED <<users, deleted, token, faulted>>

\* Kubernetes refuses the update when the account is not the one that was read.
UpdateAutomount(w) ==
    /\ At(w, "update")
    /\ account[SlugOf(w)] = "legacy"
    /\ account' = [account EXCEPT ![SlugOf(w)] = "mounted"]
    /\ Goto(w, "token")
    /\ UNCHANGED <<users, deleted, token, faulted>>

\* createSecretTypeServiceAccountToken.
CreateToken(w) ==
    /\ At(w, "token")
    /\ token[SlugOf(w)] = "absent"
    /\ token' = [token EXCEPT ![SlugOf(w)] = "empty"]
    /\ Proceed(w)
    /\ UNCHANGED <<users, deleted, account, faulted>>

\* A token that was filled stays behind until Kubernetes removes it.
DeleteAccount(w) ==
    /\ At(w, "delete")
    /\ account[SlugOf(w)] # None
    /\ account' = [account EXCEPT ![SlugOf(w)] = None]
    /\ token' = [token EXCEPT ![SlugOf(w)] = IF @ = "filled" THEN "stale" ELSE @]
    /\ Proceed(w)
    /\ UNCHANGED <<users, deleted, faulted>>

\* Mutant: the first error ends the start of a server.
RefusedReturning(w) ==
    /\ \/ At(w, "create") /\ account[SlugOf(w)] # None
       \/ At(w, "update") /\ account[SlugOf(w)] # "legacy"
       \/ At(w, "token") /\ token[SlugOf(w)] # "absent"
       \/ At(w, "delete") /\ account[SlugOf(w)] = None
    /\ worker' = [worker EXCEPT ![w] = Idle]
    /\ UNCHANGED <<users, deleted, account, token, faulted>>

\* What is to be made exists, or what is to be changed does not.
Refused(w) ==
    /\ \/ At(w, "create") /\ account[SlugOf(w)] # None
       \/ At(w, "update") /\ account[SlugOf(w)] # "legacy"
       \/ At(w, "token") /\ token[SlugOf(w)] # "absent"
       \/ At(w, "delete") /\ account[SlugOf(w)] = None
    /\ Proceed(w)
    /\ UNCHANGED <<users, deleted, account, token, faulted>>

\* A call fails and the worker proceeds, or it stops altogether.
Fail(w) ==
    /\ worker[w] # Idle
    /\ \/ ~At(w, "next") /\ Proceed(w)
       \/ worker' = [worker EXCEPT ![w] = Idle]
    /\ faulted' = TRUE
    /\ UNCHANGED <<users, deleted, account, token>>

-----------------------------------------------------------------------------
(***************************************************************************)
(* Kubernetes.                                                             *)
(***************************************************************************)
FillToken(s) ==
    /\ account[s] # None
    /\ token[s] = "empty"
    /\ token' = [token EXCEPT ![s] = "filled"]
    /\ UNCHANGED <<users, deleted, account, worker, faulted>>

RemoveToken(s) ==
    /\ token[s] = "stale" \/ (token[s] = "empty" /\ account[s] = None)
    /\ token' = [token EXCEPT ![s] = "absent"]
    /\ UNCHANGED <<users, deleted, account, worker, faulted>>

-----------------------------------------------------------------------------

Step(w) ==
    \/ \E u \in Users : NextUser(w, u)
    \/ GetAccount(w)
    \/ CreateAccount(w)
    \/ UpdateAutomount(w)
    \/ CreateToken(w)
    \/ DeleteAccount(w)
    \/ Refused(w)

Next ==
    \/ \E w \in Workers :
        \/ StartServer(w)
        \/ \E u \in Users : CreateUser(w, u)
        \/ Step(w)
        \/ Fail(w)
    \/ \E s \in Slugs : FillToken(s) \/ RemoveToken(s)

Spec == Init /\ [][Next]_vars

(***************************************************************************)
(* Workers go on as long as they can, and Kubernetes fills the tokens of   *)
(* accounts.  Nothing makes a server start, a call fail or a worker stop.  *)
(***************************************************************************)
Fairness ==
    /\ \A w \in Workers : WF_vars(Step(w))
    /\ \A s \in Slugs : WF_vars(FillToken(s)) /\ WF_vars(RemoveToken(s))

FairSpec == Spec /\ Fairness

-----------------------------------------------------------------------------

\* The slugs of deleted users.
Doomed(s) == \E u \in deleted : Slug[u] = s

\* A worker has made the account and is about to make the token.
Tokening(s) == \E w \in Workers : At(w, "token") /\ SlugOf(w) = s

(***************************************************************************)
(* GetUserKubeconfig: an error, or a kubeconfig with what the first secret *)
(* of the account holds, which may be nothing yet, or no longer valid.     *)
(* GetKubeconfig of usecase/user asks for it only while the user's tools   *)
(* have a running pod: this is what it answers then.                       *)
(***************************************************************************)
Kubeconfig(s) ==
    CASE account[s] = None -> "error"
      [] account[s] = "legacy" -> "filled"
      [] account[s] = "mounted" /\ token[s] = "absent" -> "error"
      [] OTHER -> token[s]

(***************************************************************************)
(* However many servers start and users are created at the same time, an   *)
(* account has its token, or the one worker that made it is about to make  *)
(* it: as long as no call fails and no worker stops, and unless a deleted  *)
(* user has the same slug.                                                 *)
(***************************************************************************)
AccountsHaveTokens ==
    ~faulted => \A s \in Slugs :
        account[s] = "mounted" /\ ~Doomed(s) => token[s] # "absent" \/ Tokening(s)

(***************************************************************************)
(* One failure is for good: CreateUserServiceAccount looks at the account  *)
(* and not at the token, so that an account whose token was not made gets  *)
(* none from any later start, and its user's kubeconfig stays an error.    *)
(***************************************************************************)
TokenlessForGood ==
    [][\A s \in Slugs :
        account[s] = "mounted" /\ token[s] = "absent" /\ ~Tokening(s) /\ ~Doomed(s)
            => /\ account'[s] = "mounted" /\ token'[s] = "absent"
               /\ ~Tokening(s)' /\ Kubeconfig(s)' = "error"]_vars

(***************************************************************************)
(* A kubeconfig that can be had stays: neither another start nor a user    *)
(* with the same slug takes the token away, and no kubeconfig is ever made *)
(* of the token of an earlier account, unless a deleted user has the slug. *)
(* Only the update of a legacy account, whose secret it replaces,          *)
(* interrupts it.                                                          *)
(***************************************************************************)
KubeconfigIsKept ==
    [][\A s \in Slugs :
        ~Doomed(s) /\ Kubeconfig(s) = "filled" /\ Kubeconfig(s)' # "filled"
            => account[s] = "legacy" /\ Tokening(s)']_vars

(***************************************************************************)
(* SynchronizeServiceAccountsForUsers "ensures all users has their         *)
(* serviceAccount created": after a start that nothing disturbs every user *)
(* gets a kubeconfig in the end, unless a deleted user has the same slug.  *)
(***************************************************************************)
EveryUserServed ==
    \A u \in Users :
        (\E w \in Workers : At(w, "next") /\ u \in worker[w].todo)
            ~> \/ Kubeconfig(Slug[u]) = "filled"
               \/ Doomed(Slug[u])
               \/ faulted

=============================================================================
