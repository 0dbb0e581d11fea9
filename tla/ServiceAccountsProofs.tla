------------------------ MODULE ServiceAccountsProofs ------------------------
(***************************************************************************)
(* What ServiceAccounts guarantees for any number of users, slugs and      *)
(* workers, whatever calls fail and wherever workers stop.                 *)
(***************************************************************************)
EXTENDS ServiceAccounts, TLAPS

\* A worker that is past "next" is busy with a user.
BusyInv ==
    \A w \in Workers :
        worker[w].at \in {"get", "create", "token", "update", "delete"}
            => worker[w].user \in Users

\* Only the accounts of deleted users are deleted, and so only their slugs have
\* tokens of accounts that are gone.
DoomInv ==
    /\ \A w \in Workers : At(w, "delete") => worker[w].user \in deleted
    /\ \A s \in Slugs : token[s] = "stale" => Doomed(s)

Inv == TypeOK /\ BusyInv /\ DoomInv

-----------------------------------------------------------------------------
(***************************************************************************)
(* What the workers' steps do to a worker.                                 *)
(***************************************************************************)
LEMMA NextWorker ==
    ASSUME Inv, NEW w \in Workers, NEW r \in Worker \union {Idle},
           worker' = [worker EXCEPT ![w] = r], deleted' = deleted,
           r.at \in {"get", "create", "token", "update", "delete"} => r.user \in Users,
           r.at = "delete" => r.user \in deleted
    PROVE  /\ worker' \in [Workers -> Worker \union {Idle}]
           /\ BusyInv'
           /\ \A v \in Workers : At(v, "delete")' => worker'[v].user \in deleted'
BY DEF Inv, TypeOK, BusyInv, DoomInv, At

LEMMA GotoWorker ==
    ASSUME Inv, NEW w \in Workers, NEW call \in Calls, Goto(w, call),
           worker[w].at \in {"get", "create", "token", "update", "delete"},
           call # "delete", deleted' = deleted
    PROVE  /\ worker' \in [Workers -> Worker \union {Idle}]
           /\ BusyInv'
           /\ \A v \in Workers : At(v, "delete")' => worker'[v].user \in deleted'
<1> DEFINE r == [worker[w] EXCEPT !.at = call]
<1>1. worker[w] \in Worker /\ worker[w].user \in Users
  BY DEF Inv, TypeOK, BusyInv, Worker, Idle
<1>2. r \in Worker /\ r.at = call /\ r.user = worker[w].user
  BY <1>1 DEF Worker
<1>3. worker' = [worker EXCEPT ![w] = r]
  BY DEF Goto
<1> HIDE DEF r
<1> QED  BY <1>1, <1>2, <1>3, NextWorker

LEMMA ProceedWorker ==
    ASSUME Inv, NEW w \in Workers, Proceed(w), worker[w].at # "idle", deleted' = deleted
    PROVE  /\ worker' \in [Workers -> Worker \union {Idle}]
           /\ BusyInv'
           /\ \A v \in Workers : At(v, "delete")' => worker'[v].user \in deleted'
<1> DEFINE r == IF worker[w].todo = {} THEN Idle
                ELSE [worker[w] EXCEPT !.at = "next", !.user = None]
<1>1. worker[w] \in Worker
  BY DEF Inv, TypeOK, Worker, Idle
<1>2. r \in Worker \union {Idle} /\ r.at \in {"idle", "next"}
  BY <1>1 DEF Worker, Idle, Calls
<1>3. worker' = [worker EXCEPT ![w] = r]
  BY DEF Proceed
<1> HIDE DEF r
<1> QED  BY <1>2, <1>3, NextWorker

LEMMA StopWorker ==
    ASSUME Inv, NEW w \in Workers, worker' = [worker EXCEPT ![w] = Idle], deleted' = deleted
    PROVE  /\ worker' \in [Workers -> Worker \union {Idle}]
           /\ BusyInv'
           /\ \A v \in Workers : At(v, "delete")' => worker'[v].user \in deleted'
BY NextWorker DEF Idle

\* A slug in the hands of a worker.
LEMMA BusySlug ==
    ASSUME Inv, NEW w \in Workers,
           worker[w].at \in {"get", "create", "token", "update", "delete"}
    PROVE  worker[w].user \in Users /\ SlugOf(w) \in Slugs
BY SlugAssumption DEF Inv, BusyInv, SlugOf

\* The slug of an account that is about to be deleted.
LEMMA DeletedSlug ==
    ASSUME Inv, NEW w \in Workers, At(w, "delete")
    PROVE  Doomed(SlugOf(w))
BY DEF Inv, DoomInv, Doomed, SlugOf

-----------------------------------------------------------------------------
(***************************************************************************)
(* The invariant.                                                          *)
(***************************************************************************)
LEMMA InitInv == Init => Inv
<1> SUFFICES ASSUME Init PROVE Inv
  OBVIOUS
<1>1. TypeOK
  BY DEF Init, TypeOK, Accounts, Tokens
<1>2. BusyInv /\ DoomInv
  BY DEF Init, BusyInv, DoomInv, At, Idle
<1> QED  BY <1>1, <1>2 DEF Inv

LEMMA StepInv == Inv /\ [Next]_vars => Inv'
<1> SUFFICES ASSUME Inv, [Next]_vars PROVE Inv'
  OBVIOUS
<1> DEFINE WorkersFine ==
      /\ worker' \in [Workers -> Worker \union {Idle}]
      /\ BusyInv'
      /\ \A v \in Workers : At(v, "delete")' => worker'[v].user \in deleted'
<1>0. TypeOK
  BY DEF Inv
\* A step that leaves the tokens alone or makes none stale.
<1>a. ASSUME WorkersFine, deleted' = deleted, users' \in SUBSET Users, faulted' \in BOOLEAN,
             account' \in [Slugs -> Accounts \union {None}], token' \in [Slugs -> Tokens],
             \A s \in Slugs : token'[s] = "stale" => token[s] = "stale" \/ Doomed(s)
      PROVE  Inv'
  <2>1. TypeOK'
    BY <1>a, <1>0 DEF TypeOK
  <2>2. DoomInv'
    BY <1>a DEF Inv, DoomInv, Doomed
  <2> QED  BY <1>a, <2>1, <2>2 DEF Inv
<1>b. ASSUME WorkersFine, UNCHANGED <<users, deleted, account, token>>, faulted' \in BOOLEAN
      PROVE  Inv'
  BY <1>b, <1>a, <1>0 DEF TypeOK
<1> HIDE DEF WorkersFine
<1>1. ASSUME NEW w \in Workers, StartServer(w) PROVE Inv'
  <2>1. [at |-> "next", todo |-> users, user |-> None] \in Worker
    BY <1>0 DEF TypeOK, Worker, Calls
  <2>2. WorkersFine
    BY <1>1, <2>1, NextWorker DEF StartServer, WorkersFine
  <2> QED  BY <1>1, <2>2, <1>b, <1>0 DEF StartServer, TypeOK
<1>2. ASSUME NEW w \in Workers, NEW u \in Users, CreateUser(w, u) PROVE Inv'
  <2>1. [at |-> "get", todo |-> {}, user |-> u] \in Worker
    BY DEF Worker, Calls
  <2>2. CASE worker' = [worker EXCEPT ![w] = [at |-> "get", todo |-> {}, user |-> u]]
    <3>1. WorkersFine
      BY <1>2, <2>1, <2>2, NextWorker DEF CreateUser, WorkersFine
    <3> QED  BY <1>2, <3>1, <1>a, <1>0 DEF CreateUser, TypeOK
  <2>3. CASE UNCHANGED worker
    <3>1. WorkersFine
      BY <1>2, <2>3, <1>0 DEF CreateUser, WorkersFine, Inv, TypeOK, BusyInv, DoomInv, At
    <3> QED  BY <1>2, <3>1, <1>a, <1>0 DEF CreateUser, TypeOK
  <2> QED  BY <1>2, <2>2, <2>3 DEF CreateUser
<1>3. ASSUME NEW w \in Workers, NEW u \in Users, NextUser(w, u) PROVE Inv'
  <2> DEFINE r == [at |-> IF u \in deleted THEN "delete" ELSE "get",
                   todo |-> worker[w].todo \ {u}, user |-> u]
  <2>1. worker[w] \in Worker
    BY <1>3, <1>0 DEF TypeOK, NextUser, At, Idle
  <2>2. r \in Worker
    BY <2>1 DEF Worker, Calls
  <2>3. worker' = [worker EXCEPT ![w] = r]
    BY <1>3 DEF NextUser
  <2>4. /\ r.at \in {"get", "create", "token", "update", "delete"} => r.user \in Users
        /\ r.at = "delete" => r.user \in deleted
    OBVIOUS
  <2> HIDE DEF r
  <2>5. WorkersFine
    BY <1>3, <2>2, <2>3, <2>4, NextWorker DEF NextUser, WorkersFine
  <2> QED  BY <1>3, <2>5, <1>b, <1>0 DEF NextUser, TypeOK
<1>4. ASSUME NEW w \in Workers, GetAccount(w) PROVE Inv'
  <2>1. SlugOf(w) \in Slugs
    BY <1>4, BusySlug DEF GetAccount, At
  <2>2. account[SlugOf(w)] \in {None, "legacy", "mounted"}
    BY <2>1, <1>0 DEF TypeOK, Accounts
  <2>3. Goto(w, "create") \/ Goto(w, "update") \/ Proceed(w)
    BY <1>4, <2>2 DEF GetAccount
  <2>4. WorkersFine
    BY <1>4, <2>3, GotoWorker, ProceedWorker DEF GetAccount, At, WorkersFine, Calls
  <2> QED  BY <1>4, <2>4, <1>b, <1>0 DEF GetAccount, TypeOK
<1>5. ASSUME NEW w \in Workers, CreateAccount(w) PROVE Inv'
  <2>1. WorkersFine
    BY <1>5, GotoWorker DEF CreateAccount, At, WorkersFine, Calls
  <2> QED  BY <1>5, <2>1, <1>a, <1>0 DEF CreateAccount, TypeOK, Accounts
<1>6. ASSUME NEW w \in Workers, UpdateAutomount(w) PROVE Inv'
  <2>1. WorkersFine
    BY <1>6, GotoWorker DEF UpdateAutomount, At, WorkersFine, Calls
  <2> QED  BY <1>6, <2>1, <1>a, <1>0 DEF UpdateAutomount, TypeOK, Accounts
<1>7. ASSUME NEW w \in Workers, CreateToken(w) PROVE Inv'
  <2>1. WorkersFine
    BY <1>7, ProceedWorker DEF CreateToken, At, WorkersFine
  <2> QED  BY <1>7, <2>1, <1>a, <1>0 DEF CreateToken, TypeOK, Tokens
<1>8. ASSUME NEW w \in Workers, DeleteAccount(w) PROVE Inv'
  <2>1. WorkersFine
    BY <1>8, ProceedWorker DEF DeleteAccount, At, WorkersFine
  <2>2. SlugOf(w) \in Slugs /\ Doomed(SlugOf(w))
    BY <1>8, BusySlug, DeletedSlug DEF DeleteAccount, At
  <2>3. token' \in [Slugs -> Tokens]
    BY <1>8, <1>0 DEF DeleteAccount, TypeOK, Tokens
  <2>4. \A s \in Slugs : token'[s] = "stale" => token[s] = "stale" \/ Doomed(s)
    BY <1>8, <2>2, <1>0 DEF DeleteAccount, TypeOK
  <2> QED  BY <1>8, <2>1, <2>3, <2>4, <1>a, <1>0 DEF DeleteAccount, TypeOK
<1>9. ASSUME NEW w \in Workers, Refused(w) PROVE Inv'
  <2>1. WorkersFine
    BY <1>9, ProceedWorker DEF Refused, At, WorkersFine
  <2> QED  BY <1>9, <2>1, <1>b, <1>0 DEF Refused, TypeOK
<1>10. ASSUME NEW w \in Workers, Fail(w) PROVE Inv'
  <2>1. worker[w].at # "idle"
    BY <1>10, <1>0 DEF Fail, TypeOK, Worker, Calls, Idle
  <2>2. WorkersFine
    BY <1>10, <2>1, ProceedWorker, StopWorker DEF Fail, WorkersFine
  <2> QED  BY <1>10, <2>2, <1>b DEF Fail
<1>11. ASSUME UNCHANGED worker, deleted' = deleted PROVE WorkersFine
  BY <1>11, <1>0 DEF WorkersFine, Inv, TypeOK, BusyInv, DoomInv, At
<1>12. ASSUME NEW s \in Slugs, FillToken(s) \/ RemoveToken(s) PROVE Inv'
  <2>1. WorkersFine
    BY <1>12, <1>11 DEF FillToken, RemoveToken
  <2> QED  BY <1>12, <2>1, <1>a, <1>0 DEF FillToken, RemoveToken, TypeOK, Tokens
<1>13. ASSUME UNCHANGED vars PROVE Inv'
  BY <1>13, <1>11, <1>b, <1>0 DEF vars, TypeOK
<1> QED
  BY <1>1, <1>2, <1>3, <1>4, <1>5, <1>6, <1>7, <1>8, <1>9, <1>10, <1>12, <1>13 DEF Next, Step

LEMMA Invariance == Spec => []Inv
BY InitInv, StepInv, PTL DEF Spec

(***************************************************************************)
(* Type correctness: the workers, accounts and tokens are always among     *)
(* those that ServiceAccounts declares.                                    *)
(***************************************************************************)
THEOREM TypeCorrect == Spec => []TypeOK
<1>1. Inv => TypeOK
  BY DEF Inv
<1> QED  BY <1>1, Invariance, PTL

-----------------------------------------------------------------------------
(***************************************************************************)
(* What a step may do to the account and the token of a slug that no       *)
(* deleted user has.                                                       *)
(***************************************************************************)
Unchanged(s) ==
    /\ account'[s] = account[s] /\ token'[s] = token[s]
    /\ Tokening(s)' => Tokening(s)
    /\ Tokening(s) => Tokening(s)' \/ faulted' \/ token[s] # "absent"

AccountMade(s) ==
    /\ account[s] \in {None, "legacy"} /\ account'[s] = "mounted"
    /\ token'[s] = token[s]
    /\ Tokening(s)'

TokenMade(s) ==
    /\ Tokening(s)
    /\ account'[s] = account[s]
    /\ token[s] = "absent" /\ token'[s] = "empty"

TokenFilled(s) ==
    /\ account'[s] = account[s]
    /\ token[s] = "empty" /\ token'[s] = "filled"
    /\ Tokening(s)' <=> Tokening(s)

TokenRemoved(s) ==
    /\ account[s] = None /\ account'[s] = None
    /\ token[s] = "empty" /\ token'[s] = "absent"

Changes(s) ==
    \/ Unchanged(s) \/ AccountMade(s) \/ TokenMade(s) \/ TokenFilled(s) \/ TokenRemoved(s)

\* A worker that was not about to make a token and is not now.
LEMMA OtherCall ==
    ASSUME NEW w \in Workers, NEW s,
           worker \in [Workers -> Worker \union {Idle}],
           \E r \in Worker \union {Idle} :
               r.at # "token" /\ worker' = [worker EXCEPT ![w] = r]
    PROVE  /\ Tokening(s)' => Tokening(s)
           /\ ~At(w, "token") \/ SlugOf(w) # s => (Tokening(s) => Tokening(s)')
BY DEF Tokening, At, SlugOf

LEMMA ProceedCall ==
    ASSUME Inv, NEW w \in Workers, NEW s, Proceed(w), worker[w].at # "idle"
    PROVE  /\ Tokening(s)' => Tokening(s)
           /\ ~At(w, "token") \/ SlugOf(w) # s => (Tokening(s) => Tokening(s)')
<1> DEFINE r == IF worker[w].todo = {} THEN Idle
                ELSE [worker[w] EXCEPT !.at = "next", !.user = None]
<1>1. worker[w] \in Worker /\ worker \in [Workers -> Worker \union {Idle}]
  BY DEF Inv, TypeOK, Worker, Idle
<1>2. r \in Worker \union {Idle} /\ r.at # "token"
  BY <1>1 DEF Worker, Idle, Calls
<1>3. worker' = [worker EXCEPT ![w] = r]
  BY DEF Proceed
<1> HIDE DEF r
<1> QED  BY <1>1, <1>2, <1>3, OtherCall

LEMMA GotoCall ==
    ASSUME Inv, NEW w \in Workers, NEW s, NEW call \in Calls, Goto(w, call),
           worker[w].at \in {"get", "create", "update"}
    PROVE  /\ Tokening(s) => Tokening(s)'
           /\ Tokening(s)' => Tokening(s) \/ (call = "token" /\ SlugOf(w) = s)
           /\ call = "token" /\ SlugOf(w) = s => Tokening(s)'
<1>1. worker[w] \in Worker /\ worker \in [Workers -> Worker \union {Idle}]
  BY DEF Inv, TypeOK, Worker, Idle
<1>2. worker'[w].at = call /\ worker'[w].user = worker[w].user
  BY <1>1 DEF Goto, Worker
<1>3. \A v \in Workers : v # w => worker'[v] = worker[v]
  BY <1>1 DEF Goto
<1> QED  BY <1>2, <1>3 DEF Tokening, At, SlugOf

LEMMA EveryChange ==
    ASSUME Inv, [Next]_vars, NEW s \in Slugs, ~Doomed(s)
    PROVE  Changes(s)
<1>0. TypeOK /\ token[s] # "stale"
  BY DEF Inv, DoomInv
<1> USE DEF Changes
<1>1. ASSUME NEW w \in Workers, StartServer(w) PROVE Changes(s)
  <2>1. [at |-> "next", todo |-> users, user |-> None] \in Worker
    BY <1>0 DEF TypeOK, Worker, Calls
  <2>2. ~At(w, "token")
    BY <1>1 DEF StartServer, At, Idle
  <2> QED  BY <1>0, <1>1, <2>1, <2>2, OtherCall DEF StartServer, Unchanged, TypeOK
<1>2. ASSUME NEW w \in Workers, NEW u \in Users, CreateUser(w, u) PROVE Changes(s)
  <2>1. [at |-> "get", todo |-> {}, user |-> u] \in Worker
    BY DEF Worker, Calls
  <2>2. ~At(w, "token")
    BY <1>2 DEF CreateUser, At, Idle
  <2>3. CASE worker' = [worker EXCEPT ![w] = [at |-> "get", todo |-> {}, user |-> u]]
    BY <1>0, <1>2, <2>1, <2>2, <2>3, OtherCall DEF CreateUser, Unchanged, TypeOK
  <2>4. CASE UNCHANGED worker
    BY <1>2, <2>4 DEF CreateUser, Unchanged, Tokening, At, SlugOf
  <2> QED  BY <1>2, <2>3, <2>4 DEF CreateUser
<1>3. ASSUME NEW w \in Workers, NEW u \in Users, NextUser(w, u) PROVE Changes(s)
  <2> DEFINE r == [at |-> IF u \in deleted THEN "delete" ELSE "get",
                   todo |-> worker[w].todo \ {u}, user |-> u]
  <2>1. worker[w] \in Worker /\ ~At(w, "token")
    BY <1>3, <1>0 DEF TypeOK, NextUser, At, Idle
  <2>2. r \in Worker /\ r.at # "token"
    BY <2>1 DEF Worker, Calls
  <2>3. worker' = [worker EXCEPT ![w] = r]
    BY <1>3 DEF NextUser
  <2> HIDE DEF r
  <2> QED  BY <1>0, <1>3, <2>1, <2>2, <2>3, OtherCall DEF NextUser, Unchanged, TypeOK
<1>4. ASSUME NEW w \in Workers, GetAccount(w) PROVE Changes(s)
  <2>1. account[SlugOf(w)] \in {None, "legacy", "mounted"}
    BY <1>4, <1>0, BusySlug DEF GetAccount, At, TypeOK, Accounts
  <2>2. Goto(w, "create") \/ Goto(w, "update") \/ Proceed(w)
    BY <1>4, <2>1 DEF GetAccount
  <2>3. (Tokening(s)' => Tokening(s)) /\ (Tokening(s) => Tokening(s)')
    BY <1>4, <2>2, GotoCall, ProceedCall DEF GetAccount, At, Calls
  <2> QED  BY <1>4, <2>3 DEF GetAccount, Unchanged
<1>5. ASSUME NEW w \in Workers, CreateAccount(w) \/ UpdateAutomount(w) PROVE Changes(s)
  <2>1. /\ Tokening(s) => Tokening(s)'
        /\ Tokening(s)' => Tokening(s) \/ SlugOf(w) = s
        /\ SlugOf(w) = s => Tokening(s)'
    BY <1>5, GotoCall DEF CreateAccount, UpdateAutomount, At, Calls
  <2>2. CASE SlugOf(w) = s
    BY <1>0, <1>5, <2>1, <2>2 DEF CreateAccount, UpdateAutomount, AccountMade, TypeOK
  <2>3. CASE SlugOf(w) # s
    BY <1>0, <1>5, <2>1, <2>3 DEF CreateAccount, UpdateAutomount, Unchanged, TypeOK
  <2> QED  BY <2>2, <2>3
<1>6. ASSUME NEW w \in Workers, CreateToken(w) PROVE Changes(s)
  <2>1. CASE SlugOf(w) = s
    BY <1>0, <1>6, <2>1 DEF CreateToken, TokenMade, Tokening, TypeOK
  <2>2. CASE SlugOf(w) # s
    <3>1. (Tokening(s)' => Tokening(s)) /\ (Tokening(s) => Tokening(s)')
      BY <1>6, <2>2, ProceedCall DEF CreateToken, At
    <3> QED  BY <1>0, <1>6, <2>2, <3>1 DEF CreateToken, Unchanged, TypeOK
  <2> QED  BY <2>1, <2>2
<1>7. ASSUME NEW w \in Workers, DeleteAccount(w) PROVE Changes(s)
  <2>1. SlugOf(w) # s
    BY <1>7, DeletedSlug DEF DeleteAccount
  <2>2. (Tokening(s)' => Tokening(s)) /\ (Tokening(s) => Tokening(s)')
    BY <1>7, <2>1, ProceedCall DEF DeleteAccount, At
  <2> QED  BY <1>0, <1>7, <2>1, <2>2 DEF DeleteAccount, Unchanged, TypeOK
<1>8. ASSUME NEW w \in Workers, Refused(w) PROVE Changes(s)
  <2>1. /\ Tokening(s)' => Tokening(s)
        /\ ~At(w, "token") \/ SlugOf(w) # s => (Tokening(s) => Tokening(s)')
    BY <1>8, ProceedCall DEF Refused, At
  <2>2. At(w, "token") => token[SlugOf(w)] # "absent"
    BY <1>8 DEF Refused, At
  <2> QED  BY <1>8, <2>1, <2>2 DEF Refused, Unchanged
<1>9. ASSUME NEW w \in Workers, Fail(w) PROVE Changes(s)
  <2>1. worker[w].at # "idle"
    BY <1>9, <1>0 DEF Fail, TypeOK, Worker, Calls, Idle
  <2>2. Tokening(s)' => Tokening(s)
    BY <1>0, <1>9, <2>1, ProceedCall, OtherCall DEF Fail, TypeOK, Idle
  <2> QED  BY <1>9, <2>2 DEF Fail, Unchanged
<1>10. ASSUME NEW t \in Slugs, FillToken(t) PROVE Changes(s)
  <2>1. Tokening(s)' <=> Tokening(s)
    BY <1>10 DEF FillToken, Tokening, At, SlugOf
  <2> QED  BY <1>0, <1>10, <2>1 DEF FillToken, TokenFilled, Unchanged, TypeOK
<1>11. ASSUME NEW t \in Slugs, RemoveToken(t) PROVE Changes(s)
  <2>1. Tokening(s)' <=> Tokening(s)
    BY <1>11 DEF RemoveToken, Tokening, At, SlugOf
  <2> QED  BY <1>0, <1>11, <2>1 DEF RemoveToken, TokenRemoved, Unchanged, TypeOK
<1>12. ASSUME UNCHANGED vars PROVE Changes(s)
  BY <1>12 DEF vars, Unchanged, Tokening, At, SlugOf
<1> QED
  BY <1>1, <1>2, <1>3, <1>4, <1>5, <1>6, <1>7, <1>8, <1>9, <1>10, <1>11, <1>12 DEF Next, Step

\* Nobody is deleted, and what has failed has failed.
LEMMA Histories == [Next]_vars => deleted' = deleted /\ (faulted => faulted')
<1> SUFFICES ASSUME [Next]_vars PROVE deleted' = deleted /\ (faulted => faulted')
  OBVIOUS
<1>1. ASSUME NEW w \in Workers, StartServer(w) \/ \E u \in Users : CreateUser(w, u)
      PROVE  deleted' = deleted /\ faulted' = faulted
  BY <1>1 DEF StartServer, CreateUser
<1>2. ASSUME NEW w \in Workers, Step(w) PROVE deleted' = deleted /\ faulted' = faulted
  <2>1. CASE \E u \in Users : NextUser(w, u)
    BY <2>1 DEF NextUser
  <2>2. CASE GetAccount(w)
    BY <2>2 DEF GetAccount
  <2>3. CASE CreateAccount(w) \/ UpdateAutomount(w) \/ CreateToken(w)
    BY <2>3 DEF CreateAccount, UpdateAutomount, CreateToken
  <2>4. CASE DeleteAccount(w) \/ Refused(w)
    BY <2>4 DEF DeleteAccount, Refused
  <2> QED  BY <1>2, <2>1, <2>2, <2>3, <2>4 DEF Step
<1>3. ASSUME NEW w \in Workers, Fail(w) PROVE deleted' = deleted /\ faulted'
  BY <1>3 DEF Fail
<1>4. ASSUME NEW s \in Slugs, FillToken(s) \/ RemoveToken(s)
      PROVE  deleted' = deleted /\ faulted' = faulted
  BY <1>4 DEF FillToken, RemoveToken
<1>5. ASSUME UNCHANGED vars PROVE deleted' = deleted /\ faulted' = faulted
  BY <1>5 DEF vars
<1> QED  BY <1>1, <1>2, <1>3, <1>4, <1>5 DEF Next

-----------------------------------------------------------------------------
(***************************************************************************)
(* However many servers start and users are created at the same time, an   *)
(* account has its token or somebody is about to make it, until the first  *)
(* failure.                                                                *)
(***************************************************************************)
THEOREM AccountsGetTokens == Spec => []AccountsHaveTokens
<1>1. Init => AccountsHaveTokens
  <2> SUFFICES ASSUME Init, NEW s \in Slugs PROVE account[s] # "mounted"
    BY DEF AccountsHaveTokens
  <2>1. account[s] \in {None, "legacy"}
    BY DEF Init
  <2> QED  BY <2>1, NoneAssumption
<1>2. Inv /\ AccountsHaveTokens /\ [Next]_vars => AccountsHaveTokens'
  <2> SUFFICES ASSUME Inv, AccountsHaveTokens, [Next]_vars, ~faulted',
                      NEW s \in Slugs, account'[s] = "mounted", ~Doomed(s)'
               PROVE  token'[s] # "absent" \/ Tokening(s)'
    BY DEF AccountsHaveTokens
  <2>1. ~faulted /\ ~Doomed(s)
    BY Histories DEF Doomed
  <2>2. account[s] = "mounted" => token[s] # "absent" \/ Tokening(s)
    BY <2>1 DEF AccountsHaveTokens
  <2>3. Changes(s)
    BY <2>1, EveryChange
  <2> QED
    BY <2>2, <2>3, NoneAssumption DEF Changes, Unchanged, AccountMade, TokenMade, TokenFilled, TokenRemoved
<1> QED  BY <1>1, <1>2, Invariance, PTL DEF Spec

(***************************************************************************)
(* An account that was left without a token stays without one, whatever    *)
(* starts or is created later.                                             *)
(***************************************************************************)
THEOREM TokenlessStays == Spec => TokenlessForGood
<1>1. ASSUME Inv, [Next]_vars, NEW s \in Slugs,
             account[s] = "mounted", token[s] = "absent", ~Tokening(s), ~Doomed(s)
      PROVE  /\ account'[s] = "mounted" /\ token'[s] = "absent"
             /\ ~Tokening(s)' /\ Kubeconfig(s)' = "error"
  <2>1. account'[s] = "mounted" /\ token'[s] = "absent" /\ ~Tokening(s)'
    BY <1>1, EveryChange, NoneAssumption
       DEF Changes, Unchanged, AccountMade, TokenMade, TokenFilled, TokenRemoved
  <2> QED  BY <2>1, NoneAssumption DEF Kubeconfig
<1>2. Inv /\ [Next]_vars => [\A s \in Slugs :
        account[s] = "mounted" /\ token[s] = "absent" /\ ~Tokening(s) /\ ~Doomed(s)
            => /\ account'[s] = "mounted" /\ token'[s] = "absent"
               /\ ~Tokening(s)' /\ Kubeconfig(s)' = "error"]_vars
  BY <1>1
<1> QED  BY <1>2, Invariance, PTL DEF Spec, TokenlessForGood

(***************************************************************************)
(* A kubeconfig that can be had stays, but for the update of a legacy      *)
(* account.                                                                *)
(***************************************************************************)
THEOREM KubeconfigsAreKept == Spec => KubeconfigIsKept
<1>1. ASSUME Inv, [Next]_vars, NEW s \in Slugs, ~Doomed(s),
             Kubeconfig(s) = "filled", Kubeconfig(s)' # "filled"
      PROVE  account[s] = "legacy" /\ Tokening(s)'
  <2>1. account[s] \in {None, "legacy", "mounted"}
    BY <1>1 DEF Inv, TypeOK, Accounts
  <2>2. account[s] = "legacy" \/ (account[s] = "mounted" /\ token[s] = "filled")
    BY <1>1, <2>1, NoneAssumption DEF Kubeconfig
  <2> QED
    BY <1>1, <2>2, EveryChange, NoneAssumption
       DEF Changes, Unchanged, AccountMade, TokenMade, TokenFilled, TokenRemoved, Kubeconfig
<1>2. Inv /\ [Next]_vars => [\A s \in Slugs :
        ~Doomed(s) /\ Kubeconfig(s) = "filled" /\ Kubeconfig(s)' # "filled"
            => account[s] = "legacy" /\ Tokening(s)']_vars
  BY <1>1
<1> QED  BY <1>2, Invariance, PTL DEF Spec, KubeconfigIsKept

=============================================================================
