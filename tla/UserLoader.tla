----------------------------- MODULE UserLoader -----------------------------
(***************************************************************************)
(* The loader of users that dataloader.Middleware makes for one HTTP       *)
(* request                                                                 *)
(* (app/api/infrastructure/dataloader: userloader_gen.go with the fetch of *)
(* dataloaders.go).  Every resolver of Member.user calls Load in a         *)
(* goroutine of its own; lookups that come close together share one        *)
(* query, and what was answered is cached for the rest of the request.     *)
(* That is one GraphQL operation, or every operation of a connection when  *)
(* the request is a websocket (http/main.go): Lookups are all its calls.   *)
(*                                                                         *)
(* One action is one section under the loader's mutex, or the end of a     *)
(* batch: nobody looks at what its query returned before its channel is    *)
(* closed.  A batch bears the name of the lookup that made it.  A user is  *)
(* told by the version of its document, which other requests write         *)
(* meanwhile; version 0 is the zero user, which the loader answers without *)
(* an error when there is no document.                                     *)
(***************************************************************************)
EXTENDS Naturals, Sequences

CONSTANTS
    Ids,        \* the users
    Lookups,    \* the calls of Load on one loader
    None,       \* no batch, no data yet, no answer yet
    Error,      \* the answer of a lookup whose query failed
    MaxBatch,   \* how many users one query asks for; 0 is no limit
    MaxVersion  \* how far the documents are written

ASSUME MaxBatchAssumption == MaxBatch \in Nat

ASSUME MaxVersionAssumption == MaxVersion \in Nat \ {0}

ASSUME NoneAssumption ==
    /\ None \notin Lookups \union Ids \union Nat \union Seq(Nat) \union {Error}
    /\ Error \notin Nat \union Seq(Nat)

VARIABLES
    doc,        \* the version of each user's document
    cache,      \* l.cache
    open,       \* l.batch
    batch,      \* the batches
    lookup      \* the goroutines in Load

loaderVars == <<doc, cache, open, batch, lookup>>

-----------------------------------------------------------------------------

NoBatch ==
    [keys |-> <<>>, timer |-> FALSE, closing |-> FALSE, ends |-> 0,
     data |-> None]

NoLookup ==
    [at |-> "idle", key |-> None, batch |-> None, pos |-> 0, since |-> 0, answer |-> None]

\* ends counts the calls of end; data is what the query returned, and done is
\* closed as soon as there is any.
Batch ==
    [keys : Seq(Ids), timer : BOOLEAN, closing : BOOLEAN, ends : Nat,
     data : Seq(Nat) \union {None, Error}]

\* A lookup that hit the cache has its answer and has not returned it yet.
\* History: since is the version its document had when it began.
Lookup ==
    [at : {"idle", "hit", "wait", "told"}, key : Ids \union {None},
     batch : Lookups \union {None}, pos : Nat, since : Nat,
     answer : Nat \union {None, Error}]

LoaderTypeOK ==
    /\ doc \in [Ids -> 0 .. MaxVersion]
    /\ cache \in [Ids -> Nat \union {None}]
    /\ open \in Lookups \union {None}
    /\ batch \in [Lookups -> Batch]
    /\ lookup \in [Lookups -> Lookup]

LoaderInit ==
    /\ doc \in [Ids -> {0, 1}]
    /\ cache = [k \in Ids |-> None]
    /\ open = None
    /\ batch = [b \in Lookups |-> NoBatch]
    /\ lookup = [i \in Lookups |-> NoLookup]

-----------------------------------------------------------------------------
(***************************************************************************)
(* LoadThunk.                                                              *)
(***************************************************************************)
CacheHit(i, k) ==
    /\ lookup[i] = NoLookup
    /\ cache[k] # None
    /\ lookup' = [lookup EXCEPT ![i] =
        [at |-> "hit", key |-> k, batch |-> None, pos |-> 0, since |-> doc[k],
         answer |-> cache[k]]]
    /\ UNCHANGED <<doc, cache, open, batch>>

\* keyIndex: the keys of batch b once k is among them.
KeyIndex(b, k) ==
    IF \E p \in DOMAIN batch[b].keys : batch[b].keys[p] = k
      THEN batch[b].keys
      ELSE Append(batch[b].keys, k)

\* Mutant: the timer starts with the second key.
StartsTimerLate(b, keys) == Len(batch[b].keys) = 1 /\ Len(keys) = 2

\* The first key of a batch starts its timer.
StartsTimer(b, keys) == Len(batch[b].keys) = 0 /\ Len(keys) = 1

\* A batch that a new key fills ends at once.
Fills(b, keys) ==
    /\ keys # batch[b].keys
    /\ MaxBatch # 0 /\ Len(keys) >= MaxBatch
    /\ ~batch[b].closing

JoinBatch(i, k) ==
    LET b == IF open = None THEN i ELSE open
        keys == KeyIndex(b, k)
        full == Fills(b, keys)
    IN  /\ lookup[i] = NoLookup
        /\ cache[k] = None
        /\ lookup' = [lookup EXCEPT ![i] =
            [at |-> "wait", key |-> k, batch |-> b,
             pos |-> CHOOSE p \in 1 .. Len(keys) : keys[p] = k,
             since |-> doc[k], answer |-> None]]
        /\ batch' = [batch EXCEPT ![b] =
            [keys |-> keys,
             timer |-> batch[b].timer \/ StartsTimer(b, keys),
             closing |-> batch[b].closing \/ full,
             ends |-> IF full THEN batch[b].ends + 1 ELSE batch[b].ends,
             data |-> batch[b].data]]
        /\ open' = IF full THEN None ELSE b
        /\ UNCHANGED <<doc, cache>>

LoadThunk(i, k) == CacheHit(i, k) \/ JoinBatch(i, k)

-----------------------------------------------------------------------------
(***************************************************************************)
(* The goroutines of a batch: startTimer, and end with the fetch.          *)
(***************************************************************************)
\* Mutant: a batch that is full is ended a second time.
TimerFiresAnyway(b) ==
    /\ batch[b].timer
    /\ open' = None
    /\ batch' = [batch EXCEPT ![b].timer = FALSE, ![b].ends = @ + 1]
    /\ UNCHANGED <<doc, cache, lookup>>

\* Mutant: the batch stays open for lookups that come later.
TimerFiresKeepingBatch(b) ==
    /\ batch[b].timer
    /\ batch' = [batch EXCEPT
        ![b].timer = FALSE, ![b].ends = IF batch[b].closing THEN @ ELSE @ + 1]
    /\ UNCHANGED <<doc, cache, open, lookup>>

TimerFires(b) ==
    /\ batch[b].timer
    /\ IF batch[b].closing
         THEN /\ batch' = [batch EXCEPT ![b].timer = FALSE]
              /\ UNCHANGED open
         ELSE /\ batch' = [batch EXCEPT ![b].timer = FALSE, ![b].ends = @ + 1]
              /\ open' = None
    /\ UNCHANGED <<doc, cache, lookup>>

\* Mutant: the users are returned as the query found them.
FetchUnordered(b) ==
    /\ batch[b].ends > 0 /\ batch[b].data = None
    /\ batch' = [batch EXCEPT ![b].data =
        [p \in DOMAIN batch[b].keys |-> doc[batch[b].keys[Len(batch[b].keys) + 1 - p]]]]
    /\ UNCHANGED <<doc, cache, open, lookup>>

\* FindByIDs, its result put in the order of the keys.
Fetch(b) ==
    /\ batch[b].ends > 0 /\ batch[b].data = None
    /\ batch' = [batch EXCEPT ![b].data =
        [p \in DOMAIN batch[b].keys |-> doc[batch[b].keys[p]]]]
    /\ UNCHANGED <<doc, cache, open, lookup>>

\* One error for all lookups: the query fails, or the client has left.
FetchFails(b) ==
    /\ batch[b].ends > 0 /\ batch[b].data = None
    /\ batch' = [batch EXCEPT ![b].data = Error]
    /\ UNCHANGED <<doc, cache, open, lookup>>

-----------------------------------------------------------------------------
(***************************************************************************)
(* The thunk.                                                              *)
(***************************************************************************)
ReturnHit(i) ==
    /\ lookup[i].at = "hit"
    /\ lookup' = [lookup EXCEPT ![i].at = "told"]
    /\ UNCHANGED <<doc, cache, open, batch>>

\* Mutant: the answer is not cached.
ReturnUncached(i) ==
    LET data == batch[lookup[i].batch].data
        user == IF lookup[i].pos \in DOMAIN data THEN data[lookup[i].pos] ELSE 0
    IN  /\ lookup[i].at = "wait"
        /\ data \notin {None, Error}
        /\ lookup' = [lookup EXCEPT ![i] = [@ EXCEPT !.at = "told", !.answer = user]]
        /\ UNCHANGED <<doc, cache, open, batch>>

\* A place outside the data is the zero user, without an error.
ReturnData(i) ==
    LET data == batch[lookup[i].batch].data
        user == IF lookup[i].pos \in DOMAIN data THEN data[lookup[i].pos] ELSE 0
    IN  /\ lookup[i].at = "wait"
        /\ data \notin {None, Error}
        /\ lookup' = [lookup EXCEPT ![i] = [@ EXCEPT !.at = "told", !.answer = user]]
        /\ cache' = [cache EXCEPT ![lookup[i].key] = user]
        /\ UNCHANGED <<doc, open, batch>>

ReturnError(i) ==
    /\ lookup[i].at = "wait"
    /\ batch[lookup[i].batch].data = Error
    /\ lookup' = [lookup EXCEPT ![i] = [@ EXCEPT !.at = "told", !.answer = Error]]
    /\ UNCHANGED <<doc, cache, open, batch>>

Return(i) == ReturnHit(i) \/ ReturnData(i) \/ ReturnError(i)

BatchStep(b) == TimerFires(b) \/ Fetch(b) \/ FetchFails(b)

\* Another request writes the user's document.
WriteUser(k) ==
    /\ doc[k] < MaxVersion
    /\ doc' = [doc EXCEPT ![k] = @ + 1]
    /\ UNCHANGED <<cache, open, batch, lookup>>

LoaderNext ==
    \/ \E i \in Lookups : Return(i) \/ BatchStep(i) \/ \E k \in Ids : LoadThunk(i, k)
    \/ \E k \in Ids : WriteUser(k)

LoaderSpec == LoaderInit /\ [][LoaderNext]_loaderVars

-----------------------------------------------------------------------------

Stage(at) == IF at \in {"hit", "wait"} THEN "asked" ELSE at

Promise ==
    INSTANCE UserLookup WITH
        ask <- [i \in Lookups |->
                 [at |-> Stage(lookup[i].at), key |-> lookup[i].key, since |-> lookup[i].since,
                  answer |-> IF lookup[i].at = "told" THEN lookup[i].answer ELSE None]]

(***************************************************************************)
(* However lookups, timers, full batches and queries interleave, every     *)
(* lookup is told its own user as it was since the lookup began, or what   *)
(* another lookup of the request was told before: batching never crosses   *)
(* answers and never makes them older than the cache does.                 *)
(***************************************************************************)
RefinesLookup == Promise!Spec

(***************************************************************************)
(* A batch that is full while its timer runs is ended by one of the two    *)
(* goroutines only: the second would close its channel again and panic.    *)
(***************************************************************************)
EndedOnce == \A b \in Lookups : batch[b].ends <= 1

(***************************************************************************)
(* Nobody joins a batch that has been sent: the place of every lookup that *)
(* waits lies in what the query returned, where its own key was sent.      *)
(* keyIndex would else leave it the zero user, silently.                   *)
(***************************************************************************)
WaitersAreServed ==
    \A i \in Lookups : lookup[i].at = "wait" =>
        LET b == batch[lookup[i].batch]
        IN  /\ lookup[i].pos \in DOMAIN b.keys
            /\ b.keys[lookup[i].pos] = lookup[i].key
            /\ b.data \notin {None, Error} => DOMAIN b.data = DOMAIN b.keys

=============================================================================
