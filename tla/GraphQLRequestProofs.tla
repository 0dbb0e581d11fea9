------------------------ MODULE GraphQLRequestProofs ------------------------
(***************************************************************************)
(* What holds of every request, whatever its root fields, the widths of    *)
(* its lists, and the users and lookups there are.                         *)
(*                                                                         *)
(*   - The loader of users: its batches end once, nobody joins a batch     *)
(*     that has been sent, and it implements UserLookup.                   *)
(*   - The executor uses the loader as LoaderSpec says, so that all this   *)
(*     holds in a request.                                                 *)
(*   - The tree of fields: no lookup outlives a field above it, failures   *)
(*     make null what the schema says, and mutations show the same users.  *)
(***************************************************************************)
EXTENDS GraphQLRequest, SequenceTheorems, WellFoundedInduction, TLAPS

-----------------------------------------------------------------------------
(***************************************************************************)
(* The loader of users.                                                    *)
(***************************************************************************)
\* A batch is unused, or the open one, whose timer runs, or it has been sent.
Unused(b) == open # b /\ batch[b] = NoBatch

Collecting(b) ==
    /\ open = b
    /\ batch[b].timer /\ ~batch[b].closing /\ batch[b].ends = 0
    /\ batch[b].data = None
    /\ batch[b].keys # <<>>

Sent(b) ==
    /\ open # b
    /\ batch[b].ends = 1
    /\ batch[b].timer => batch[b].closing
    /\ batch[b].keys # <<>>

BatchInv == \A b \in Lookups : Unused(b) \/ Collecting(b) \/ Sent(b)

\* A batch bears the name of a lookup that has begun.
NameInv == \A i \in Lookups : lookup[i].at = "idle" => Unused(i)

\* What a query returned has a place for every key, and only then.
DataInv ==
    \A b \in Lookups :
        batch[b].data \notin {None, Error} => DOMAIN batch[b].data = DOMAIN batch[b].keys

\* A lookup that waits is in its batch, and its data is as new as it.
Served(i) ==
    LET b == batch[lookup[i].batch] IN
    /\ lookup[i].batch \in Lookups /\ lookup[i].key \in Ids
    /\ lookup[i].pos \in DOMAIN b.keys
    /\ b.keys[lookup[i].pos] = lookup[i].key
    /\ b.data \notin {None, Error} =>
        b.data[lookup[i].pos] \in lookup[i].since .. doc[lookup[i].key]

WaitInv ==
    \A i \in Lookups :
        /\ lookup[i].at = "wait" => Served(i)
        /\ lookup[i].key \in Ids => lookup[i].since <= doc[lookup[i].key]

\* What lookups of user k were told.
ToldOf(k) == {lookup[j].answer : j \in {l \in Lookups : lookup[l].at = "told" /\ lookup[l].key = k}}

\* What is cached somebody was told, and so what was found in the cache.
CacheInv ==
    /\ \A k \in Ids : cache[k] # None => cache[k] \in ToldOf(k)
    /\ \A i \in Lookups : lookup[i].at = "hit" =>
        lookup[i].key \in Ids /\ lookup[i].answer \in ToldOf(lookup[i].key)

LoaderInv == LoaderTypeOK /\ BatchInv /\ NameInv /\ DataInv /\ WaitInv /\ CacheInv

-----------------------------------------------------------------------------

LEMMA NoBatchType == NoBatch \in Batch
BY DEF NoBatch, Batch

LEMMA NoLookupType == NoLookup \in Lookup
BY DEF NoLookup, Lookup

LEMMA LoaderInitInv == LoaderInit => LoaderInv
<1> SUFFICES ASSUME LoaderInit PROVE LoaderInv
  OBVIOUS
<1>1. LoaderTypeOK
  BY NoBatchType, NoLookupType, MaxVersionAssumption DEF LoaderInit, LoaderTypeOK
<1>2. BatchInv /\ NameInv
  BY NoneAssumption DEF LoaderInit, BatchInv, NameInv, Unused
<1>3. DataInv
  BY DEF LoaderInit, DataInv, NoBatch
<1>4. WaitInv
  BY NoneAssumption DEF LoaderInit, WaitInv, NoLookup
<1>5. CacheInv
  BY DEF LoaderInit, CacheInv, NoLookup
<1> QED  BY <1>1, <1>2, <1>3, <1>4, <1>5 DEF LoaderInv

-----------------------------------------------------------------------------
(***************************************************************************)
(* Steps that change one lookup.                                           *)
(***************************************************************************)
\* What was told stays told.
LEMMA StillTold ==
    ASSUME LoaderTypeOK, NEW i \in Lookups, NEW r \in Lookup, lookup[i].at # "told",
           lookup' = [lookup EXCEPT ![i] = r]
    PROVE  \A k \in Ids : ToldOf(k) \subseteq ToldOf(k)'
<1> SUFFICES ASSUME NEW k \in Ids, NEW j \in Lookups, lookup[j].at = "told", lookup[j].key = k
             PROVE  lookup'[j].at = "told" /\ lookup'[j].key = k
                    /\ lookup'[j].answer = lookup[j].answer
  BY DEF ToldOf
<1> QED  BY DEF LoaderTypeOK

\* A lookup that has begun goes on to "hit" or "told", and the batches are as before.
LEMMA LookupStep ==
    ASSUME LoaderInv, NEW i \in Lookups, NEW r \in Lookup, lookup[i].at # "told",
           lookup' = [lookup EXCEPT ![i] = r], UNCHANGED <<doc, open, batch>>,
           r.at \in {"hit", "told"},
           r.key \in Ids => r.since <= doc[r.key],
           cache' \in [Ids -> Nat \union {None}],
           \A k \in Ids : cache'[k] # None =>
               cache'[k] = cache[k]
               \/ (r.at = "told" /\ r.key = k /\ r.answer = cache'[k]),
           r.at = "hit" => r.key \in Ids /\ r.answer \in ToldOf(r.key)
    PROVE  LoaderInv'
<1>0. LoaderTypeOK /\ lookup'[i] = r
  BY DEF LoaderInv, LoaderTypeOK
<1>1. LoaderTypeOK'
  BY DEF LoaderInv, LoaderTypeOK
<1>2. BatchInv' /\ DataInv'
  BY DEF LoaderInv, BatchInv, DataInv, Unused, Collecting, Sent
<1>3. NameInv'
  BY DEF LoaderInv, LoaderTypeOK, NameInv, Unused
<1>4. \A j \in Lookups : j # i => lookup'[j] = lookup[j]
  BY <1>0 DEF LoaderTypeOK
<1>5. WaitInv'
  <2> SUFFICES ASSUME NEW j \in Lookups
               PROVE  /\ lookup'[j].at = "wait" => Served(j)'
                      /\ lookup'[j].key \in Ids => lookup'[j].since <= doc'[lookup'[j].key]
    BY DEF WaitInv
  <2>1. CASE j = i
    BY <2>1, <1>0
  <2>2. CASE j # i
    <3>1. lookup'[j] = lookup[j] /\ batch' = batch /\ doc' = doc
      BY <2>2, <1>4
    <3>2. /\ lookup[j].at = "wait" => Served(j)
          /\ lookup[j].key \in Ids => lookup[j].since <= doc[lookup[j].key]
      BY DEF LoaderInv, WaitInv
    <3>3. Served(j) => Served(j)'
      BY <3>1 DEF Served
    <3> QED  BY <3>1, <3>2, <3>3
  <2> QED  BY <2>1, <2>2
<1>6. CacheInv'
  <2>0. \A k \in Ids : ToldOf(k) \subseteq ToldOf(k)'
    BY <1>0, StillTold
  <2>1. ASSUME NEW k \in Ids, cache'[k] # None PROVE cache'[k] \in ToldOf(k)'
    <3>1. CASE cache'[k] = cache[k]
      BY <2>0, <2>1, <3>1 DEF LoaderInv, CacheInv
    <3>2. CASE r.at = "told" /\ r.key = k /\ r.answer = cache'[k]
      BY <3>2, <1>0 DEF ToldOf
    <3> QED  BY <2>1, <3>1, <3>2
  <2>2. ASSUME NEW j \in Lookups, lookup'[j].at = "hit"
        PROVE  lookup'[j].key \in Ids /\ lookup'[j].answer \in ToldOf(lookup[j].key)'
    <3>1. \A k \in Ids : lookup'[j].key = k /\ lookup'[j].answer \in ToldOf(k)
              => lookup'[j].answer \in ToldOf(lookup[j].key)'
      BY <2>0 DEF ToldOf
    <3>2. CASE j = i
      BY <2>2, <3>1, <3>2, <1>0
    <3>3. CASE j # i
      BY <2>2, <3>1, <3>3, <1>4 DEF LoaderInv, CacheInv
    <3> QED  BY <3>2, <3>3
  <2> QED  BY <2>1, <2>2 DEF CacheInv
<1> QED  BY <1>1, <1>2, <1>3, <1>5, <1>6 DEF LoaderInv

LEMMA CacheHitInv ==
    ASSUME LoaderInv, NEW i \in Lookups, NEW k \in Ids, CacheHit(i, k)
    PROVE  LoaderInv'
<1> DEFINE r == [at |-> "hit", key |-> k, batch |-> None, pos |-> 0, since |-> doc[k],
                 answer |-> cache[k]]
<1>1. LoaderTypeOK /\ doc[k] \in 0 .. MaxVersion /\ cache[k] \in Nat \union {None}
  BY DEF LoaderInv, LoaderTypeOK
<1>2. /\ r \in Lookup
      /\ r.at = "hit" /\ r.key = k /\ r.since = doc[k] /\ r.answer = cache[k]
  BY <1>1, MaxVersionAssumption DEF Lookup
<1>3. cache[k] \in ToldOf(k)
  BY DEF CacheHit, LoaderInv, CacheInv
<1>4. lookup' = [lookup EXCEPT ![i] = r] /\ lookup[i].at # "told"
  BY DEF CacheHit, NoLookup
<1> HIDE DEF r
<1>5. r.since <= doc[r.key]
  BY <1>1, <1>2, MaxVersionAssumption
<1>6. UNCHANGED <<doc, cache, open, batch>>
  BY DEF CacheHit
<1> QED
  BY <1>1, <1>2, <1>3, <1>4, <1>5, <1>6, LookupStep DEF LoaderTypeOK

LEMMA ReturnInv ==
    ASSUME LoaderInv, NEW i \in Lookups, Return(i)
    PROVE  LoaderInv'
<1>0. LoaderTypeOK /\ lookup[i] \in Lookup
  BY DEF LoaderInv, LoaderTypeOK
<1>1. CASE ReturnHit(i)
  <2> DEFINE r == [lookup[i] EXCEPT !.at = "told"]
  <2>1. r \in Lookup /\ r.at = "told" /\ r.key = lookup[i].key /\ r.since = lookup[i].since
    BY <1>0 DEF Lookup
  <2>2. lookup' = [lookup EXCEPT ![i] = r] /\ lookup[i].at # "told"
    BY <1>1 DEF ReturnHit
  <2>3. r.key \in Ids => r.since <= doc[r.key]
    BY <2>1 DEF LoaderInv, WaitInv
  <2> HIDE DEF r
  <2> QED  BY <1>0, <1>1, <2>1, <2>2, <2>3, LookupStep DEF ReturnHit, LoaderTypeOK
<1>2. CASE ReturnData(i)
  <2> DEFINE data == batch[lookup[i].batch].data
             user == IF lookup[i].pos \in DOMAIN data THEN data[lookup[i].pos] ELSE 0
             r == [lookup[i] EXCEPT !.at = "told", !.answer = user]
  <2>1. Served(i)
    BY <1>2 DEF ReturnData, LoaderInv, WaitInv
  <2>2. data \in Seq(Nat) /\ lookup[i].key \in Ids
    BY <1>0, <1>2, <2>1 DEF ReturnData, Served, LoaderTypeOK, Batch
  <2>3. user \in Nat
    BY <2>2
  <2>4. /\ r \in Lookup /\ r.at = "told" /\ r.answer = user
        /\ r.key = lookup[i].key /\ r.since = lookup[i].since
    BY <1>0, <2>3 DEF Lookup
  <2>5. /\ lookup' = [lookup EXCEPT ![i] = r] /\ lookup[i].at # "told"
        /\ cache' = [cache EXCEPT ![lookup[i].key] = user]
        /\ UNCHANGED <<doc, open, batch>>
    BY <1>2 DEF ReturnData
  <2>6. r.key \in Ids => r.since <= doc[r.key]
    BY <2>4 DEF LoaderInv, WaitInv
  <2> HIDE DEF r, user
  <2>7. cache' \in [Ids -> Nat \union {None}]
    BY <1>0, <2>2, <2>3, <2>5 DEF LoaderTypeOK
  <2>8. \A k \in Ids : cache'[k] # None =>
            cache'[k] = cache[k] \/ (r.at = "told" /\ r.key = k /\ r.answer = cache'[k])
    BY <1>0, <2>2, <2>4, <2>5 DEF LoaderTypeOK
  <2> QED  BY <2>4, <2>5, <2>6, <2>7, <2>8, LookupStep
<1>3. CASE ReturnError(i)
  <2> DEFINE r == [lookup[i] EXCEPT !.at = "told", !.answer = Error]
  <2>1. r \in Lookup /\ r.at = "told" /\ r.key = lookup[i].key /\ r.since = lookup[i].since
    BY <1>0 DEF Lookup
  <2>2. lookup' = [lookup EXCEPT ![i] = r] /\ lookup[i].at # "told"
    BY <1>3 DEF ReturnError
  <2>3. r.key \in Ids => r.since <= doc[r.key]
    BY <2>1 DEF LoaderInv, WaitInv
  <2> HIDE DEF r
  <2> QED  BY <1>0, <1>3, <2>1, <2>2, <2>3, LookupStep DEF ReturnError, LoaderTypeOK
<1> QED  BY <1>1, <1>2, <1>3 DEF Return

-----------------------------------------------------------------------------
(***************************************************************************)
(* A lookup joins a batch.                                                 *)
(***************************************************************************)
LEMMA KeysGrow ==
    ASSUME LoaderTypeOK, NEW b \in Lookups, NEW k \in Ids
    PROVE  LET keys == KeyIndex(b, k) IN
           /\ keys \in Seq(Ids) /\ keys # <<>>
           /\ \E p \in 1 .. Len(keys) : keys[p] = k
           /\ \A p \in DOMAIN batch[b].keys :
                p \in DOMAIN keys /\ keys[p] = batch[b].keys[p]
           /\ batch[b].keys = <<>> => Len(keys) = 1
<1> DEFINE keys == KeyIndex(b, k)
<1>1. batch[b].keys \in Seq(Ids)
  BY DEF LoaderTypeOK, Batch
<1>2. CASE \E p \in DOMAIN batch[b].keys : batch[b].keys[p] = k
  BY <1>1, <1>2 DEF KeyIndex
<1>3. CASE ~ \E p \in DOMAIN batch[b].keys : batch[b].keys[p] = k
  <2>1. keys = Append(batch[b].keys, k)
    BY <1>3 DEF KeyIndex
  <2>2. /\ keys \in Seq(Ids) /\ Len(keys) = Len(batch[b].keys) + 1
        /\ keys[Len(keys)] = k
        /\ \A p \in 1 .. Len(batch[b].keys) : keys[p] = batch[b].keys[p]
    BY <1>1, <2>1
  <2> HIDE DEF keys
  <2>3. keys # <<>> /\ Len(keys) \in 1 .. Len(keys) /\ DOMAIN keys = 1 .. Len(keys)
    BY <1>1, <2>2
  <2>4. \E p \in 1 .. Len(keys) : keys[p] = k
    BY <2>2, <2>3
  <2>5. \A p \in DOMAIN batch[b].keys : p \in DOMAIN keys /\ keys[p] = batch[b].keys[p]
    BY <1>1, <2>2, <2>3
  <2>6. batch[b].keys = <<>> => Len(keys) = 1
    BY <1>1, <2>2
  <2> QED  BY <2>2, <2>3, <2>4, <2>5, <2>6 DEF keys
<1> QED  BY <1>2, <1>3

\* The batch that a lookup joins has not been sent, and how it is after.
LEMMA JoinedBatch ==
    ASSUME LoaderInv, NEW i \in Lookups, NEW k \in Ids, JoinBatch(i, k),
           NEW b, b = (IF open = None THEN i ELSE open),
           NEW keys, keys = KeyIndex(b, k), NEW full, full = Fills(b, keys)
    PROVE  /\ b \in Lookups
           /\ batch[b].data = None
           /\ batch'[b] = [keys |-> keys, timer |-> TRUE, closing |-> full,
                           ends |-> IF full THEN 1 ELSE 0, data |-> None]
           /\ batch'[b] \in Batch
           /\ open' = IF full THEN None ELSE b
           /\ \A c \in Lookups : c # b => batch'[c] = batch[c] /\ open # c /\ open' # c
<1>0. LoaderTypeOK /\ BatchInv /\ NameInv
  BY DEF LoaderInv
<1>1. b \in Lookups /\ batch[b] \in Batch
  BY <1>0 DEF LoaderTypeOK
<1>3. batch[b] = NoBatch \/ Collecting(b)
  <2>1. CASE open = None
    BY <1>0, <2>1 DEF JoinBatch, NoLookup, NameInv, Unused
  <2>2. CASE open # None
    BY <1>0, <1>1, <2>2 DEF BatchInv, Unused, Sent
  <2> QED  BY <2>1, <2>2
<1>4. keys \in Seq(Ids) /\ keys # <<>> /\ (batch[b].keys = <<>> => Len(keys) = 1)
  BY <1>0, <1>1, KeysGrow, Zenon
<1>5. ~batch[b].closing /\ batch[b].ends = 0 /\ batch[b].data = None
  BY <1>3 DEF NoBatch, Collecting
<1>6. batch[b].timer \/ StartsTimer(b, keys)
  BY <1>3, <1>4 DEF NoBatch, Collecting, StartsTimer
<1>7. full \in BOOLEAN
  BY DEF Fills
<1>8. /\ batch' = [batch EXCEPT ![b] =
            [keys |-> keys, timer |-> batch[b].timer \/ StartsTimer(b, keys),
             closing |-> batch[b].closing \/ full,
             ends |-> IF full THEN batch[b].ends + 1 ELSE batch[b].ends,
             data |-> batch[b].data]]
      /\ open' = IF full THEN None ELSE b
  BY DEF JoinBatch
<1>9. batch'[b] = [keys |-> keys, timer |-> TRUE, closing |-> full,
                   ends |-> IF full THEN 1 ELSE 0, data |-> None]
  <2>1. (batch[b].timer \/ StartsTimer(b, keys)) = TRUE
    BY <1>6
  <2>2. (batch[b].closing \/ full) = full
    BY <1>5, <1>7
  <2>3. (IF full THEN batch[b].ends + 1 ELSE batch[b].ends) = (IF full THEN 1 ELSE 0)
    BY <1>5
  <2>4. batch' = [batch EXCEPT ![b] =
            [keys |-> keys, timer |-> TRUE, closing |-> full,
             ends |-> IF full THEN 1 ELSE 0, data |-> None]]
    BY <1>5, <1>8, <2>1, <2>2, <2>3, Zenon
  <2> QED  BY <1>0, <1>1, <2>4 DEF LoaderTypeOK
<1>10. batch'[b] \in Batch
  BY <1>4, <1>7, <1>9 DEF Batch
<1>11. ASSUME NEW c \in Lookups, c # b
       PROVE  batch'[c] = batch[c] /\ open # c /\ open' # c
  BY <1>0, <1>8, <1>11, NoneAssumption DEF LoaderTypeOK
<1> QED  BY <1>1, <1>5, <1>8, <1>9, <1>10, <1>11

LEMMA JoinInv ==
    ASSUME LoaderInv, NEW i \in Lookups, NEW k \in Ids, JoinBatch(i, k)
    PROVE  LoaderInv'
<1>1. PICK b : b = IF open = None THEN i ELSE open
  OBVIOUS
<1>2. PICK keys : keys = KeyIndex(b, k)
  OBVIOUS
<1>3. PICK full : full = Fills(b, keys)
  OBVIOUS
<1>4. PICK pos : pos = CHOOSE p \in 1 .. Len(keys) : keys[p] = k
  OBVIOUS
<1> DEFINE r == [at |-> "wait", key |-> k, batch |-> b, pos |-> pos, since |-> doc[k],
                 answer |-> None]
<1>5. LoaderTypeOK /\ doc[k] \in 0 .. MaxVersion /\ doc[k] \in Nat
  BY MaxVersionAssumption DEF LoaderInv, LoaderTypeOK
<1>6. /\ b \in Lookups /\ batch[b].data = None
      /\ batch'[b] = [keys |-> keys, timer |-> TRUE, closing |-> full,
                      ends |-> IF full THEN 1 ELSE 0, data |-> None]
      /\ batch'[b] \in Batch
      /\ open' = IF full THEN None ELSE b
      /\ \A c \in Lookups : c # b => batch'[c] = batch[c] /\ open # c /\ open' # c
  BY <1>1, <1>2, <1>3, JoinedBatch
<1>7. /\ keys \in Seq(Ids) /\ keys # <<>>
      /\ \E p \in 1 .. Len(keys) : keys[p] = k
      /\ \A p \in DOMAIN batch[b].keys : p \in DOMAIN keys /\ keys[p] = batch[b].keys[p]
  BY <1>2, <1>5, <1>6, KeysGrow
<1>8. pos \in 1 .. Len(keys) /\ keys[pos] = k
  BY <1>4, <1>7
<1>9. r \in Lookup
  BY <1>5, <1>6, <1>8 DEF Lookup
<1>10. /\ lookup' = [lookup EXCEPT ![i] = r] /\ lookup[i] = NoLookup
       /\ DOMAIN batch' = DOMAIN batch /\ UNCHANGED <<doc, cache>>
  BY <1>1, <1>2, <1>4, Zenon DEF JoinBatch
<1>11. /\ lookup'[i] = r
       /\ \A j \in Lookups : j # i => lookup'[j] = lookup[j]
       /\ lookup' \in [Lookups -> Lookup]
  BY <1>5, <1>9, <1>10 DEF LoaderTypeOK
<1>12. r.at = "wait" /\ r.key = k /\ r.batch = b /\ r.pos = pos /\ r.since = doc[k]
  OBVIOUS
<1> HIDE DEF r
<1>20. LoaderTypeOK'
  <2>1. batch' \in [Lookups -> Batch]
    <3>1. \A c \in Lookups : batch'[c] \in Batch
      BY <1>5, <1>6 DEF LoaderTypeOK
    <3>2. batch' = [c \in Lookups |-> batch'[c]]
      BY <1>1, <1>2, <1>5, <1>10 DEF JoinBatch, LoaderTypeOK
    <3> QED  BY <3>1, <3>2
  <2>2. open' \in Lookups \union {None}
    BY <1>6
  <2> QED  BY <2>1, <2>2, <1>5, <1>10, <1>11 DEF LoaderTypeOK
<1>21. BatchInv'
  <2> SUFFICES ASSUME NEW c \in Lookups PROVE (Unused(c) \/ Collecting(c) \/ Sent(c))'
    BY DEF BatchInv
  <2>1. CASE c = b /\ full
    BY <2>1, <1>6, <1>7, NoneAssumption DEF Sent
  <2>2. CASE c = b /\ ~full
    BY <2>2, <1>3, <1>6, <1>7 DEF Collecting, Fills
  <2>3. CASE c # b
    BY <2>3, <1>6 DEF LoaderInv, BatchInv, Unused, Collecting, Sent
  <2> QED  BY <2>1, <2>2, <2>3
<1>22. NameInv'
  <2> SUFFICES ASSUME NEW j \in Lookups, lookup'[j].at = "idle" PROVE Unused(j)'
    BY DEF NameInv
  <2>1. j # i /\ Unused(j)
    BY <1>11, <1>12 DEF LoaderInv, NameInv
  <2>2. j # b
    BY <2>1, <1>1 DEF Unused
  <2> QED  BY <2>1, <2>2, <1>6 DEF Unused
<1>23. DataInv'
  <2> SUFFICES ASSUME NEW c \in Lookups, batch'[c].data \notin {None, Error}
               PROVE  DOMAIN batch'[c].data = DOMAIN batch'[c].keys
    BY DEF DataInv
  <2> QED  BY <1>6 DEF LoaderInv, DataInv
<1>24. WaitInv'
  <2> SUFFICES ASSUME NEW j \in Lookups
               PROVE  /\ lookup'[j].at = "wait" => Served(j)'
                      /\ lookup'[j].key \in Ids => lookup'[j].since <= doc'[lookup'[j].key]
    BY DEF WaitInv
  <2>1. CASE j = i
    BY <2>1, <1>5, <1>6, <1>7, <1>8, <1>10, <1>11, <1>12 DEF Served
  <2>2. CASE j # i
    <3>1. lookup'[j] = lookup[j]
      BY <2>2, <1>11
    <3>2. lookup[j].key \in Ids => lookup[j].since <= doc'[lookup[j].key]
      BY <1>10 DEF LoaderInv, WaitInv
    <3>3. ASSUME lookup[j].at = "wait" PROVE Served(j)'
      <4>1. Served(j)
        BY <3>3 DEF LoaderInv, WaitInv
      <4>2. CASE lookup[j].batch = b
        BY <4>1, <4>2, <3>1, <1>6, <1>7, <1>10 DEF Served
      <4>3. CASE lookup[j].batch # b
        BY <4>1, <4>3, <3>1, <1>6, <1>10 DEF Served
      <4> QED  BY <4>2, <4>3
    <3> QED  BY <3>1, <3>2, <3>3
  <2> QED  BY <2>1, <2>2
<1>25. CacheInv'
  <2>1. \A c \in Ids : ToldOf(c) \subseteq ToldOf(c)'
    <3>1. lookup[i].at # "told"
      BY <1>10 DEF NoLookup
    <3> QED  BY <3>1, <1>5, <1>9, <1>10, StillTold
  <2>2. \A c \in Ids : cache'[c] # None => cache'[c] \in ToldOf(c)'
    BY <2>1, <1>10 DEF LoaderInv, CacheInv
  <2>3. ASSUME NEW j \in Lookups, lookup'[j].at = "hit"
        PROVE  lookup'[j].key \in Ids /\ lookup'[j].answer \in ToldOf(lookup[j].key)'
    <3>1. j # i /\ lookup'[j] = lookup[j]
      BY <2>3, <1>11, <1>12
    <3> QED  BY <2>1, <2>3, <3>1 DEF LoaderInv, CacheInv
  <2>4. ASSUME NEW j \in Lookups, lookup'[j].at = "hit"
        PROVE  lookup'[j] = lookup[j]
    BY <2>4, <1>11, <1>12
  <2> QED  BY <2>2, <2>3, <2>4 DEF CacheInv, ToldOf
<1> QED  BY <1>20, <1>21, <1>22, <1>23, <1>24, <1>25 DEF LoaderInv

-----------------------------------------------------------------------------
(***************************************************************************)
(* Steps of a batch, and writes of a user.                                 *)
(***************************************************************************)
\* A batch is sent, or was, and may get what its query returns.
LEMMA BatchChange ==
    ASSUME LoaderInv, NEW b \in Lookups, NEW r \in Batch, ~Unused(b),
           batch' = [batch EXCEPT ![b] = r], UNCHANGED <<doc, cache, lookup>>,
           (open' = open /\ open # b) \/ (open' = None /\ open = b),
           r.keys = batch[b].keys, r.ends = 1, r.timer => r.closing,
           r.data = batch[b].data \/ r.data = Error
           \/ r.data = [p \in DOMAIN r.keys |-> doc[r.keys[p]]]
    PROVE  LoaderInv'
<1>1. /\ LoaderTypeOK /\ batch'[b] = r
      /\ \A c \in Lookups : c # b => batch'[c] = batch[c]
  BY DEF LoaderInv, LoaderTypeOK
<1>2. LoaderTypeOK'
  BY <1>1 DEF LoaderTypeOK
<1>3. Sent(b)'
  BY <1>1, NoneAssumption DEF LoaderInv, BatchInv, Collecting, Sent
<1>4. \A c \in Lookups : c # b => open' # c \/ open = c
  BY NoneAssumption
<1>5. BatchInv'
  <2> SUFFICES ASSUME NEW c \in Lookups, c # b
               PROVE  (Unused(c) \/ Collecting(c) \/ Sent(c))'
    BY <1>3 DEF BatchInv
  <2> QED  BY <1>1, <1>4 DEF LoaderInv, BatchInv, Unused, Collecting, Sent
<1>6. NameInv'
  BY <1>1, <1>4 DEF LoaderInv, NameInv, Unused
<1>7. DataInv'
  <2> SUFFICES ASSUME r.data \notin {None, Error} PROVE DOMAIN r.data = DOMAIN r.keys
    BY <1>1 DEF LoaderInv, DataInv
  <2> QED  BY DEF LoaderInv, DataInv
<1>8. WaitInv'
  <2> SUFFICES ASSUME NEW i \in Lookups, lookup[i].at = "wait", Served(i)
               PROVE  Served(i)'
    BY DEF LoaderInv, WaitInv
  <2>1. CASE lookup[i].batch # b
    BY <1>1, <2>1 DEF Served
  <2>2. CASE lookup[i].batch = b
    <3>1. /\ lookup[i].pos \in DOMAIN r.keys /\ r.keys[lookup[i].pos] = lookup[i].key
          /\ lookup[i].key \in Ids
      BY <2>2 DEF Served
    <3>2. ASSUME r.data \notin {None, Error}
          PROVE  r.data[lookup[i].pos] \in lookup[i].since .. doc[lookup[i].key]
      <4>1. CASE r.data = batch[b].data
        BY <2>2, <3>2, <4>1 DEF Served
      <4>2. CASE r.data = [p \in DOMAIN r.keys |-> doc[r.keys[p]]]
        <5>1. r.data[lookup[i].pos] = doc[lookup[i].key]
          BY <3>1, <4>2
        <5>2. lookup[i].since \in Nat /\ doc[lookup[i].key] \in Nat
          BY <1>1, <3>1, MaxVersionAssumption DEF LoaderTypeOK, Lookup
        <5>3. lookup[i].since <= doc[lookup[i].key]
          BY <3>1 DEF LoaderInv, WaitInv
        <5> QED  BY <5>1, <5>2, <5>3
      <4> QED  BY <3>2, <4>1, <4>2
    <3> QED  BY <1>1, <2>2, <3>1, <3>2 DEF Served
  <2> QED  BY <2>1, <2>2
<1>9. CacheInv'
  BY DEF LoaderInv, CacheInv, ToldOf
<1> QED  BY <1>2, <1>5, <1>6, <1>7, <1>8, <1>9 DEF LoaderInv

LEMMA BatchStepInv ==
    ASSUME LoaderInv, NEW b \in Lookups, BatchStep(b)
    PROVE  LoaderInv'
<1>1. LoaderTypeOK /\ batch[b] \in Batch /\ (Unused(b) \/ Collecting(b) \/ Sent(b))
  BY DEF LoaderInv, LoaderTypeOK, BatchInv
<1>2. CASE TimerFires(b) /\ batch[b].closing
  <2> DEFINE r == [batch[b] EXCEPT !.timer = FALSE]
  <2>1. /\ r \in Batch /\ r.keys = batch[b].keys /\ r.ends = batch[b].ends
        /\ ~r.timer /\ r.data = batch[b].data
    BY <1>1 DEF Batch
  <2>2. /\ batch' = [batch EXCEPT ![b] = r] /\ open' = open
        /\ UNCHANGED <<doc, cache, lookup>>
    BY <1>2 DEF TimerFires
  <2>3. ~Unused(b) /\ Sent(b)
    BY <1>1, <1>2 DEF TimerFires, Unused, Collecting, NoBatch
  <2>4. (r.timer => r.closing) /\ r.ends = 1 /\ open # b
    BY <2>1, <2>3 DEF Sent
  <2> HIDE DEF r
  <2> QED  BY <2>1, <2>2, <2>3, <2>4, BatchChange
<1>3. CASE TimerFires(b) /\ ~batch[b].closing
  <2> DEFINE r == [batch[b] EXCEPT !.timer = FALSE, !.ends = @ + 1]
  <2>1. ~Unused(b) /\ Collecting(b)
    BY <1>1, <1>3 DEF TimerFires, Unused, Sent, NoBatch
  <2>2. /\ r.keys = batch[b].keys /\ r.ends = batch[b].ends + 1 /\ r.timer = FALSE
        /\ r.data = batch[b].data
    BY <1>1 DEF Batch
  <2>5. r \in Batch
    <3>1. batch[b].ends + 1 \in Nat
      BY <1>1 DEF Batch
    <3> QED  BY <1>1, <3>1 DEF Batch
  <2>3. /\ batch' = [batch EXCEPT ![b] = r] /\ open' = None
        /\ UNCHANGED <<doc, cache, lookup>>
    BY <1>1, <1>3 DEF TimerFires, LoaderTypeOK, Batch
  <2>4. (r.timer => r.closing) /\ r.ends = 1 /\ open = b
    BY <2>1, <2>2 DEF Collecting
  <2> HIDE DEF r
  <2> QED  BY <2>1, <2>2, <2>3, <2>4, <2>5, BatchChange
<1>4. ASSUME batch[b].ends > 0 PROVE Sent(b) /\ ~Unused(b)
  BY <1>1, <1>4 DEF Unused, Collecting, NoBatch
<1>5. CASE Fetch(b)
  <2> DEFINE d == [p \in DOMAIN batch[b].keys |-> doc[batch[b].keys[p]]]
             r == [batch[b] EXCEPT !.data = d]
  <2>1. d \in Seq(Nat)
    BY <1>1, MaxVersionAssumption DEF LoaderTypeOK, Batch
  <2>2. /\ r.keys = batch[b].keys /\ r.ends = batch[b].ends
        /\ r.timer = batch[b].timer /\ r.closing = batch[b].closing /\ r.data = d
    BY <1>1 DEF Batch
  <2>3. r \in Batch
    BY <1>1, <2>1 DEF Batch
  <2>4. /\ batch' = [batch EXCEPT ![b] = r] /\ open' = open
        /\ UNCHANGED <<doc, cache, lookup>>
    BY <1>5 DEF Fetch
  <2>5. Sent(b) /\ ~Unused(b)
    BY <1>4, <1>5 DEF Fetch
  <2>6. r.data = [p \in DOMAIN r.keys |-> doc[r.keys[p]]]
    BY <2>2
  <2>7. (r.timer => r.closing) /\ r.ends = 1 /\ open # b
    BY <2>2, <2>5 DEF Sent
  <2> HIDE DEF r, d
  <2> QED  BY <2>2, <2>3, <2>4, <2>5, <2>6, <2>7, BatchChange
<1>6. CASE FetchFails(b)
  <2> DEFINE r == [batch[b] EXCEPT !.data = Error]
  <2>1. /\ r.keys = batch[b].keys /\ r.ends = batch[b].ends
        /\ r.timer = batch[b].timer /\ r.closing = batch[b].closing /\ r.data = Error
        /\ r \in Batch
    BY <1>1 DEF Batch
  <2>2. /\ batch' = [batch EXCEPT ![b] = r] /\ open' = open
        /\ UNCHANGED <<doc, cache, lookup>>
    BY <1>6 DEF FetchFails
  <2>3. Sent(b) /\ ~Unused(b)
    BY <1>4, <1>6 DEF FetchFails
  <2>4. (r.timer => r.closing) /\ r.ends = 1 /\ open # b
    BY <2>1, <2>3 DEF Sent
  <2> HIDE DEF r
  <2> QED  BY <2>1, <2>2, <2>3, <2>4, BatchChange
<1> QED  BY <1>2, <1>3, <1>5, <1>6 DEF BatchStep

LEMMA WriteInv ==
    ASSUME LoaderInv, NEW k \in Ids, WriteUser(k)
    PROVE  LoaderInv'
<1>1. LoaderTypeOK /\ doc \in [Ids -> Nat]
  BY MaxVersionAssumption DEF LoaderInv, LoaderTypeOK
<1>2. doc' \in [Ids -> 0 .. MaxVersion] /\ \A j \in Ids : doc[j] <= doc'[j]
  BY <1>1, MaxVersionAssumption DEF WriteUser, LoaderTypeOK
<1>3. LoaderTypeOK'
  BY <1>1, <1>2 DEF WriteUser, LoaderTypeOK
<1>4. BatchInv' /\ NameInv' /\ DataInv'
  BY DEF LoaderInv, WriteUser, BatchInv, NameInv, DataInv, Unused, Collecting, Sent
<1>5. CacheInv'
  BY DEF LoaderInv, WriteUser, CacheInv, ToldOf
<1>6. WaitInv'
  <2> SUFFICES ASSUME NEW i \in Lookups
               PROVE  /\ lookup[i].at = "wait" => Served(i)'
                      /\ lookup[i].key \in Ids => lookup[i].since <= doc'[lookup[i].key]
    BY DEF WaitInv, WriteUser
  <2>1. lookup[i].since \in Nat
    BY <1>1 DEF LoaderTypeOK, Lookup
  <2>2. ASSUME lookup[i].key \in Ids PROVE lookup[i].since <= doc'[lookup[i].key]
    <3>1. lookup[i].since <= doc[lookup[i].key] /\ doc[lookup[i].key] <= doc'[lookup[i].key]
      BY <2>2, <1>2 DEF LoaderInv, WaitInv
    <3>2. doc[lookup[i].key] \in Nat /\ doc'[lookup[i].key] \in Nat
      BY <2>2, <1>1, <1>2, MaxVersionAssumption
    <3> QED  BY <2>1, <3>1, <3>2
  <2>3. ASSUME lookup[i].at = "wait" PROVE Served(i)'
    <3>1. Served(i)
      BY <2>3 DEF LoaderInv, WaitInv
    <3>2. /\ doc[lookup[i].key] <= doc'[lookup[i].key]
          /\ doc[lookup[i].key] \in Nat /\ doc'[lookup[i].key] \in Nat
      BY <3>1, <1>1, <1>2, MaxVersionAssumption DEF Served
    <3> QED  BY <2>1, <3>1, <3>2 DEF Served, WriteUser
  <2> QED  BY <2>2, <2>3
<1> QED  BY <1>3, <1>4, <1>5, <1>6 DEF LoaderInv

LEMMA StutterInv == LoaderInv /\ UNCHANGED loaderVars => LoaderInv'
<1> SUFFICES ASSUME LoaderInv, UNCHANGED loaderVars PROVE LoaderInv'
  OBVIOUS
<1> USE DEF loaderVars
<1>1. LoaderTypeOK'
  BY DEF LoaderInv, LoaderTypeOK
<1>2. BatchInv' /\ NameInv' /\ DataInv'
  BY DEF LoaderInv, BatchInv, NameInv, DataInv, Unused, Collecting, Sent
<1>3. WaitInv'
  BY DEF LoaderInv, WaitInv, Served
<1>4. CacheInv'
  BY DEF LoaderInv, CacheInv, ToldOf
<1> QED  BY <1>1, <1>2, <1>3, <1>4 DEF LoaderInv

LEMMA LoaderStepInv == LoaderInv /\ [LoaderNext]_loaderVars => LoaderInv'
<1> SUFFICES ASSUME LoaderInv, [LoaderNext]_loaderVars PROVE LoaderInv'
  OBVIOUS
<1>1. ASSUME NEW i \in Lookups, Return(i) PROVE LoaderInv'
  BY <1>1, ReturnInv
<1>2. ASSUME NEW b \in Lookups, BatchStep(b) PROVE LoaderInv'
  BY <1>2, BatchStepInv
<1>3. ASSUME NEW i \in Lookups, NEW k \in Ids, LoadThunk(i, k) PROVE LoaderInv'
  BY <1>3, CacheHitInv, JoinInv DEF LoadThunk
<1>4. ASSUME NEW k \in Ids, WriteUser(k) PROVE LoaderInv'
  BY <1>4, WriteInv
<1>5. CASE UNCHANGED loaderVars
  BY <1>5, StutterInv
<1> QED  BY <1>1, <1>2, <1>3, <1>4, <1>5 DEF LoaderNext

-----------------------------------------------------------------------------
(***************************************************************************)
(* What follows of the invariant.                                          *)
(***************************************************************************)
LEMMA LoaderInvariance == LoaderSpec => []LoaderInv
BY LoaderInitInv, LoaderStepInv, PTL DEF LoaderSpec

(***************************************************************************)
(* The cache, the batches and the lookups of the loader stay in their      *)
(* types: no batch is closed while it is open to others.                   *)
(***************************************************************************)
THEOREM LoaderTypeCorrect == LoaderSpec => []LoaderTypeOK
<1>1. LoaderInv => LoaderTypeOK
  BY DEF LoaderInv
<1> QED  BY <1>1, LoaderInvariance, PTL

(***************************************************************************)
(* However its timer races with the lookup that fills it, a batch is ended *)
(* once: its channel is never closed twice.                                *)
(***************************************************************************)
THEOREM BatchesEndOnce == LoaderSpec => []EndedOnce
<1>1. LoaderInv => EndedOnce
  BY DEF LoaderInv, BatchInv, EndedOnce, Unused, Collecting, Sent, NoBatch
<1> QED  BY <1>1, LoaderInvariance, PTL

(***************************************************************************)
(* The place a lookup waits for holds its own key among those sent, and    *)
(* what the query returned has that place.                                 *)
(***************************************************************************)
THEOREM WaitersGetServed == LoaderSpec => []WaitersAreServed
<1>1. LoaderInv => WaitersAreServed
  BY DEF LoaderInv, WaitInv, DataInv, Served, WaitersAreServed
<1> QED  BY <1>1, LoaderInvariance, PTL

-----------------------------------------------------------------------------
(***************************************************************************)
(* The loader implements UserLookup.                                       *)
(***************************************************************************)
\* How UserLookup sees lookup l.
Seen(l) ==
    [at |-> Stage(l.at), key |-> l.key, since |-> l.since,
     answer |-> IF l.at = "told" THEN l.answer ELSE None]

AllSeen == [i \in Lookups |-> Seen(lookup[i])]

LEMMA LookupInit == LoaderInit => Promise!Init
<1> SUFFICES ASSUME LoaderInit PROVE Promise!Init
  OBVIOUS
<1>1. \A i \in Lookups : Seen(lookup[i]) = Promise!NotAsked
  BY DEF LoaderInit, Seen, Stage, NoLookup, Promise!NotAsked
<1> QED  BY <1>1 DEF LoaderInit, Seen, Promise!Init

\* What was told is what UserLookup counts as told.
LEMMA ToldIsSeen == \A k \in Ids : Promise!Told(k) = ToldOf(k)
<1> SUFFICES ASSUME NEW k \in Ids PROVE Promise!Told(k) = ToldOf(k)
  OBVIOUS
<1> QED  BY DEF Promise!Told, ToldOf, Stage

\* A lookup that is told a is given an answer of UserLookup.
LEMMA AnswerStep ==
    ASSUME LoaderTypeOK, NEW i \in Lookups, NEW a \in Promise!Answers(i),
           lookup[i].at \in {"hit", "wait"}, UNCHANGED doc,
           lookup' = [lookup EXCEPT ![i] = [@ EXCEPT !.at = "told", !.answer = a]]
    PROVE  Promise!Answer(i)
<1>1. lookup[i] \in Lookup /\ lookup \in [Lookups -> Lookup]
  BY DEF LoaderTypeOK
<1>2. /\ lookup'[i].at = "told" /\ lookup'[i].answer = a
      /\ lookup'[i].key = lookup[i].key /\ lookup'[i].since = lookup[i].since
      /\ \A j \in Lookups : j # i => lookup'[j] = lookup[j]
  BY <1>1 DEF Lookup
<1>3. Seen(lookup'[i]) = [at |-> "told", key |-> lookup[i].key, since |-> lookup[i].since,
                          answer |-> a]
  BY <1>2 DEF Seen, Stage
<1>4. AllSeen' = [AllSeen EXCEPT ![i] =
        [at |-> "told", key |-> AllSeen[i].key, since |-> AllSeen[i].since, answer |-> a]]
  <2>1. AllSeen[i].key = lookup[i].key /\ AllSeen[i].since = lookup[i].since
    BY DEF AllSeen, Seen
  <2>2. \A j \in Lookups : j # i => Seen(lookup'[j]) = Seen(lookup[j])
    BY <1>2
  <2> QED  BY <1>3, <2>1, <2>2 DEF AllSeen
<1>5. AllSeen[i].at = "asked"
  BY DEF AllSeen, Seen, Stage
<1> QED  BY <1>4, <1>5 DEF AllSeen, Seen, Promise!Answer

LEMMA ReturnIsAnswer ==
    ASSUME LoaderInv, NEW i \in Lookups, Return(i)
    PROVE  Promise!Answer(i)
<1>0. LoaderTypeOK /\ lookup[i] \in Lookup
  BY DEF LoaderInv, LoaderTypeOK
<1>1. /\ AllSeen[i].key = lookup[i].key /\ AllSeen[i].since = lookup[i].since
  BY DEF AllSeen, Seen
<1>2. Promise!Answers(i) = {Error} \union Promise!Told(lookup[i].key)
                           \union lookup[i].since .. doc[lookup[i].key]
  BY DEF Promise!Answers
<1>3. CASE ReturnHit(i)
  <2>1. lookup[i].answer \in Promise!Answers(i)
    BY <1>2, <1>3, ToldIsSeen DEF ReturnHit, LoaderInv, CacheInv
  <2>2. [lookup[i] EXCEPT !.at = "told"]
        = [lookup[i] EXCEPT !.at = "told", !.answer = lookup[i].answer]
    BY <1>0 DEF Lookup
  <2>3. lookup' = [lookup EXCEPT ![i] = [@ EXCEPT !.at = "told", !.answer = lookup[i].answer]]
    BY <1>3, <2>2 DEF ReturnHit
  <2> QED  BY <1>0, <1>3, <2>1, <2>3, AnswerStep DEF ReturnHit
<1>4. CASE ReturnData(i)
  <2> DEFINE data == batch[lookup[i].batch].data
             user == IF lookup[i].pos \in DOMAIN data THEN data[lookup[i].pos] ELSE 0
  <2>1. Served(i) /\ lookup[i].batch \in Lookups
    BY <1>4 DEF ReturnData, LoaderInv, WaitInv, Served
  <2>2. lookup[i].pos \in DOMAIN data
    BY <1>4, <2>1 DEF ReturnData, Served, LoaderInv, DataInv
  <2>3. user \in Promise!Answers(i)
    BY <1>2, <1>4, <2>1, <2>2 DEF ReturnData, Served
  <2>4. lookup' = [lookup EXCEPT ![i] = [@ EXCEPT !.at = "told", !.answer = user]]
    BY <1>4 DEF ReturnData
  <2> HIDE DEF user
  <2> QED  BY <1>0, <1>4, <2>3, <2>4, AnswerStep DEF ReturnData
<1>5. CASE ReturnError(i)
  <2>1. Error \in Promise!Answers(i)
    BY <1>2
  <2> QED  BY <1>0, <1>5, <2>1, AnswerStep DEF ReturnError
<1> QED  BY <1>3, <1>4, <1>5 DEF Return

LEMMA LoadIsAsk ==
    ASSUME LoaderInv, NEW i \in Lookups, NEW k \in Ids, LoadThunk(i, k)
    PROVE  Promise!Ask(i, k)
<1> DEFINE r == [at |-> "asked", key |-> k, since |-> doc[k], answer |-> None]
<1>0. LoaderTypeOK /\ lookup \in [Lookups -> Lookup]
  BY DEF LoaderInv, LoaderTypeOK
<1>1. lookup[i] = NoLookup /\ UNCHANGED doc
  BY DEF LoadThunk, CacheHit, JoinBatch
<1>2. Seen(lookup[i]) = Promise!NotAsked
  BY <1>1 DEF Seen, Stage, NoLookup, Promise!NotAsked
<1>3. PICK l : /\ lookup' = [lookup EXCEPT ![i] = l]
               /\ l.at \in {"hit", "wait"} /\ l.key = k /\ l.since = doc[k]
  <2>1. CASE CacheHit(i, k)
    <3> DEFINE l == [at |-> "hit", key |-> k, batch |-> None, pos |-> 0, since |-> doc[k],
                     answer |-> cache[k]]
    <3>1. lookup' = [lookup EXCEPT ![i] = l]
      BY <2>1 DEF CacheHit
    <3>2. l.at = "hit" /\ l.key = k /\ l.since = doc[k]
      OBVIOUS
    <3> HIDE DEF l
    <3> QED  BY <3>1, <3>2
  <2>2. CASE JoinBatch(i, k)
    <3>1. PICK b, pos :
            lookup' = [lookup EXCEPT ![i] =
                [at |-> "wait", key |-> k, batch |-> b, pos |-> pos, since |-> doc[k],
                 answer |-> None]]
      BY <2>2, Zenon DEF JoinBatch
    <3> DEFINE l == [at |-> "wait", key |-> k, batch |-> b, pos |-> pos, since |-> doc[k],
                     answer |-> None]
    <3>2. l.at = "wait" /\ l.key = k /\ l.since = doc[k]
      OBVIOUS
    <3>3. lookup' = [lookup EXCEPT ![i] = l]
      BY <3>1
    <3> HIDE DEF l
    <3> QED  BY <3>2, <3>3
  <2> QED  BY <2>1, <2>2 DEF LoadThunk
<1>4. lookup'[i] = l /\ \A j \in Lookups : j # i => lookup'[j] = lookup[j]
  BY <1>0, <1>3
<1>5. Seen(lookup'[i]) = r
  BY <1>3, <1>4 DEF Seen, Stage
<1>6. AllSeen' = [AllSeen EXCEPT ![i] = r]
  BY <1>4, <1>5 DEF AllSeen
<1> QED  BY <1>1, <1>2, <1>6 DEF AllSeen, Seen, Promise!Ask

\* What the rest does, UserLookup does not see.
LEMMA OthersAreUnseen ==
    ASSUME \/ UNCHANGED loaderVars
           \/ \E b \in Lookups : BatchStep(b)
    PROVE  UNCHANGED <<doc, AllSeen>>
<1>1. UNCHANGED <<doc, lookup>>
  BY DEF loaderVars, BatchStep, TimerFires, Fetch, FetchFails
<1> QED  BY <1>1 DEF AllSeen, Seen

LEMMA PromiseStep ==
    LoaderInv /\ [LoaderNext]_loaderVars => [Promise!Next]_<<doc, AllSeen>>
<1> SUFFICES ASSUME LoaderInv, [LoaderNext]_loaderVars
             PROVE  Promise!Next \/ UNCHANGED <<doc, AllSeen>>
  OBVIOUS
<1>1. ASSUME NEW i \in Lookups, Return(i) PROVE Promise!Next
  BY <1>1, ReturnIsAnswer DEF Promise!Next
<1>2. ASSUME NEW i \in Lookups, NEW k \in Ids, LoadThunk(i, k) PROVE Promise!Next
  BY <1>2, LoadIsAsk DEF Promise!Next
<1>3. ASSUME NEW k \in Ids, WriteUser(k) PROVE Promise!Next
  BY <1>3 DEF WriteUser, Promise!Next, Promise!Write
<1>4. CASE UNCHANGED loaderVars \/ \E b \in Lookups : BatchStep(b)
  BY <1>4, OthersAreUnseen
<1> QED  BY <1>1, <1>2, <1>3, <1>4 DEF LoaderNext

(***************************************************************************)
(* The loader implements UserLookup for any number of lookups and users    *)
(* and any limit of a batch: whatever batches and the cache do, a lookup   *)
(* is told an error, its own user as it was since it asked, or what        *)
(* another lookup was told before.                                         *)
(***************************************************************************)
THEOREM LookupIsImplemented == LoaderSpec => RefinesLookup
<1>1. LoaderInv /\ [LoaderNext]_loaderVars => [Promise!Next]_<<doc, AllSeen>>
  BY PromiseStep
<1> QED
  BY <1>1, LookupInit, LoaderInvariance, PTL
  DEF LoaderSpec, RefinesLookup, Promise!Spec, AllSeen, Seen

-----------------------------------------------------------------------------
(***************************************************************************)
(* The tree of the fields that have been begun.                            *)
(***************************************************************************)
\* The fields on the way to object o.
Above(o) == {Parent(SubSeq(o, 1, d)) : d \in 1 .. Len(o)}

\* Objects are sequences; of what does not matter.
IsPath(o) == o \in Seq(Range(o))

\* Where a field is: it belongs to an object that exists, and the fields on the
\* way to it lie one in the value of the other.
Placed(n) ==
    /\ n \in FieldsOf(n[1])
    /\ IsPath(n[1])
    /\ n[1] \in Existing
    /\ Above(n[1]) \subseteq DOMAIN field
    /\ n[1] = <<>> \/ \E a \in Above(n[1]) : a[1] = <<>>
    /\ \A a \in Above(n[1]) :
        /\ Above(a[1]) \subseteq Above(n[1])
        /\ n[1] \in ObjectsIn(a) \/ \E f \in Above(n[1]) : f[1] \in ObjectsIn(a)
        /\ \A b \in Above(n[1]) : b = a \/ b \in Above(a[1]) \/ a \in Above(b[1])

\* What a field holds.
Filled(n) ==
    /\ IsLookup(n) => elements[n] = <<>>
    /\ ValueOf(n).type = "Member" => \A i \in DOMAIN elements[n] :
        ObjectIn(n, i) \in Lookups /\ elements[n][i] \in Ids

TreeInv ==
    /\ request \in Requests
    /\ DOMAIN elements = DOMAIN field
    /\ \A n \in DOMAIN field : Placed(n) /\ Filled(n)

\* The objects in a field that is done have all their fields done.
ClosedInv ==
    \A m \in DOMAIN field : Done(m) =>
        \A o \in ObjectsIn(m) : \A f \in FieldsOf(o) : Done(f)

\* Everything below a field that is done is done.
DeepInv ==
    \A n \in DOMAIN field : \A a \in Above(n[1]) : Done(a) => Done(n)

\* The root fields wait for one another.
RootInv ==
    /\ responded => \A n \in FieldsOf(<<>>) : Done(n)
    /\ request.operation = "Mutation" =>
        \A n \in DOMAIN field : n[1] = <<>> =>
            \A m \in FieldsOf(<<>>) : m[2] < n[2] => Done(m)

\* A lookup that has begun has its field, which runs until it has returned.
LookupInv ==
    \A i \in Lookups : lookup[i].at # "idle" =>
        \E n \in DOMAIN field :
            n[1] = i /\ IsLookup(n) /\ (Waiting(i) => field[n] = "running")

\* A failure reaches field m: nothing on the way may be null.
Hit(m) ==
    \E n \in DOMAIN field :
        /\ field[n] = "failed" /\ ~Nullable(n)
        /\ \/ n = m
           \/ /\ m \in Above(n[1])
              /\ \A a \in Above(n[1]) : m \in Above(a[1]) => ~Nullable(a)

\* At every field that is done nulls and failures match.
NullInv ==
    \A m \in DOMAIN field : Done(m) /\ ~Nullable(m) =>
        (field[m] \in {"null", "failed"} <=> Hit(m))

\* What was shown of user k before root field q.
ShownBefore(q, k) == UNION {Shown(r, k) : r \in 1 .. q - 1}

\* The root field at place q.
Root(q) == << <<>>, q >>

\* What mutation q is shown of user k is what the earlier ones were shown.
Agrees(q, k) ==
    /\ cache[k] \in ShownBefore(q, k)
    /\ \A i \in Lookups : lookup[i].at # "idle" /\ lookup[i].key = k /\ i[1][1] >= q =>
            lookup[i].at \in {"hit", "told"} /\ lookup[i].answer \in ShownBefore(q, k)

\* They do from the moment the mutation is begun.
AgreeInv ==
    request.operation = "Mutation" =>
        \A q \in DOMAIN request.fields, k \in Ids :
            Root(q) \in DOMAIN field /\ ShownBefore(q, k) # {} => Agrees(q, k)

-----------------------------------------------------------------------------
LEMMA PathOf ==
    ASSUME NEW S, NEW o \in Seq(S)
    PROVE  IsPath(o)
BY SeqOfRange DEF IsPath

LEMMA RootPath == IsPath(<<>>) /\ Above(<<>>) = {}
<1>1. <<>> \in Seq({}) /\ Len(<<>>) = 0
  BY EmptySeq
<1>2. IsPath(<<>>)
  BY <1>1, PathOf
<1>3. 1 .. Len(<<>>) = {}
  BY <1>1
<1> QED  BY <1>2, <1>3 DEF Above

LEMMA LongerPath ==
    ASSUME NEW o, IsPath(o), NEW x
    PROVE  /\ IsPath(Append(o, x))
           /\ Front(Append(o, x)) = o /\ Last(Append(o, x)) = x
           /\ Append(o, x) # <<>>
<1> DEFINE S == Range(o) \union {x}
<1>1. o \in Seq(S)
  BY DEF IsPath
<1>2. Append(o, x) \in Seq(S) /\ Len(Append(o, x)) = Len(o) + 1
  BY <1>1
<1>3. IsPath(Append(o, x))
  BY <1>2, PathOf
<1>4. Front(Append(o, x)) = o
  BY <1>1, <1>2 DEF Front
<1>5. Last(Append(o, x)) = x
  BY <1>1, <1>2 DEF Last
<1>6. Append(o, x) # <<>>
  BY <1>1, AppendProperties
<1> QED  BY <1>3, <1>4, <1>5, <1>6, Zenon

LEMMA AboveElement ==
    ASSUME NEW o, IsPath(o), NEW p, NEW i, NEW t
    PROVE  Above(Append(o, <<p, i, t>>)) = Above(o) \union {<<o, p>>}
<1> DEFINE e == Append(o, <<p, i, t>>)
<1>1. /\ Len(o) \in Nat /\ Len(e) = Len(o) + 1
      /\ SubSeq(e, 1, Len(o) + 1) = e
      /\ \A d \in 1 .. Len(o) : SubSeq(e, 1, d) = SubSeq(o, 1, d)
  <2> DEFINE S == Range(o) \union {<<p, i, t>>}
  <2>1. o \in Seq(S)
    BY DEF IsPath
  <2>2. e \in Seq(S) /\ Len(e) = Len(o) + 1 /\ Len(o) \in Nat
    BY <2>1
  <2>3. \A d \in 1 .. Len(o) : SubSeq(e, 1, d) = SubSeq(o, 1, d)
    BY <2>1
  <2>4. SubSeq(e, 1, Len(o) + 1) = e
    BY <2>2, SubSeqFull
  <2> QED  BY <2>2, <2>3, <2>4
<1>2. Parent(e) = <<o, p>>
  BY LongerPath DEF Parent
<1>3. 1 .. Len(e) = (1 .. Len(o)) \union {Len(o) + 1}
  BY <1>1
<1> HIDE DEF e
<1>4. Above(e) = {Parent(SubSeq(e, 1, d)) : d \in 1 .. Len(o)} \union {Parent(e)}
  BY <1>1, <1>3 DEF Above
<1>5. {Parent(SubSeq(e, 1, d)) : d \in 1 .. Len(o)} = Above(o)
  BY <1>1 DEF Above
<1> QED  BY <1>2, <1>4, <1>5 DEF e

\* The fields above an object are less deep than it.
LEMMA AboveIsShorter ==
    ASSUME NEW o, IsPath(o), NEW a \in Above(o)
    PROVE  IsPath(a[1]) /\ Len(a[1]) < Len(o) /\ Len(a[1]) \in Nat
<1>1. PICK d \in 1 .. Len(o) : a = Parent(SubSeq(o, 1, d))
  BY DEF Above
<1>2. o \in Seq(Range(o)) /\ Len(o) \in Nat
  BY DEF IsPath
<1>3. SubSeq(o, 1, d) \in Seq(Range(o)) /\ Len(SubSeq(o, 1, d)) = d
  BY <1>2
<1>4. a[1] = SubSeq(SubSeq(o, 1, d), 1, d - 1)
  BY <1>1, <1>3 DEF Parent, Front
<1>5. a[1] \in Seq(Range(o)) /\ Len(a[1]) = d - 1
  BY <1>3, <1>4
<1> QED  BY <1>2, <1>5, PathOf

\* The field at place p on the way to object i.
LEMMA OnTheWay ==
    ASSUME NEW i, IsPath(i), NEW n, n = <<n[1], n[2]>>, IsPath(n[1]),
           Len(i) > Len(n[1]), SubSeq(i, 1, Len(n[1])) = n[1], i[Len(n[1]) + 1][1] = n[2]
    PROVE  n \in Above(i)
<1> DEFINE d == Len(n[1]) + 1
<1>1. Len(n[1]) \in Nat /\ i \in Seq(Range(i)) /\ Len(i) \in Nat
  BY DEF IsPath
<1>2. d \in 1 .. Len(i)
  BY <1>1
<1>3. SubSeq(i, 1, d) \in Seq(Range(i)) /\ Len(SubSeq(i, 1, d)) = d
  BY <1>1, <1>2
<1>4. Last(SubSeq(i, 1, d)) = i[d]
  BY <1>1, <1>2, <1>3 DEF Last
<1>5. Front(SubSeq(i, 1, d)) = SubSeq(i, 1, d - 1)
  BY <1>1, <1>2, <1>3 DEF Front
<1>6. Front(SubSeq(i, 1, d)) = n[1] /\ Last(SubSeq(i, 1, d))[1] = n[2]
  <2>1. d - 1 = Len(n[1])
    BY <1>1
  <2> QED  BY <1>4, <1>5, <2>1
<1> HIDE DEF d
<1>7. Parent(SubSeq(i, 1, d)) = n
  BY <1>6 DEF Parent
<1> QED  BY <1>2, <1>7 DEF Above

-----------------------------------------------------------------------------
LEMMA SameRequest ==
    ASSUME request' = request
    PROVE  /\ \A n : /\ Nullable(n)' = Nullable(n)
                    /\ Later(n)' = Later(n)
                    /\ IsLookup(n)' = IsLookup(n)
                    /\ ValueOf(n)' = ValueOf(n)
           /\ \A n, i : ObjectIn(n, i)' = ObjectIn(n, i)
           /\ \A o : FieldsOf(o)' = FieldsOf(o)
<1>1. /\ \A o : TypeOf(o)' = TypeOf(o)
      /\ \A type : Selection(type)' = Selection(type)
  BY DEF TypeOf, Selection
<1>2. \A n : NameOf(n)' = NameOf(n)
  BY <1>1 DEF NameOf
<1>3. \A n : ValueOf(n)' = ValueOf(n)
  BY <1>1, <1>2 DEF ValueOf
<1>4. \A n : (Nullable(n)' = Nullable(n)) /\ (Later(n)' = Later(n))
  BY <1>1, <1>2 DEF Nullable, Later
<1>5. \A n : IsLookup(n)' = IsLookup(n)
  BY <1>1 DEF IsLookup
<1>6. \A n, i : ObjectIn(n, i)' = ObjectIn(n, i)
  BY <1>3 DEF ObjectIn
<1>7. \A o : FieldsOf(o)' = FieldsOf(o)
  BY <1>1 DEF FieldsOf
<1>8. \A n : /\ Nullable(n)' = Nullable(n)
             /\ Later(n)' = Later(n)
             /\ IsLookup(n)' = IsLookup(n)
             /\ ValueOf(n)' = ValueOf(n)
  BY <1>3, <1>4, <1>5
<1> QED  BY <1>6, <1>7, <1>8

LEMMA SamePair ==
    ASSUME NEW o, NEW n \in FieldsOf(o)
    PROVE  n[1] = o /\ n = <<n[1], n[2]>> /\ n[2] \in DOMAIN Selection(TypeOf(o))
BY DEF FieldsOf

\* An object in the value of field m.
LEMMA ElementPlaced ==
    ASSUME TreeInv, NEW m \in DOMAIN field, NEW o \in ObjectsIn(m)
    PROVE  /\ IsPath(o) /\ o # <<>> /\ Parent(o) = m
           /\ Above(o) = Above(m[1]) \union {m}
           /\ \E i \in DOMAIN elements[m] : o = ObjectIn(m, i) /\ Last(o) = <<m[2], i, ValueOf(m).type>>
<1>1. PICK i \in DOMAIN elements[m] : o = ObjectIn(m, i)
  BY DEF ObjectsIn
<1>2. IsPath(m[1]) /\ m = <<m[1], m[2]>>
  BY SamePair DEF TreeInv, Placed
<1>3. o = Append(m[1], <<m[2], i, ValueOf(m).type>>)
  BY <1>1 DEF ObjectIn
<1>4. /\ IsPath(o) /\ o # <<>>
      /\ Front(o) = m[1] /\ Last(o) = <<m[2], i, ValueOf(m).type>>
  BY <1>2, <1>3, LongerPath
<1>5. Parent(o) = m
  BY <1>2, <1>4 DEF Parent
<1>6. Above(o) = Above(m[1]) \union {m}
  BY <1>2, <1>3, AboveElement
<1> QED  BY <1>1, <1>4, <1>5, <1>6

LEMMA NewPlaced ==
    ASSUME TreeInv, NEW n, n \in FieldsOf(n[1]), n[1] \in Existing
    PROVE  Placed(n)
<1>1. CASE n[1] = <<>>
  BY <1>1, RootPath DEF Placed
<1>2. CASE n[1] # <<>>
  <2>1. PICK m \in DOMAIN field : n[1] \in ObjectsIn(m)
    BY <1>2 DEF Existing
  <2>2. Placed(m)
    BY DEF TreeInv
  <2>3. IsPath(n[1]) /\ Above(n[1]) = Above(m[1]) \union {m}
    BY <2>1, ElementPlaced
  <2>4. \E a \in Above(n[1]) : a[1] = <<>>
    BY <2>2, <2>3 DEF Placed
  <2>5. ASSUME NEW a \in Above(n[1])
        PROVE  /\ Above(a[1]) \subseteq Above(n[1])
               /\ n[1] \in ObjectsIn(a) \/ \E f \in Above(n[1]) : f[1] \in ObjectsIn(a)
               /\ \A b \in Above(n[1]) : b = a \/ b \in Above(a[1]) \/ a \in Above(b[1])
    BY <2>1, <2>2, <2>3 DEF Placed
  <2> QED  BY <2>2, <2>3, <2>4, <2>5 DEF Placed
<1> QED  BY <1>1, <1>2

\* No step moves a field.
LEMMA PlacedStays ==
    ASSUME TreeInv, request' = request, DOMAIN field \subseteq DOMAIN field',
           \A m \in DOMAIN field : elements'[m] = elements[m],
           NEW n, Placed(n)
    PROVE  Placed(n)'
<1>1. \A m \in DOMAIN field : ObjectsIn(m)' = ObjectsIn(m)
  BY SameRequest DEF ObjectsIn
<1>2. n[1] \in Existing'
  BY <1>1 DEF Placed, Existing
<1>3. n \in FieldsOf(n[1])'
  BY SameRequest DEF Placed
<1> QED  BY <1>1, <1>2, <1>3 DEF Placed

-----------------------------------------------------------------------------
(***************************************************************************)
(* A field is begun.                                                       *)
(***************************************************************************)
LEMMA BegunField ==
    ASSUME TreeInv, NEW n, n \notin DOMAIN field, NEW s, NEW v, Begin(n, s, v)
    PROVE  /\ request' = request /\ responded' = responded
           /\ DOMAIN field' = DOMAIN field \union {n}
           /\ DOMAIN elements' = DOMAIN field \union {n}
           /\ field'[n] = s /\ elements'[n] = v
           /\ \A m \in DOMAIN field : field'[m] = field[m] /\ elements'[m] = elements[m]
BY DEF Begin, Adding, TreeInv

LEMMA BegunTree ==
    ASSUME TreeInv, NEW n, n \in FieldsOf(n[1]), n[1] \in Existing, n \notin DOMAIN field,
           NEW s, NEW v, Begin(n, s, v),
           IsLookup(n) => v = <<>>,
           ValueOf(n).type = "Member" =>
               \A i \in DOMAIN v : ObjectIn(n, i) \in Lookups /\ v[i] \in Ids
    PROVE  TreeInv'
<1>1. /\ request' = request /\ DOMAIN field' = DOMAIN field \union {n}
      /\ DOMAIN elements' = DOMAIN field'
      /\ elements'[n] = v
      /\ \A m \in DOMAIN field : elements'[m] = elements[m]
  BY BegunField
<1>2. ASSUME NEW m \in DOMAIN field' PROVE Placed(m)'
  <2>1. Placed(m)
    BY <1>1, NewPlaced DEF TreeInv
  <2> QED  BY <1>1, <2>1, PlacedStays
<1>3. ASSUME NEW m \in DOMAIN field' PROVE Filled(m)'
  <2>1. CASE m = n
    BY <1>1, <2>1, SameRequest DEF Filled
  <2>2. CASE m # n
    <3>1. elements'[m] = elements[m] /\ Filled(m)
      BY <1>1, <2>2 DEF TreeInv
    <3> QED  BY <1>1, <3>1, SameRequest DEF Filled
  <2> QED  BY <2>1, <2>2
<1> QED  BY <1>1, <1>2, <1>3 DEF TreeInv

\* What is done is closed: nothing can be begun below it.
LEMMA NothingDoneAbove ==
    ASSUME TreeInv, ClosedInv, DeepInv, NEW n, n \in FieldsOf(n[1]), n[1] \in Existing,
           n \notin DOMAIN field, NEW a \in Above(n[1])
    PROVE  a \in DOMAIN field /\ ~Done(a)
<1>1. Placed(n)
  BY NewPlaced
<1>2. a \in DOMAIN field
  BY <1>1 DEF Placed
<1>3. n[1] # <<>>
  BY RootPath
<1>4. PICK m \in DOMAIN field : n[1] \in ObjectsIn(m)
  BY <1>3 DEF Existing
<1>5. Above(n[1]) = Above(m[1]) \union {m}
  BY <1>4, ElementPlaced
<1>6. Done(a) => Done(m)
  BY <1>5 DEF DeepInv
<1>7. Done(m) => Done(n)
  BY <1>4 DEF ClosedInv
<1> QED  BY <1>2, <1>6, <1>7 DEF Done

LEMMA BegunIsDeep ==
    ASSUME TreeInv, ClosedInv, DeepInv, NEW n, n \in FieldsOf(n[1]), n[1] \in Existing,
           n \notin DOMAIN field, NEW s, NEW v, Begin(n, s, v),
           s # "running" => v = <<>>
    PROVE  ClosedInv' /\ DeepInv'
<1>1. /\ request' = request /\ DOMAIN field' = DOMAIN field \union {n}
      /\ field'[n] = s /\ elements'[n] = v
      /\ \A m \in DOMAIN field : field'[m] = field[m] /\ elements'[m] = elements[m]
  BY BegunField
<1>2. \A m : Done(m) => Done(m)'
  BY <1>1 DEF Done
<1>3. \A m \in DOMAIN field : Done(m)' => Done(m)
  BY <1>1 DEF Done
<1>4. ASSUME NEW m \in DOMAIN field', Done(m)', NEW o \in ObjectsIn(m)', NEW f \in FieldsOf(o)'
      PROVE  Done(f)'
  <2>1. f \in FieldsOf(o)
    BY <1>1, SameRequest
  <2>2. CASE m = n
    <3>1. v = <<>>
      BY <1>1, <1>4, <2>2 DEF Done
    <3>2. PICK i \in DOMAIN elements'[n] : TRUE
      BY <2>2 DEF ObjectsIn
    <3> QED  BY <1>1, <3>1, <3>2
  <2>3. CASE m # n
    <3>1. m \in DOMAIN field /\ Done(m)
      BY <1>1, <1>3, <1>4, <2>3
    <3>2. o \in ObjectsIn(m)
      BY <1>1, <3>1, SameRequest DEF ObjectsIn
    <3> QED  BY <1>2, <2>1, <3>1, <3>2 DEF ClosedInv
  <2> QED  BY <2>2, <2>3
<1>5. ASSUME NEW m \in DOMAIN field', NEW a \in Above(m[1]), Done(a)'
      PROVE  Done(m)'
  <2>1. CASE m = n
    BY <1>3, <1>5, <2>1, NothingDoneAbove
  <2>2. CASE m # n
    <3>1. m \in DOMAIN field /\ a \in DOMAIN field
      BY <1>1, <2>2 DEF TreeInv, Placed
    <3> QED  BY <1>2, <1>3, <1>5, <3>1 DEF DeepInv
  <2> QED  BY <2>1, <2>2
<1>6. ClosedInv'
  BY <1>4 DEF ClosedInv
<1>7. \A o : Above(o)' = Above(o)
  BY DEF Above, Parent
<1> QED  BY <1>5, <1>6, <1>7 DEF DeepInv

LEMMA BegunInOrder ==
    ASSUME TreeInv, RootInv, NEW n, n \in FieldsOf(n[1]), MayBegin(n),
           NEW s, NEW v, Begin(n, s, v)
    PROVE  RootInv'
<1>1. /\ request' = request /\ responded' = responded
      /\ DOMAIN field' = DOMAIN field \union {n}
      /\ \A m \in DOMAIN field : field'[m] = field[m]
  BY BegunField DEF MayBegin
<1>2. \A m : Done(m) => Done(m)'
  BY <1>1 DEF Done
<1>3. FieldsOf(<<>>)' = FieldsOf(<<>>)
  BY <1>1, SameRequest
<1>4. responded' => \A m \in FieldsOf(<<>>)' : Done(m)'
  BY <1>1, <1>2, <1>3 DEF RootInv
<1>5. ASSUME request.operation = "Mutation", n[1] = <<>>, NEW m \in FieldsOf(<<>>), m[2] < n[2]
      PROVE  Done(m)
  <2>1. m[1] = <<>>
    BY SamePair
  <2>2. Objects["Mutation"].later = {}
    BY DEF Objects, Mutation, Marshal
  <2>3. ~Later(m)
    BY <1>5, <2>1, <2>2 DEF Later, TypeOf
  <2> QED  BY <1>5, <2>3 DEF MayBegin
<1>6. request'.operation = "Mutation" =>
        \A m \in DOMAIN field' : m[1] = <<>> =>
            \A f \in FieldsOf(<<>>)' : f[2] < m[2] => Done(f)'
  BY <1>1, <1>2, <1>3, <1>5 DEF RootInv
<1> QED  BY <1>4, <1>6 DEF RootInv

LEMMA BegunNulls ==
    ASSUME TreeInv, ClosedInv, DeepInv, NullInv, NEW n, n \in FieldsOf(n[1]), n[1] \in Existing,
           n \notin DOMAIN field, NEW s, NEW v, Begin(n, s, v),
           s \in {"running", "value", "null", "failed"}, s = "null" => Nullable(n)
    PROVE  NullInv'
<1>1. /\ request' = request /\ DOMAIN field' = DOMAIN field \union {n}
      /\ field'[n] = s
      /\ \A m \in DOMAIN field : field'[m] = field[m]
  BY BegunField
<1>2. \A m : Nullable(m)' = Nullable(m)
  BY <1>1, SameRequest
<1>3. \A o : Above(o)' = Above(o)
  BY DEF Above, Parent
<1> SUFFICES ASSUME NEW m \in DOMAIN field', Done(m)', ~Nullable(m)
             PROVE  field'[m] \in {"null", "failed"} <=> Hit(m)'
  BY <1>2 DEF NullInv
<1>4. CASE m = n
  <2>1. s \in {"null", "failed"} => Hit(m)'
    BY <1>1, <1>2, <1>4 DEF Hit
  <2>2. ASSUME Hit(m)' PROVE s = "failed"
    <3>1. PICK w \in DOMAIN field' : field'[w] = "failed" /\ (w = m \/ m \in Above(w[1]))
      BY <1>3, <2>2 DEF Hit
    <3>2. CASE w \in DOMAIN field
      BY <1>4, <3>1, <3>2 DEF TreeInv, Placed
    <3>3. CASE w = n
      <4>1. m \notin Above(n[1])
        BY <1>4, NothingDoneAbove
      <4> QED  BY <1>1, <1>4, <3>1, <3>3
    <3> QED  BY <1>1, <3>2, <3>3
  <2> QED  BY <1>1, <1>4, <2>1, <2>2
<1>5. CASE m # n
  <2>1. m \in DOMAIN field /\ field'[m] = field[m] /\ Done(m)
    BY <1>1, <1>5 DEF Done
  <2>2. Hit(m) => Hit(m)'
    BY <1>1, <1>2, <1>3 DEF Hit
  <2>3. Hit(m)' => Hit(m)
    <3>1. m \notin Above(n[1])
      BY <2>1, NothingDoneAbove
    <3> QED  BY <1>1, <1>2, <1>3, <1>5, <3>1 DEF Hit
  <2> QED  BY <2>1, <2>2, <2>3 DEF NullInv
<1> QED  BY <1>4, <1>5

-----------------------------------------------------------------------------
(***************************************************************************)
(* A field is done: what its value holds is done before.                   *)
(***************************************************************************)
Ends(n, s) ==
    /\ n \in DOMAIN field /\ field[n] = "running"
    /\ \A o \in ObjectsIn(n) : \A m \in FieldsOf(o) : Done(m)
    /\ s \in {"value", "null", "failed"}
    /\ field' = [field EXCEPT ![n] = s]
    /\ UNCHANGED <<request, elements, responded>>

LEMMA EndedField ==
    ASSUME NEW n, NEW s, Ends(n, s)
    PROVE  /\ request' = request /\ responded' = responded /\ elements' = elements
           /\ DOMAIN field' = DOMAIN field /\ field'[n] = s
           /\ \A m \in DOMAIN field : m # n => field'[m] = field[m]
           /\ \A m : Done(m)' <=> Done(m) \/ m = n
           /\ \A m : ObjectsIn(m)' = ObjectsIn(m)
           /\ \A o : Above(o)' = Above(o) /\ FieldsOf(o)' = FieldsOf(o)
<1>1. /\ request' = request /\ responded' = responded /\ elements' = elements
      /\ DOMAIN field' = DOMAIN field /\ field'[n] = s
      /\ \A m \in DOMAIN field : m # n => field'[m] = field[m]
  BY DEF Ends
<1>2. \A m : Done(m)' <=> Done(m) \/ m = n
  BY <1>1 DEF Done, Ends
<1>3. \A m : ObjectsIn(m)' = ObjectsIn(m)
  BY <1>1, SameRequest DEF ObjectsIn
<1>4. \A o : Above(o)' = Above(o) /\ FieldsOf(o)' = FieldsOf(o)
  BY <1>1, SameRequest DEF Above, Parent
<1> QED  BY <1>1, <1>2, <1>3, <1>4

LEMMA EndedTree ==
    ASSUME TreeInv, NEW n, NEW s, Ends(n, s)
    PROVE  TreeInv'
<1>1. request' = request /\ elements' = elements /\ DOMAIN field' = DOMAIN field
  BY EndedField
<1>2. ASSUME NEW m \in DOMAIN field' PROVE Placed(m)'
  BY <1>1, PlacedStays DEF TreeInv
<1>3. ASSUME NEW m \in DOMAIN field' PROVE Filled(m)'
  BY <1>1, SameRequest DEF Filled, TreeInv
<1> QED  BY <1>1, <1>2, <1>3 DEF TreeInv

\* Below a field whose own objects are done everything is.
LEMMA AllDoneBelow ==
    ASSUME TreeInv, DeepInv, NEW n, NEW s, Ends(n, s), NEW f \in DOMAIN field, n \in Above(f[1])
    PROVE  Done(f)
<1>1. Placed(f)
  BY DEF TreeInv
<1>2. CASE f[1] \in ObjectsIn(n)
  BY <1>1, <1>2 DEF Placed, Ends
<1>3. CASE \E g \in Above(f[1]) : g[1] \in ObjectsIn(n)
  <2>1. PICK g \in Above(f[1]) : g[1] \in ObjectsIn(n)
    BY <1>3
  <2>2. g \in DOMAIN field
    BY <1>1, <2>1 DEF Placed
  <2>3. g \in FieldsOf(g[1])
    BY <2>2 DEF TreeInv, Placed
  <2>4. Done(g)
    BY <2>1, <2>3 DEF Ends
  <2> QED  BY <2>1, <2>4 DEF DeepInv
<1> QED  BY <1>1, <1>2, <1>3 DEF Placed

LEMMA EndedIsDeep ==
    ASSUME TreeInv, ClosedInv, DeepInv, RootInv, NEW n, NEW s, Ends(n, s)
    PROVE  ClosedInv' /\ DeepInv' /\ RootInv'
<1>1. /\ request' = request /\ responded' = responded /\ DOMAIN field' = DOMAIN field
      /\ \A m : Done(m)' <=> Done(m) \/ m = n
      /\ \A m : ObjectsIn(m)' = ObjectsIn(m)
      /\ \A o : Above(o)' = Above(o) /\ FieldsOf(o)' = FieldsOf(o)
  BY EndedField
<1>2. ASSUME NEW m \in DOMAIN field, Done(m)' PROVE \A o \in ObjectsIn(m) : \A f \in FieldsOf(o) : Done(f)
  BY <1>1, <1>2 DEF ClosedInv, Ends
<1>3. ClosedInv'
  BY <1>1, <1>2 DEF ClosedInv
<1>4. ASSUME NEW f \in DOMAIN field, NEW a \in Above(f[1]), Done(a)' PROVE Done(f)
  BY <1>1, <1>4, AllDoneBelow DEF DeepInv
<1>5. DeepInv'
  BY <1>1, <1>4 DEF DeepInv
<1>6. RootInv'
  BY <1>1 DEF RootInv
<1> QED  BY <1>3, <1>5, <1>6

\* A failure reaches a field exactly if it reaches one of the fields in its value
\* that must not be null.
LEMMA HitFromBelow ==
    ASSUME TreeInv, NEW m \in DOMAIN field, field[m] # "failed",
           \A o \in ObjectsIn(m) : \A f \in FieldsOf(o) : f \in DOMAIN field
    PROVE  Hit(m) <=> \E o \in ObjectsIn(m) : \E f \in FieldsOf(o) : ~Nullable(f) /\ Hit(f)
<1>1. ASSUME Hit(m)
      PROVE  \E o \in ObjectsIn(m) : \E f \in FieldsOf(o) : ~Nullable(f) /\ Hit(f)
  <2>1. PICK n \in DOMAIN field : /\ field[n] = "failed" /\ ~Nullable(n) /\ m \in Above(n[1])
                                  /\ \A a \in Above(n[1]) : m \in Above(a[1]) => ~Nullable(a)
    BY <1>1 DEF Hit
  <2>2. Placed(n)
    BY DEF TreeInv
  <2>3. CASE n[1] \in ObjectsIn(m)
    <3>1. Hit(n) /\ n \in FieldsOf(n[1])
      BY <2>1, <2>2 DEF Hit, Placed
    <3> QED  BY <2>1, <2>3, <3>1
  <2>4. CASE \E f \in Above(n[1]) : f[1] \in ObjectsIn(m)
    <3>1. PICK f \in Above(n[1]) : f[1] \in ObjectsIn(m)
      BY <2>4
    <3>2. f \in DOMAIN field /\ Placed(f)
      BY <2>2 DEF Placed, TreeInv
    <3>3. m \in Above(f[1])
      BY <3>1, ElementPlaced
    <3>4. ASSUME NEW a \in Above(n[1]), f \in Above(a[1]) PROVE ~Nullable(a)
      <4>1. a \in DOMAIN field /\ Placed(a)
        BY <2>2 DEF Placed, TreeInv
      <4>2. m \in Above(a[1])
        BY <3>3, <3>4, <4>1 DEF Placed
      <4> QED  BY <2>1, <4>2
    <3>5. Hit(f)
      BY <2>1, <3>1, <3>4 DEF Hit
    <3>6. ~Nullable(f)
      BY <2>1, <3>1, <3>3
    <3> QED  BY <3>1, <3>2, <3>5, <3>6 DEF Placed
  <2> QED  BY <2>1, <2>2, <2>3, <2>4 DEF Placed
<1>2. ASSUME NEW o \in ObjectsIn(m), NEW f \in FieldsOf(o), ~Nullable(f), Hit(f)
      PROVE  Hit(m)
  <2>0. f[1] = o /\ f \in DOMAIN field
    BY SamePair
  <2>1. Above(f[1]) = Above(m[1]) \union {m}
    BY <2>0, ElementPlaced
  <2>2. m \notin Above(m[1]) /\ \A a \in Above(m[1]) : m \notin Above(a[1])
    <3>1. IsPath(m[1]) /\ \A a \in Above(m[1]) : IsPath(a[1]) /\ Len(a[1]) \in Nat
      BY AboveIsShorter DEF TreeInv, Placed
    <3>2. Len(m[1]) \in Nat
      BY <3>1 DEF IsPath
    <3> QED  BY <3>1, <3>2, AboveIsShorter
  <2>3. PICK n \in DOMAIN field :
           /\ field[n] = "failed" /\ ~Nullable(n)
           /\ \/ n = f
              \/ /\ f \in Above(n[1])
                 /\ \A a \in Above(n[1]) : f \in Above(a[1]) => ~Nullable(a)
    BY <1>2 DEF Hit
  <2>4. CASE n = f
    BY <2>1, <2>2, <2>3, <2>4 DEF Hit
  <2>5. CASE f \in Above(n[1]) /\ \A a \in Above(n[1]) : f \in Above(a[1]) => ~Nullable(a)
    <3>1. Placed(n)
      BY DEF TreeInv
    <3>2. m \in Above(n[1])
      BY <2>1, <2>5, <3>1 DEF Placed
    <3>3. ASSUME NEW a \in Above(n[1]), m \in Above(a[1]) PROVE ~Nullable(a)
      <4>1. a = f \/ f \in Above(a[1]) \/ a \in Above(f[1])
        BY <2>5, <3>1 DEF Placed
      <4>2. a \notin Above(f[1])
        BY <2>1, <2>2, <3>3
      <4> QED  BY <1>2, <2>5, <4>1, <4>2
    <3> QED  BY <2>3, <3>2, <3>3 DEF Hit
  <2> QED  BY <2>3, <2>4, <2>5
<1> QED  BY <1>1, <1>2

LEMMA EndedNulls ==
    ASSUME TreeInv, DeepInv, NullInv, NEW n, NEW s, Ends(n, s),
           s = "null" <=> \E o \in ObjectsIn(n) : IsNull(o),
           s = "failed" => ObjectsIn(n) = {}
    PROVE  NullInv'
<1>1. /\ request' = request /\ DOMAIN field' = DOMAIN field /\ field'[n] = s
      /\ \A m \in DOMAIN field : m # n => field'[m] = field[m]
      /\ \A m : Done(m)' <=> Done(m) \/ m = n
      /\ \A o : Above(o)' = Above(o)
  BY EndedField
<1>2. \A m : Nullable(m)' = Nullable(m)
  BY <1>1, SameRequest
<1>3. n \in DOMAIN field /\ field[n] = "running"
  BY DEF Ends
<1> SUFFICES ASSUME NEW m \in DOMAIN field', Done(m)', ~Nullable(m)
             PROVE  field'[m] \in {"null", "failed"} <=> Hit(m)'
  BY <1>2 DEF NullInv
<1>4. CASE m = n
  <2>1. CASE s = "failed"
    BY <1>1, <1>2, <1>4, <2>1 DEF Hit
  <2>2. CASE s # "failed"
    <3>1. \A o \in ObjectsIn(n) : \A f \in FieldsOf(o) : Done(f) /\ f \in DOMAIN field
      BY DEF Ends, Done
    <3>2. \A o \in ObjectsIn(n) : \A f \in FieldsOf(o) :
            ~Nullable(f) => (field[f] \in {"null", "failed"} <=> Hit(f))
      BY <3>1 DEF NullInv
    <3>3. s = "null" <=> Hit(n)
      BY <1>3, <3>1, <3>2, HitFromBelow DEF IsNull
    <3>4. Hit(n) <=> Hit(n)'
      BY <1>1, <1>2, <1>3, <2>2 DEF Hit
    <3> QED  BY <1>1, <1>4, <2>2, <3>3, <3>4
  <2> QED  BY <2>1, <2>2
<1>5. CASE m # n
  <2>1. m \in DOMAIN field /\ field'[m] = field[m] /\ Done(m)
    BY <1>1, <1>5
  <2>2. m \notin Above(n[1])
    BY <1>3, <2>1 DEF DeepInv, Done
  <2>3. Hit(m) <=> Hit(m)'
    BY <1>1, <1>2, <1>3, <1>5, <2>2 DEF Hit
  <2> QED  BY <2>1, <2>3 DEF NullInv
<1> QED  BY <1>4, <1>5

-----------------------------------------------------------------------------
(***************************************************************************)
(* Every step of the executor begins a field or ends one.                  *)
(***************************************************************************)
Begins(n, s, v) ==
    /\ MayBegin(n) /\ Begin(n, s, v)
    /\ s \in {"running", "value", "null", "failed"}
    /\ s # "running" => v = <<>>
    /\ s = "null" => Nullable(n)
    /\ IsLookup(n) => v = <<>>
    /\ ValueOf(n).type = "Member" =>
        \A i \in DOMAIN v : ObjectIn(n, i) \in Lookups /\ v[i] \in Ids

EndsWell(n, s) ==
    /\ Ends(n, s)
    /\ s = "null" <=> \E o \in ObjectsIn(n) : IsNull(o)
    /\ s = "failed" => ObjectsIn(n) = {}

LEMMA MemberIsRisky == "Member" \in Risky
<1>1. "Member" \in DOMAIN Fields
  BY DEF Fields
<1>2. Fallible["Member"] = {"user"}
  BY <1>1 DEF Fallible
<1> QED  BY <1>1, <1>2 DEF Risky, Holding

LEMMA ResolveBegins ==
    ASSUME NEW n, Resolve(n)
    PROVE  \E s, v : Begins(n, s, v)
<1>1. PICK v \in Values(n) : Begin(n, IF ValueOf(n).type \in Risky THEN "running" ELSE "value", v)
  BY DEF Resolve
<1>2. MayBegin(n) /\ ~IsLookup(n)
  BY DEF Resolve
<1>3. CASE ValueOf(n).type \notin Risky
  <2>1. v = <<>>
    <3>1. ValueOf(n).type # "Member"
      BY <1>3, MemberIsRisky
    <3> QED  BY <1>1, <1>3, <3>1 DEF Values
  <2>2. Begins(n, "value", v)
    BY <1>1, <1>2, <1>3, <2>1 DEF Begins
  <2> QED  BY <2>2
<1>4. CASE ValueOf(n).type \in Risky
  <2>1. ValueOf(n).type = "Member" =>
            \A i \in DOMAIN v : ObjectIn(n, i) \in Lookups /\ v[i] \in Ids
    <3> SUFFICES ASSUME ValueOf(n).type = "Member", NEW i \in DOMAIN v
                 PROVE  ObjectIn(n, i) \in Lookups /\ v[i] \in Ids
      OBVIOUS
    <3>1. v \in UNION {[1 .. w -> Ids] : w \in 0 .. Width} /\ ObjectIn(n, i) \in Lookups
      BY <1>1, <1>4 DEF Values
    <3> QED  BY <3>1
  <2>2. Begins(n, "running", v)
    BY <1>1, <1>2, <1>4, <2>1 DEF Begins
  <2> QED  BY <2>2
<1> QED  BY <1>3, <1>4

LEMMA StepBegins ==
    ASSUME NEW n, Resolve(n) \/ ResolveNil(n) \/ ResolveFails(n) \/ BeginLookup(n)
    PROVE  \E s, v : Begins(n, s, v)
<1>1. CASE Resolve(n)
  BY <1>1, ResolveBegins
<1>2. CASE ResolveNil(n)
  <2>1. Begins(n, "null", <<>>)
    BY <1>2 DEF ResolveNil, Begins
  <2> QED  BY <2>1
<1>3. CASE ResolveFails(n)
  <2>1. Begins(n, "failed", <<>>)
    BY <1>3 DEF ResolveFails, Begins
  <2> QED  BY <2>1
<1>4. CASE BeginLookup(n)
  <2>1. Begins(n, "running", <<>>)
    BY <1>4 DEF BeginLookup, Begins
  <2> QED  BY <2>1
<1> QED  BY <1>1, <1>2, <1>3, <1>4

LEMMA StepEnds ==
    ASSUME TreeInv, NEW n, EndLookup(n) \/ Finish(n)
    PROVE  \E s : EndsWell(n, s)
<1>1. CASE EndLookup(n)
  <2> DEFINE s == IF lookup'[n[1]].answer = Error THEN "failed" ELSE "value"
  <2>1. ObjectsIn(n) = {}
    <3>1. elements[n] = <<>>
      BY <1>1 DEF EndLookup, TreeInv, Filled
    <3> QED  BY <3>1 DEF ObjectsIn
  <2>2. EndsWell(n, s)
    BY <1>1, <2>1 DEF EndLookup, Ends, EndsWell
  <2> QED  BY <2>2
<1>2. CASE Finish(n)
  <2> DEFINE s == IF \E o \in ObjectsIn(n) : IsNull(o) THEN "null" ELSE "value"
  <2>1. EndsWell(n, s)
    BY <1>2 DEF Finish, Ends, EndsWell
  <2> QED  BY <2>1
<1> QED  BY <1>1, <1>2

TreeAndNullInv == TreeInv /\ ClosedInv /\ DeepInv /\ RootInv /\ NullInv

LEMMA FieldStepInv ==
    ASSUME TreeAndNullInv, NEW n, n \in FieldsOf(n[1]), n[1] \in Existing, FieldStep(n)
    PROVE  TreeAndNullInv'
<1>0. TreeInv /\ ClosedInv /\ DeepInv /\ RootInv /\ NullInv
  BY DEF TreeAndNullInv
<1>1. CASE Resolve(n) \/ ResolveNil(n) \/ ResolveFails(n) \/ BeginLookup(n)
  <2>1. PICK s, v : Begins(n, s, v)
    BY <1>1, StepBegins
  <2>2. n \notin DOMAIN field
    BY <2>1 DEF Begins, MayBegin
  <2>3. TreeInv'
    BY <1>0, <2>1, <2>2, BegunTree DEF Begins
  <2>4. ClosedInv' /\ DeepInv'
    BY <1>0, <2>1, <2>2, BegunIsDeep DEF Begins
  <2>5. RootInv'
    BY <1>0, <2>1, BegunInOrder DEF Begins
  <2>6. NullInv'
    BY <1>0, <2>1, <2>2, BegunNulls DEF Begins
  <2> QED  BY <2>3, <2>4, <2>5, <2>6 DEF TreeAndNullInv
<1>2. CASE EndLookup(n) \/ Finish(n)
  <2>1. PICK s : EndsWell(n, s)
    BY <1>0, <1>2, StepEnds
  <2>2. TreeInv' /\ ClosedInv' /\ DeepInv' /\ RootInv'
    BY <1>0, <2>1, EndedTree, EndedIsDeep DEF EndsWell
  <2>3. NullInv'
    BY <1>0, <2>1, EndedNulls DEF EndsWell
  <2> QED  BY <2>2, <2>3 DEF TreeAndNullInv
<1> QED  BY <1>1, <1>2 DEF FieldStep

\* Steps that begin and end no field.
LEMMA OtherStepInv ==
    ASSUME TreeAndNullInv, UNCHANGED <<request, field, elements>>,
           responded' => responded \/ \A n \in FieldsOf(<<>>) : Done(n)
    PROVE  TreeAndNullInv'
<1>0. TreeInv /\ ClosedInv /\ DeepInv /\ RootInv /\ NullInv
  BY DEF TreeAndNullInv
<1>1. /\ \A m : Done(m)' = Done(m)
      /\ \A m : ObjectsIn(m)' = ObjectsIn(m)
      /\ \A m : Nullable(m)' = Nullable(m)
      /\ \A o : Above(o)' = Above(o) /\ FieldsOf(o)' = FieldsOf(o)
  BY SameRequest DEF Done, ObjectsIn, Above, Parent
<1>2. TreeInv'
  <2>1. ASSUME NEW m \in DOMAIN field' PROVE Placed(m)'
    BY <1>0, PlacedStays DEF TreeInv
  <2>2. ASSUME NEW m \in DOMAIN field' PROVE Filled(m)'
    BY <1>0, SameRequest DEF Filled, TreeInv
  <2> QED  BY <1>0, <2>1, <2>2 DEF TreeInv
<1>3. ClosedInv' /\ DeepInv'
  BY <1>0, <1>1 DEF ClosedInv, DeepInv
<1>4. RootInv'
  BY <1>0, <1>1 DEF RootInv
<1>5. NullInv'
  <2>1. \A m : Hit(m)' = Hit(m)
    BY <1>1 DEF Hit
  <2> QED  BY <1>0, <1>1, <2>1 DEF NullInv
<1> QED  BY <1>2, <1>3, <1>4, <1>5 DEF TreeAndNullInv

LEMMA ExecutedField ==
    ASSUME Executor
    PROVE  \E n : n \in FieldsOf(n[1]) /\ n[1] \in Existing /\ FieldStep(n)
<1>1. PICK o \in Existing : \E n \in FieldsOf(o) : FieldStep(n)
  BY DEF Executor
<1>2. PICK n \in FieldsOf(o) : FieldStep(n)
  BY <1>1
<1>3. n[1] = o
  BY SamePair
<1> QED  BY <1>2, <1>3

LEMMA TreeAndNullInit == Init => TreeAndNullInv
<1> SUFFICES ASSUME Init PROVE TreeAndNullInv
  OBVIOUS
<1>1. DOMAIN field = {} /\ DOMAIN elements = {} /\ request \in Requests /\ ~responded
  BY DEF Init
<1> QED  BY <1>1 DEF TreeAndNullInv, TreeInv, ClosedInv, DeepInv, RootInv, NullInv

LEMMA TreeAndNullStep == TreeAndNullInv /\ [Next]_vars => TreeAndNullInv'
<1> SUFFICES ASSUME TreeAndNullInv, [Next]_vars PROVE TreeAndNullInv'
  OBVIOUS
<1>1. CASE Executor
  BY <1>1, ExecutedField, FieldStepInv
<1>2. CASE Respond
  BY <1>2, OtherStepInv DEF Respond
<1>3. CASE Batches \/ Others \/ UNCHANGED vars
  BY <1>3, OtherStepInv DEF Batches, Others, vars, executorVars
<1> QED  BY <1>1, <1>2, <1>3 DEF Next, Progress

LEMMA TreeAndNullAlways == Spec => []TreeAndNullInv
BY TreeAndNullInit, TreeAndNullStep, PTL DEF Spec

-----------------------------------------------------------------------------
(***************************************************************************)
(* The request uses its loader as LoaderSpec says.                         *)
(***************************************************************************)
\* The lookup of a member's user is one of Lookups, and asks for one of Ids.
LEMMA LookupNamed ==
    ASSUME TreeInv, NEW n, n[1] \in Existing, IsLookup(n)
    PROVE  n[1] \in Lookups /\ UserOf(n[1]) \in Ids
<1>1. n[1] # <<>>
  <2>1. request.operation # "Member"
    BY RequestsAssumption DEF TreeInv
  <2> QED  BY <2>1 DEF IsLookup, TypeOf
<1>2. PICK m \in DOMAIN field : n[1] \in ObjectsIn(m)
  BY <1>1 DEF Existing
<1>3. PICK i \in DOMAIN elements[m] :
         n[1] = ObjectIn(m, i) /\ Last(n[1]) = <<m[2], i, ValueOf(m).type>>
  BY <1>2, ElementPlaced
<1>4. Parent(n[1]) = m
  BY <1>2, ElementPlaced
<1>5. ValueOf(m).type = "Member"
  BY <1>1, <1>3 DEF IsLookup, TypeOf
<1>6. ObjectIn(m, i) \in Lookups /\ elements[m][i] \in Ids
  BY <1>5 DEF TreeInv, Filled
<1> QED  BY <1>3, <1>4, <1>6 DEF UserOf

LEMMA StepOfLoader == TreeInv /\ [Next]_vars => [LoaderNext]_loaderVars
<1> SUFFICES ASSUME TreeInv, [Next]_vars PROVE [LoaderNext]_loaderVars
  OBVIOUS
<1>1. CASE Executor
  <2>1. PICK n : n \in FieldsOf(n[1]) /\ n[1] \in Existing /\ FieldStep(n)
    BY <1>1, ExecutedField
  <2>2. CASE BeginLookup(n) \/ EndLookup(n)
    <3>1. n[1] \in Lookups /\ UserOf(n[1]) \in Ids
      BY <2>1, <2>2, LookupNamed DEF BeginLookup, EndLookup
    <3> QED  BY <2>2, <3>1 DEF BeginLookup, EndLookup, LoaderNext
  <2>3. CASE Resolve(n) \/ ResolveNil(n) \/ ResolveFails(n) \/ Finish(n)
    BY <2>3 DEF Resolve, ResolveNil, ResolveFails, Finish
  <2> QED  BY <2>1, <2>2, <2>3 DEF FieldStep
<1>2. CASE Respond \/ Batches \/ Others \/ UNCHANGED vars
  BY <1>2 DEF Respond, Batches, Others, LoaderNext, vars
<1> QED  BY <1>1, <1>2 DEF Next, Progress

(***************************************************************************)
(* Whatever the request, its width and the answers of the resolvers, the   *)
(* executor uses the loader as its users must: a lookup is begun once,     *)
(* under its own name, and is returned from only when it is answered.      *)
(* What the loader promises thereby holds for every request.               *)
(***************************************************************************)
THEOREM RequestUsesLoader == Spec => LoaderSpec
<1>1. Init => LoaderInit
  BY DEF Init
<1>2. TreeAndNullInv => TreeInv
  BY DEF TreeAndNullInv
<1> QED  BY <1>1, <1>2, StepOfLoader, TreeAndNullAlways, PTL DEF Spec, LoaderSpec

LEMMA LoaderAlways == Spec => []LoaderInv
BY RequestUsesLoader, LoaderInvariance, PTL

(***************************************************************************)
(* In every request the batches end once, those that wait are served, and  *)
(* the loader implements UserLookup.                                       *)
(***************************************************************************)
THEOREM LoaderPromisesHold == Spec => []EndedOnce /\ []WaitersAreServed /\ RefinesLookup
BY RequestUsesLoader, BatchesEndOnce, WaitersGetServed, LookupIsImplemented, PTL

-----------------------------------------------------------------------------
(***************************************************************************)
(* No goroutine outlives its field.                                        *)
(***************************************************************************)
LEMMA ReturnedLookup ==
    ASSUME LoaderTypeOK, NEW i \in Lookups, Return(i)
    PROVE  /\ lookup'[i].at = "told" /\ lookup'[i].key = lookup[i].key
           /\ \A j \in Lookups : j # i => lookup'[j] = lookup[j]
<1>1. lookup \in [Lookups -> Lookup] /\ lookup[i] \in Lookup
  BY DEF LoaderTypeOK
<1>2. CASE ReturnHit(i)
  BY <1>1, <1>2 DEF ReturnHit, Lookup
<1>3. CASE ReturnData(i)
  BY <1>1, <1>3 DEF ReturnData, Lookup
<1>4. CASE ReturnError(i)
  BY <1>1, <1>4 DEF ReturnError, Lookup
<1> QED  BY <1>2, <1>3, <1>4 DEF Return

LEMMA LookupsBegun ==
    ASSUME TreeInv, LoaderInv, LookupInv, [Next]_vars
    PROVE  LookupInv'
<1>0. lookup \in [Lookups -> Lookup]
  BY DEF LoaderInv, LoaderTypeOK
<1>1. CASE UNCHANGED <<lookup, request, field>>
  BY <1>1, SameRequest DEF LookupInv, Waiting
<1>2. ASSUME NEW n, n \in FieldsOf(n[1]), n[1] \in Existing, FieldStep(n)
      PROVE  LookupInv'
  <2>0. request' = request
    BY <1>2 DEF FieldStep, Resolve, ResolveNil, ResolveFails, BeginLookup, EndLookup, Finish, Begin
  <2>1. \A m : IsLookup(m)' = IsLookup(m)
    BY <2>0, SameRequest
  <2>2. CASE Resolve(n) \/ ResolveNil(n) \/ ResolveFails(n)
    <3>1. PICK s, v : MayBegin(n) /\ Begin(n, s, v)
      BY <2>2 DEF Resolve, ResolveNil, ResolveFails
    <3>2. /\ DOMAIN field' = DOMAIN field \union {n}
          /\ \A m \in DOMAIN field : field'[m] = field[m]
      BY <3>1, BegunField DEF MayBegin
    <3>3. lookup' = lookup
      BY <2>2 DEF Resolve, ResolveNil, ResolveFails, loaderVars
    <3> QED  BY <2>1, <3>2, <3>3 DEF LookupInv, Waiting
  <2>3. CASE Finish(n)
    <3>1. /\ DOMAIN field' = DOMAIN field /\ lookup' = lookup /\ ~IsLookup(n)
          /\ \A m \in DOMAIN field : m # n => field'[m] = field[m]
      BY <2>3 DEF Finish, loaderVars
    <3> QED  BY <2>1, <3>1 DEF LookupInv, Waiting
  <2>4. CASE BeginLookup(n)
    <3>1. /\ DOMAIN field' = DOMAIN field \union {n} /\ field'[n] = "running"
          /\ \A m \in DOMAIN field : field'[m] = field[m]
      BY <2>4, BegunField DEF BeginLookup, MayBegin
    <3>2. \A i \in Lookups : i # n[1] => lookup'[i] = lookup[i]
      BY <1>0, <2>4 DEF BeginLookup, LoadThunk, CacheHit, JoinBatch
    <3>3. IsLookup(n)
      BY <2>4 DEF BeginLookup
    <3> QED  BY <2>1, <3>1, <3>2, <3>3 DEF LookupInv, Waiting
  <2>5. CASE EndLookup(n)
    <3>1. /\ DOMAIN field' = DOMAIN field /\ n \in DOMAIN field /\ IsLookup(n)
          /\ \A m \in DOMAIN field : m # n => field'[m] = field[m]
      BY <2>5 DEF EndLookup
    <3>2. n[1] \in Lookups
      BY <1>2, <3>1, LookupNamed
    <3>3. lookup'[n[1]].at = "told" /\ \A i \in Lookups : i # n[1] => lookup'[i] = lookup[i]
      BY <2>5, <3>2, ReturnedLookup DEF EndLookup, LoaderInv
    <3> QED  BY <2>1, <3>1, <3>3 DEF LookupInv, Waiting
  <2> QED  BY <1>2, <2>2, <2>3, <2>4, <2>5 DEF FieldStep
<1>3. CASE Respond \/ Batches \/ Others \/ UNCHANGED vars
  BY <1>1, <1>3 DEF Respond, Batches, Others, vars, loaderVars, executorVars,
                    BatchStep, TimerFires, Fetch, FetchFails, WriteUser
<1> QED  BY <1>2, <1>3, ExecutedField DEF Next, Progress

LEMMA LookupsAlways == Spec => []LookupInv
<1>1. Init => LookupInv
  BY DEF Init, LoaderInit, LookupInv, NoLookup
<1>2. TreeAndNullInv => TreeInv
  BY DEF TreeAndNullInv
<1> QED  BY <1>1, <1>2, LookupsBegun, TreeAndNullAlways, LoaderAlways, PTL DEF Spec

\* A lookup is below the fields that its name says.
LEMMA LookupIsBelow ==
    ASSUME TreeInv, LookupInv, NEW n \in DOMAIN field, NEW i \in LookupsOf(n), Waiting(i)
    PROVE  \E w \in DOMAIN field : field[w] = "running" /\ n \in Above(w[1])
<1>1. PICK w \in DOMAIN field : w[1] = i /\ field[w] = "running"
  BY DEF LookupInv, LookupsOf, Waiting
<1>2. IsPath(i) /\ IsPath(n[1])
  BY <1>1 DEF TreeInv, Placed
<1>3. n = <<n[1], n[2]>>
  BY SamePair DEF TreeInv, Placed
<1>4. n \in Above(i)
  BY <1>2, <1>3, OnTheWay DEF LookupsOf
<1> QED  BY <1>1, <1>4

LEMMA NothingLeft ==
    ASSUME TreeInv, DeepInv, LookupInv, NEW n \in DOMAIN field, Done(n), NEW i \in LookupsOf(n)
    PROVE  ~Waiting(i)
<1> SUFFICES ASSUME Waiting(i) PROVE FALSE
  OBVIOUS
<1>1. PICK w \in DOMAIN field : field[w] = "running" /\ n \in Above(w[1])
  BY LookupIsBelow
<1> QED  BY <1>1 DEF DeepInv, Done

LEMMA NothingBefore ==
    ASSUME TreeInv, DeepInv, RootInv, LookupInv, request.operation = "Mutation",
           NEW n \in DOMAIN field, n[1] = <<>>, NEW q \in 1 .. n[2] - 1
    PROVE  << <<>>, q >> \in DOMAIN field /\ Done(<< <<>>, q >>)
<1> DEFINE m == << <<>>, q >>
<1>1. Selection(TypeOf(<<>>)) = request.fields
  BY DEF Selection, TypeOf
<1>2. DOMAIN request.fields = 1 .. Len(request.fields) /\ Len(request.fields) \in Nat
  BY RequestsAssumption DEF TreeInv
<1>3. n[2] \in DOMAIN request.fields
  BY <1>1, SamePair DEF TreeInv, Placed
<1>4. q \in DOMAIN request.fields
  BY <1>2, <1>3
<1>5. m \in FieldsOf(<<>>) /\ m[2] < n[2]
  BY <1>1, <1>2, <1>3, <1>4 DEF FieldsOf
<1>6. Done(m)
  BY <1>5 DEF RootInv
<1> QED  BY <1>6 DEF Done

(***************************************************************************)
(* When a field is done, or a mutation begins, no lookup of what was begun *)
(* before still uses the loader, however deep in the tree it is: by        *)
(* DeepInv everything below a field that is done is, and by LookupInv a    *)
(* lookup that waits has its own field running.                            *)
(***************************************************************************)
THEOREM GoroutinesAreJoined == Spec => []NothingOutlives
<1>1. TreeAndNullInv /\ LookupInv => NothingOutlives
  <2> SUFFICES ASSUME TreeInv, DeepInv, RootInv, LookupInv, NEW n \in DOMAIN field
               PROVE  /\ Done(n) => \A i \in LookupsOf(n) : ~Waiting(i)
                      /\ n[1] = <<>> /\ request.operation = "Mutation"
                          => \A q \in 1 .. n[2] - 1 :
                                \A i \in LookupsOf(<< <<>>, q >>) : ~Waiting(i)
    BY DEF TreeAndNullInv, NothingOutlives
  <2> QED  BY NothingLeft, NothingBefore
<1> QED  BY <1>1, TreeAndNullAlways, LookupsAlways, PTL

-----------------------------------------------------------------------------
(***************************************************************************)
(* Failures and nulls.                                                     *)
(***************************************************************************)
LEMMA UnshieldedPath ==
    ASSUME NEW n
    PROVE  Unshielded(n) <=> ~Nullable(n) /\ \A a \in Above(n[1]) : ~Nullable(a)
BY DEF Unshielded, Above

\* A failure reaches the response exactly if it reaches a root field that must
\* not be null.
LEMMA HitIsUnshielded ==
    ASSUME TreeInv
    PROVE  (\E m \in FieldsOf(<<>>) : ~Nullable(m) /\ Hit(m))
             <=> \E n \in DOMAIN field : field[n] = "failed" /\ Unshielded(n)
<1>1. ASSUME NEW m \in FieldsOf(<<>>), ~Nullable(m), Hit(m)
      PROVE  \E n \in DOMAIN field : field[n] = "failed" /\ Unshielded(n)
  <2>1. m[1] = <<>> /\ Above(m[1]) = {}
    BY SamePair, RootPath
  <2>2. PICK n \in DOMAIN field :
           /\ field[n] = "failed" /\ ~Nullable(n)
           /\ \/ n = m
              \/ /\ m \in Above(n[1])
                 /\ \A a \in Above(n[1]) : m \in Above(a[1]) => ~Nullable(a)
    BY <1>1 DEF Hit
  <2>3. ASSUME NEW a \in Above(n[1]) PROVE ~Nullable(a)
    <3>1. m \in Above(n[1]) /\ (m \in Above(a[1]) => ~Nullable(a))
      BY <2>1, <2>2, <2>3
    <3>2. a = m \/ m \in Above(a[1]) \/ a \in Above(m[1])
      BY <3>1 DEF TreeInv, Placed
    <3> QED  BY <1>1, <2>1, <3>1, <3>2
  <2> QED  BY <2>2, <2>3, UnshieldedPath
<1>2. ASSUME NEW n \in DOMAIN field, field[n] = "failed", Unshielded(n)
      PROVE  \E m \in FieldsOf(<<>>) : ~Nullable(m) /\ Hit(m)
  <2>1. Placed(n) /\ ~Nullable(n) /\ \A a \in Above(n[1]) : ~Nullable(a)
    BY <1>2, UnshieldedPath DEF TreeInv
  <2>2. CASE n[1] = <<>>
    BY <1>2, <2>1, <2>2 DEF Placed, Hit
  <2>3. CASE n[1] # <<>>
    <3>1. PICK m \in Above(n[1]) : m[1] = <<>>
      BY <2>1, <2>3 DEF Placed
    <3>2. m \in FieldsOf(<<>>)
      BY <2>1, <3>1 DEF Placed, TreeInv
    <3> QED  BY <1>2, <2>1, <3>1, <3>2 DEF Hit
  <2> QED  BY <2>2, <2>3
<1> QED  BY <1>1, <1>2

(***************************************************************************)
(* The response has no data exactly if something failed that no nullable   *)
(* field is above of, for every request, width and depth of it: by         *)
(* NullInv the same holds at every field that is done.                     *)
(***************************************************************************)
THEOREM FailuresTakeTheirNulls == Spec => []NullsMatchFailures
<1>1. TreeAndNullInv => NullsMatchFailures
  <2> SUFFICES ASSUME TreeAndNullInv, responded
               PROVE  IsNull(<<>>)
                        <=> \E n \in DOMAIN field : field[n] = "failed" /\ Unshielded(n)
    BY DEF NullsMatchFailures
  <2>1. \A m \in FieldsOf(<<>>) : Done(m) /\ m \in DOMAIN field
    BY DEF TreeAndNullInv, RootInv, Done
  <2>2. \A m \in FieldsOf(<<>>) :
          ~Nullable(m) => (field[m] \in {"null", "failed"} <=> Hit(m))
    BY <2>1 DEF TreeAndNullInv, NullInv
  <2>3. IsNull(<<>>) <=> \E m \in FieldsOf(<<>>) : ~Nullable(m) /\ Hit(m)
    BY <2>2 DEF IsNull
  <2> QED  BY <2>3, HitIsUnshielded DEF TreeAndNullInv
<1> QED  BY <1>1, TreeAndNullAlways, PTL

-----------------------------------------------------------------------------
(***************************************************************************)
(* What the mutations of a request show.                                   *)
(***************************************************************************)
\* A lookup that has begun asks for a user; what it was told is cached.
KeptInv ==
    \A i \in Lookups : lookup[i].at # "idle" =>
        /\ lookup[i].key \in Ids
        /\ lookup[i].at \in {"hit", "told"} /\ lookup[i].answer # Error
             => cache[lookup[i].key] # None

LEMMA LoadKeeps ==
    ASSUME LoaderTypeOK, KeptInv, NEW i \in Lookups, NEW k \in Ids, LoadThunk(i, k)
    PROVE  KeptInv'
<1>1. /\ lookup \in [Lookups -> Lookup] /\ cache' = cache
      /\ \A j \in Lookups : j # i => lookup'[j] = lookup[j]
  BY DEF LoaderTypeOK, LoadThunk, CacheHit, JoinBatch
<1>2. /\ lookup'[i].key = k
      /\ lookup'[i].at = "wait" \/ cache[k] # None
  BY DEF LoaderTypeOK, LoadThunk, CacheHit, JoinBatch
<1> QED  BY <1>1, <1>2 DEF KeptInv

LEMMA ReturnKeeps ==
    ASSUME LoaderInv, KeptInv, NEW i \in Lookups, Return(i)
    PROVE  KeptInv'
<1>0. LoaderTypeOK /\ lookup[i] \in Lookup
  BY DEF LoaderInv, LoaderTypeOK
<1>1. /\ lookup'[i].at = "told" /\ lookup'[i].key = lookup[i].key
      /\ \A j \in Lookups : j # i => lookup'[j] = lookup[j]
  BY <1>0, ReturnedLookup
<1>2. lookup[i].at \in {"hit", "wait"} /\ lookup[i].key \in Ids
  BY DEF Return, ReturnHit, ReturnData, ReturnError, KeptInv
<1>3. CASE ReturnHit(i)
  <2>1. cache' = cache /\ lookup'[i].answer = lookup[i].answer
    BY <1>0, <1>3 DEF ReturnHit, LoaderTypeOK, Lookup
  <2> QED  BY <1>1, <1>2, <1>3, <2>1 DEF KeptInv, ReturnHit
<1>4. CASE ReturnData(i)
  <2> DEFINE data == batch[lookup[i].batch].data
             user == IF lookup[i].pos \in DOMAIN data THEN data[lookup[i].pos] ELSE 0
  <2>1. lookup[i].batch \in Lookups
    BY <1>4 DEF ReturnData, LoaderInv, WaitInv, Served
  <2>2. data \in Seq(Nat)
    BY <1>0, <1>4, <2>1 DEF ReturnData, LoaderTypeOK, Batch
  <2>3. user # None
    BY <2>2, NoneAssumption
  <2>4. cache' = [cache EXCEPT ![lookup[i].key] = user]
    BY <1>4 DEF ReturnData
  <2> HIDE DEF user
  <2>5. \A k \in Ids : cache[k] # None => cache'[k] # None
    BY <1>0, <2>3, <2>4 DEF LoaderTypeOK
  <2>6. cache'[lookup[i].key] # None
    BY <1>0, <1>2, <2>3, <2>4 DEF LoaderTypeOK
  <2> QED  BY <1>1, <1>2, <2>5, <2>6 DEF KeptInv
<1>5. CASE ReturnError(i)
  <2>1. cache' = cache /\ lookup'[i].answer = Error
    BY <1>0, <1>5 DEF ReturnError, LoaderTypeOK, Lookup
  <2> QED  BY <1>1, <1>2, <2>1 DEF KeptInv
<1> QED  BY <1>3, <1>4, <1>5 DEF Return

LEMMA KeptAlways == LoaderSpec => []KeptInv
<1>1. LoaderInit => KeptInv
  BY DEF LoaderInit, KeptInv, NoLookup
<1>2. LoaderInv /\ KeptInv /\ [LoaderNext]_loaderVars => KeptInv'
  <2> SUFFICES ASSUME LoaderInv, KeptInv, [LoaderNext]_loaderVars PROVE KeptInv'
    OBVIOUS
  <2>1. ASSUME UNCHANGED <<lookup, cache>> PROVE KeptInv'
    BY <2>1 DEF KeptInv
  <2>2. ASSUME NEW i \in Lookups, Return(i) PROVE KeptInv'
    BY <2>2, ReturnKeeps
  <2>3. ASSUME NEW i \in Lookups, NEW k \in Ids, LoadThunk(i, k) PROVE KeptInv'
    BY <2>3, LoadKeeps DEF LoaderInv
  <2> QED  BY <2>1, <2>2, <2>3 DEF LoaderNext, loaderVars, BatchStep, TimerFires, Fetch,
                                   FetchFails, WriteUser
<1> QED  BY <1>1, <1>2, LoaderInvariance, PTL DEF LoaderSpec

\* The root field that a lookup that has begun is below.
LEMMA RootOfLookup ==
    ASSUME TreeInv, LookupInv, NEW i \in Lookups, lookup[i].at # "idle"
    PROVE  /\ Root(i[1][1]) \in DOMAIN field
           /\ i[1][1] \in DOMAIN request.fields
           /\ i \in LookupsOf(Root(i[1][1]))
<1> DEFINE n == Root(i[1][1])
<1>1. PICK w \in DOMAIN field : w[1] = i /\ IsLookup(w)
  BY DEF LookupInv
<1>2. IsPath(i) /\ i # <<>>
  <2>1. request.operation # "Member"
    BY RequestsAssumption DEF TreeInv
  <2> QED  BY <1>1, <2>1 DEF TreeInv, Placed, IsLookup, TypeOf
<1>3. n = <<n[1], n[2]>> /\ n[1] = <<>> /\ n[2] = i[1][1] /\ IsPath(n[1])
  BY RootPath DEF Root
<1>4. /\ Len(<<>>) = 0 /\ Len(i) > 0
      /\ SubSeq(i, 1, 0) = <<>>
  <2>1. i \in Seq(Range(i))
    BY <1>2 DEF IsPath
  <2> QED  BY <1>2, <2>1
<1> HIDE DEF n
<1>5. /\ Len(i) > Len(n[1]) /\ SubSeq(i, 1, Len(n[1])) = n[1]
      /\ i[Len(n[1]) + 1][1] = n[2]
  BY <1>3, <1>4
<1>6. n \in Above(i)
  BY <1>2, <1>3, <1>5, OnTheWay
<1>7. n \in DOMAIN field
  BY <1>1, <1>6 DEF TreeInv, Placed
<1>8. n[2] \in DOMAIN request.fields
  <2>1. Selection(TypeOf(<<>>)) = request.fields
    BY RequestsAssumption DEF Selection, TypeOf, TreeInv
  <2> QED  BY <1>3, <1>7, <2>1, SamePair DEF TreeInv, Placed
<1> QED  BY <1>3, <1>5, <1>7, <1>8 DEF n, LookupsOf

\* Mutations are begun in order, one when the one before is done.
LEMMA MutationsInOrder ==
    ASSUME TreeInv, RootInv, request.operation = "Mutation",
           NEW p \in DOMAIN request.fields, NEW q \in DOMAIN request.fields, p < q,
           Root(q) \in DOMAIN field
    PROVE  Root(p) \in DOMAIN field /\ Done(Root(p))
<1>1. Selection(TypeOf(<<>>)) = request.fields
  BY DEF Selection, TypeOf
<1>2. Root(p) \in FieldsOf(<<>>) /\ Root(p)[2] = p /\ Root(q)[2] = q /\ Root(q)[1] = <<>>
  BY <1>1 DEF FieldsOf, Root
<1>3. Done(Root(p))
  BY <1>2 DEF RootInv
<1> QED  BY <1>3 DEF Done

LEMMA PlacesAreNumbers ==
    ASSUME TreeInv
    PROVE  /\ DOMAIN request.fields \subseteq Nat
           /\ \A q \in DOMAIN request.fields :
                1 .. q - 1 = {p \in DOMAIN request.fields : p < q}
<1>1. DOMAIN request.fields = 1 .. Len(request.fields) /\ Len(request.fields) \in Nat
  BY RequestsAssumption DEF TreeInv
<1> QED  BY <1>1

\* Until a mutation is begun there are lookups of earlier ones only.
LEMMA AgreesAtFirst ==
    ASSUME TreeInv, RootInv, LookupInv, LoaderInv, KeptInv, request.operation = "Mutation",
           NEW q \in DOMAIN request.fields, NEW k \in Ids,
           Root(q) \notin DOMAIN field, ShownBefore(q, k) # {}
    PROVE  Agrees(q, k)
<1>1. ASSUME NEW i \in Lookups, lookup[i].at # "idle"
      PROVE  i[1][1] \in 1 .. q - 1 /\ i[1][1] < q /\ i[1][1] \in Nat
  <2>1. i[1][1] \in DOMAIN request.fields /\ Root(i[1][1]) \in DOMAIN field
    BY <1>1, RootOfLookup
  <2>2. i[1][1] # q
    BY <2>1
  <2>3. ~(q < i[1][1])
    BY <2>1, MutationsInOrder
  <2> QED  BY <2>1, <2>2, <2>3, PlacesAreNumbers
<1>2. cache[k] # None
  <2>1. PICK r \in 1 .. q - 1 : Shown(r, k) # {}
    BY DEF ShownBefore
  <2>2. PICK j \in Lookups : lookup[j].key = k /\ lookup[j].at = "told" /\ lookup[j].answer # Error
    BY <2>1 DEF Shown
  <2> QED  BY <2>2 DEF KeptInv
<1>3. PICK j \in Lookups : lookup[j].at = "told" /\ lookup[j].key = k /\ lookup[j].answer = cache[k]
  BY <1>2 DEF LoaderInv, CacheInv, ToldOf
<1>4. cache[k] # Error
  BY <1>2, NoneAssumption DEF LoaderInv, LoaderTypeOK
<1>5. cache[k] \in Shown(j[1][1], k)
  BY <1>3, <1>4 DEF Shown
<1>6. cache[k] \in ShownBefore(q, k)
  BY <1>1, <1>3, <1>5 DEF ShownBefore
<1>7. q \in Nat
  BY PlacesAreNumbers
<1>8. \A i \in Lookups : lookup[i].at # "idle" => ~(i[1][1] >= q)
  BY <1>1, <1>7
<1> QED  BY <1>6, <1>8 DEF Agrees

LEMMA ShownStays ==
    ASSUME NEW i \in Lookups, NEW q, \A r \in 1 .. q - 1 : i[1][1] # r,
           \A j \in Lookups : j # i => lookup'[j] = lookup[j]
    PROVE  \A k : ShownBefore(q, k)' = ShownBefore(q, k)
<1>1. ASSUME NEW k, NEW r \in 1 .. q - 1 PROVE Shown(r, k)' = Shown(r, k)
  BY DEF Shown
<1> QED  BY <1>1 DEF ShownBefore

\* A lookup that begins shows nothing.
LEMMA NothingShownYet ==
    ASSUME LoaderTypeOK, NEW i \in Lookups, NEW h \in Ids, LoadThunk(i, h)
    PROVE  \A q, k : ShownBefore(q, k)' = ShownBefore(q, k)
<1>1. /\ lookup[i] = NoLookup /\ lookup'[i].at \in {"hit", "wait"}
      /\ \A j \in Lookups : j # i => lookup'[j] = lookup[j]
  BY DEF LoaderTypeOK, LoadThunk, CacheHit, JoinBatch
<1>2. \A r, k : Shown(r, k)' = Shown(r, k)
  BY <1>1 DEF Shown, NoLookup
<1> QED  BY <1>2 DEF ShownBefore

\* A lookup that begins below a mutation is told what is cached.
LEMMA AgreesWhenBegun ==
    ASSUME LoaderTypeOK, KeptInv, NEW q, NEW k \in Ids, ShownBefore(q, k) # {}, Agrees(q, k),
           NEW i \in Lookups, NEW h \in Ids, LoadThunk(i, h)
    PROVE  ShownBefore(q, k)' = ShownBefore(q, k) /\ Agrees(q, k)'
<1>1. /\ cache' = cache /\ lookup[i] = NoLookup
      /\ \A j \in Lookups : j # i => lookup'[j] = lookup[j]
      /\ lookup'[i].key = h /\ lookup'[i].at \in {"hit", "wait"}
      /\ lookup'[i].at = "wait" => cache[h] = None
      /\ lookup'[i].at = "hit" => lookup'[i].answer = cache[h]
  BY DEF LoaderTypeOK, LoadThunk, CacheHit, JoinBatch
<1>3. ShownBefore(q, k)' = ShownBefore(q, k)
  BY NothingShownYet
<1>4. cache[k] # None
  <2>1. PICK r \in 1 .. q - 1 : Shown(r, k) # {}
    BY DEF ShownBefore
  <2>2. PICK j \in Lookups : lookup[j].key = k /\ lookup[j].at = "told" /\ lookup[j].answer # Error
    BY <2>1 DEF Shown
  <2> QED  BY <2>2 DEF KeptInv
<1>5. h = k => lookup'[i].at = "hit" /\ lookup'[i].answer \in ShownBefore(q, k)
  BY <1>1, <1>4 DEF Agrees
<1> QED  BY <1>1, <1>3, <1>5 DEF Agrees

\* A lookup that ends is below a mutation that is not done.
LEMMA AgreesWhenTold ==
    ASSUME LoaderInv, NEW q, NEW k \in Ids, Agrees(q, k),
           NEW i \in Lookups, Return(i), KeptInv, i[1][1] >= q, \A r \in 1 .. q - 1 : i[1][1] # r
    PROVE  ShownBefore(q, k)' = ShownBefore(q, k) /\ Agrees(q, k)'
<1>0. LoaderTypeOK
  BY DEF LoaderInv
<1>1. /\ lookup'[i].at = "told" /\ lookup'[i].key = lookup[i].key
      /\ \A j \in Lookups : j # i => lookup'[j] = lookup[j]
  BY <1>0, ReturnedLookup
<1>2. ShownBefore(q, k)' = ShownBefore(q, k)
  BY <1>1, ShownStays
<1>3. lookup[i].at \in {"hit", "wait"} /\ lookup[i].key \in Ids
  BY DEF Return, ReturnHit, ReturnData, ReturnError, KeptInv
<1>4. CASE lookup[i].key = k
  <2>1. lookup[i].at = "hit" /\ lookup[i].answer \in ShownBefore(q, k)
    BY <1>3, <1>4 DEF Agrees
  <2>2. cache' = cache /\ lookup'[i].answer = lookup[i].answer
    BY <1>0, <2>1 DEF Return, ReturnHit, ReturnData, ReturnError, LoaderTypeOK, Lookup
  <2> QED  BY <1>1, <1>2, <2>1, <2>2 DEF Agrees
<1>5. CASE lookup[i].key # k
  <2>1. cache'[k] = cache[k]
    BY <1>0, <1>5 DEF Return, ReturnHit, ReturnData, ReturnError, LoaderTypeOK
  <2> QED  BY <1>1, <1>2, <1>5, <2>1 DEF Agrees
<1> QED  BY <1>4, <1>5

LEMMA AgreeStep ==
    ASSUME TreeAndNullInv, LookupInv, LoaderInv, KeptInv, AgreeInv, [Next]_vars
    PROVE  AgreeInv'
<1>0. TreeInv /\ DeepInv /\ RootInv /\ LoaderTypeOK
  BY DEF TreeAndNullInv, LoaderInv
<1>1. CASE request' = request /\ UNCHANGED <<cache, lookup>>
  <2>1. \A q, k : ShownBefore(q, k)' = ShownBefore(q, k)
    BY <1>1 DEF ShownBefore, Shown
  <2>2. \A q, k : Agrees(q, k)' <=> Agrees(q, k)
    BY <1>1, <2>1 DEF Agrees
  <2> SUFFICES ASSUME request.operation = "Mutation",
                      NEW q \in DOMAIN request.fields, NEW k \in Ids, ShownBefore(q, k) # {}
               PROVE  Agrees(q, k)
    BY <1>1, <2>1, <2>2 DEF AgreeInv
  <2>3. CASE Root(q) \in DOMAIN field
    BY <2>3 DEF AgreeInv
  <2>4. CASE Root(q) \notin DOMAIN field
    BY <1>0, <2>4, AgreesAtFirst
  <2> QED  BY <2>3, <2>4
<1>2. ASSUME NEW n, n \in FieldsOf(n[1]), n[1] \in Existing, BeginLookup(n) \/ EndLookup(n)
      PROVE  AgreeInv'
  <2>1. IsLookup(n) /\ n[1] \in Lookups /\ UserOf(n[1]) \in Ids
    BY <1>0, <1>2, LookupNamed DEF BeginLookup, EndLookup
  <2>2. n[1] # <<>>
    <3>1. request.operation # "Member"
      BY <1>0, RequestsAssumption DEF TreeInv
    <3> QED  BY <2>1, <3>1 DEF IsLookup, TypeOf
  <2>3. request' = request /\ \A q : Root(q) \in DOMAIN field' => Root(q) \in DOMAIN field
    <3>1. \A q : Root(q) # n
      BY <2>2 DEF Root
    <3>2. CASE BeginLookup(n)
      BY <1>0, <3>1, <3>2, BegunField DEF BeginLookup, MayBegin
    <3>3. CASE EndLookup(n)
      BY <3>3 DEF EndLookup
    <3> QED  BY <1>2, <3>2, <3>3
  <2> SUFFICES ASSUME request.operation = "Mutation",
                      NEW q \in DOMAIN request.fields, NEW k \in Ids,
                      Root(q) \in DOMAIN field
               PROVE  ShownBefore(q, k)' # {} => Agrees(q, k)'
    BY <2>3 DEF AgreeInv
  <2>4. ShownBefore(q, k) # {} => Agrees(q, k)
    BY DEF AgreeInv
  <2>5. CASE BeginLookup(n)
    <3>1. LoadThunk(n[1], UserOf(n[1]))
      BY <2>5 DEF BeginLookup
    <3>2. CASE ShownBefore(q, k) # {}
      BY <1>0, <2>1, <2>4, <3>1, <3>2, AgreesWhenBegun
    <3>3. CASE ShownBefore(q, k) = {}
      BY <1>0, <2>1, <3>1, <3>3, NothingShownYet
    <3> QED  BY <3>2, <3>3
  <2>6. CASE EndLookup(n)
    <3>1. Return(n[1]) /\ lookup[n[1]].at # "idle" /\ Waiting(n[1])
      BY <2>6 DEF EndLookup, Return, ReturnHit, ReturnData, ReturnError, Waiting
    <3>2. /\ Root(n[1][1][1]) \in DOMAIN field /\ n[1][1][1] \in DOMAIN request.fields
          /\ n[1] \in LookupsOf(Root(n[1][1][1]))
      BY <1>0, <2>1, <3>1, RootOfLookup
    <3>3. ~Done(Root(n[1][1][1]))
      BY <1>0, <3>1, <3>2, NothingLeft
    <3>4. ~(n[1][1][1] < q)
      BY <1>0, <3>2, <3>3, MutationsInOrder
    <3>5. n[1][1][1] >= q /\ \A r \in 1 .. q - 1 : n[1][1][1] # r
      BY <1>0, <3>2, <3>4, PlacesAreNumbers
    <3>6. ShownBefore(q, k)' = ShownBefore(q, k)
      <4>1. \A j \in Lookups : j # n[1] => lookup'[j] = lookup[j]
        BY <1>0, <2>1, <3>1, ReturnedLookup
      <4> QED  BY <2>1, <3>5, <4>1, ShownStays
    <3> QED  BY <2>1, <2>4, <3>1, <3>5, <3>6, AgreesWhenTold
  <2> QED  BY <1>2, <2>5, <2>6
<1>3. CASE Executor
  <2>1. PICK n : n \in FieldsOf(n[1]) /\ n[1] \in Existing /\ FieldStep(n)
    BY <1>3, ExecutedField
  <2>2. CASE Resolve(n) \/ ResolveNil(n) \/ ResolveFails(n) \/ Finish(n)
    BY <1>1, <2>2 DEF Resolve, ResolveNil, ResolveFails, Finish, Begin, loaderVars
  <2> QED  BY <1>2, <2>1, <2>2 DEF FieldStep
<1>4. CASE Respond \/ Batches \/ Others \/ UNCHANGED vars
  BY <1>1, <1>4 DEF Respond, Batches, Others, vars, loaderVars, executorVars,
                    BatchStep, TimerFires, Fetch, FetchFails, WriteUser
<1> QED  BY <1>3, <1>4 DEF Next, Progress

LEMMA AgreeAlways == Spec => []AgreeInv
<1>1. Init => AgreeInv
  BY DEF Init, AgreeInv
<1> QED  BY <1>1, AgreeStep, TreeAndNullAlways, LookupsAlways, LoaderAlways, RequestUsesLoader,
            KeptAlways, PTL DEF Spec

(***************************************************************************)
(* What a mutation shows of a user that an earlier one has shown is what   *)
(* an earlier one showed, although the document may have been written in   *)
(* between: when a mutation is begun nobody below the earlier ones waits,  *)
(* so what they were told is cached, and every later lookup hits.          *)
(***************************************************************************)
THEOREM MutationsShowTheSame == Spec => []MutationsAgree
<1>1. TreeAndNullInv /\ LookupInv /\ AgreeInv => MutationsAgree
  <2> SUFFICES ASSUME TreeInv, LookupInv, AgreeInv, request.operation = "Mutation",
                      NEW k \in Ids, NEW p \in DOMAIN request.fields,
                      NEW q \in DOMAIN request.fields, p < q, Shown(p, k) # {},
                      NEW a \in Shown(q, k)
               PROVE  a \in ShownBefore(q, k)
    BY DEF TreeAndNullInv, MutationsAgree, ShownBefore
  <2>1. p \in 1 .. q - 1 /\ q \in Nat
    BY PlacesAreNumbers
  <2>2. ShownBefore(q, k) # {}
    BY <2>1 DEF ShownBefore
  <2>3. PICK i \in Lookups : /\ i[1][1] = q /\ lookup[i].key = k /\ lookup[i].at = "told"
                             /\ lookup[i].answer = a
    BY DEF Shown
  <2>4. Root(q) \in DOMAIN field
    BY <2>3, RootOfLookup
  <2>5. Agrees(q, k)
    BY <2>2, <2>4 DEF AgreeInv
  <2> QED  BY <2>1, <2>3, <2>5 DEF Agrees
<1> QED  BY <1>1, TreeAndNullAlways, LookupsAlways, AgreeAlways, PTL

-----------------------------------------------------------------------------
(***************************************************************************)
(* Nobody waits for everybody.                                             *)
(***************************************************************************)
\* The conditions of Resolve, ResolveFails and BeginLookup...
CanBegin(n) ==
    /\ MayBegin(n)
    /\ IF IsLookup(n)
         THEN lookup[n[1]] = NoLookup
         ELSE \/ NameOf(n) \notin NotImplemented /\ Values(n) # {}
              \/ NameOf(n) \in Fallible[TypeOf(n[1])]

\* ...of Return, so of EndLookup, and of Finish...
CanReturn(i) ==
    \/ lookup[i].at = "hit"
    \/ lookup[i].at = "wait" /\ batch[lookup[i].batch].data # None

CanEnd(n) ==
    /\ n \in DOMAIN field /\ field[n] = "running"
    /\ IF IsLookup(n)
         THEN CanReturn(n[1])
         ELSE \A o \in ObjectsIn(n) : \A m \in FieldsOf(o) : Done(m)

\* ...and of BatchStep and Respond.
CanGoOn(b) == batch[b].timer \/ (batch[b].ends > 0 /\ batch[b].data = None)

CanRespond == \A n \in FieldsOf(<<>>) : Done(n)

Able ==
    \/ CanRespond
    \/ \E o \in Existing : \E n \in FieldsOf(o) : CanBegin(n) \/ CanEnd(n)
    \/ \E b \in Lookups : CanGoOn(b)

\* Until the response is written some action of Progress can be taken.
NobodyIsStuck == ~responded => Able

\* The types that objects of the request have.
Types == (DOMAIN Fields \ {"Query", "Mutation"}) \union {request.operation}

TypeInv == \A n \in DOMAIN field : TypeOf(n[1]) \in Types

\* The tree has a depth.
DepthInv == \E d \in Nat : \A n \in DOMAIN field : Len(n[1]) <= d

\* A lookup that has not begun is as at first.
IdleInv == \A i \in Lookups : lookup[i].at = "idle" => lookup[i] = NoLookup

\* The field of a member's user runs only while its lookup does.
RunningInv == \A n \in DOMAIN field : field[n] = "running" /\ IsLookup(n) => Waiting(n[1])

EnabledInv == TypeInv /\ DepthInv /\ RunningInv

LEMMA LeastNumber ==
    ASSUME NEW T, T \subseteq Nat, T # {}
    PROVE  \E x \in T : \A y \in T : x <= y
<1>1. PICK x \in T : \A y \in T : ~ (<<y, x>> \in OpToRel(<, Nat))
  BY NatLessThanWellFounded, WFMin
<1>2. \A y \in T : ~(y < x)
  BY <1>1 DEF OpToRel
<1> QED  BY <1>2

LEMMA SelectionType ==
    ASSUME TreeInv, NEW t \in Types
    PROVE  t \in DOMAIN Fields /\ Selection(t) \in Seq(DOMAIN Fields[t])
<1>1. /\ request.operation \in {"Query", "Mutation"}
      /\ request.fields \in Seq(DOMAIN Fields[request.operation])
  BY RequestsAssumption DEF TreeInv
<1>2. CASE t = request.operation
  BY <1>1, <1>2, SchemaAssumption DEF Selection
<1>3. CASE t \in DOMAIN Fields \ {"Query", "Mutation"}
  BY <1>3, SchemaAssumption DEF Selection
<1> QED  BY <1>2, <1>3 DEF Types

LEMMA ExistingType ==
    ASSUME TreeInv, TypeInv, NEW o \in Existing
    PROVE  TypeOf(o) \in Types
<1>1. CASE o = <<>>
  BY <1>1 DEF TypeOf, Types
<1>2. CASE o # <<>>
  <2>1. PICK m \in DOMAIN field : o \in ObjectsIn(m)
    BY <1>2 DEF Existing
  <2>2. TypeOf(o) = ValueOf(m).type
    BY <1>2, <2>1, ElementPlaced DEF TypeOf
  <2>3. m[2] \in DOMAIN Selection(TypeOf(m[1])) /\ TypeOf(m[1]) \in Types
    BY SamePair DEF TreeInv, Placed, TypeInv
  <2>4. /\ TypeOf(m[1]) \in DOMAIN Fields
        /\ Selection(TypeOf(m[1])) \in Seq(DOMAIN Fields[TypeOf(m[1])])
    BY <2>3, SelectionType
  <2>5. NameOf(m) \in DOMAIN Fields[TypeOf(m[1])]
    BY <2>3, <2>4 DEF NameOf
  <2>6. ValueOf(m).type \in DOMAIN Fields \ {"Query", "Mutation"}
    BY <2>4, <2>5, SchemaAssumption DEF ValueOf
  <2> QED  BY <2>2, <2>6 DEF Types
<1> QED  BY <1>1, <1>2

\* A member has one field with a resolver.
LEMMA OneLookup ==
    ASSUME NEW n, NEW m, IsLookup(n), n \in FieldsOf(n[1]), m \in FieldsOf(m[1]), m[1] = n[1]
    PROVE  m = n
<1>1. n = <<n[1], n[2]>> /\ m = <<m[1], m[2]>>
  BY SamePair
<1>2. n[2] \in DOMAIN SelectionOf["Member"] /\ m[2] \in DOMAIN SelectionOf["Member"]
  BY SamePair DEF IsLookup, Selection
<1>3. DOMAIN SelectionOf["Member"] = {1}
  <2>1. /\ SelectionOf["Member"] \in Seq(DOMAIN Fields["Member"])
        /\ Len(SelectionOf["Member"]) = 1
    BY SchemaAssumption
  <2>2. DOMAIN SelectionOf["Member"] = 1 .. Len(SelectionOf["Member"])
    BY <2>1
  <2> QED  BY <2>1, <2>2
<1> QED  BY <1>1, <1>2, <1>3

LEMMA IdleAlways == LoaderSpec => []IdleInv
<1>1. LoaderInit => IdleInv
  BY DEF LoaderInit, IdleInv
<1>2. LoaderInv /\ IdleInv /\ [LoaderNext]_loaderVars => IdleInv'
  <2> SUFFICES ASSUME LoaderInv, IdleInv, [LoaderNext]_loaderVars PROVE IdleInv'
    OBVIOUS
  <2>1. ASSUME UNCHANGED lookup PROVE IdleInv'
    BY <2>1 DEF IdleInv
  <2>2. ASSUME NEW i \in Lookups, Return(i) PROVE IdleInv'
    BY <2>2, ReturnedLookup DEF IdleInv, LoaderInv
  <2>3. ASSUME NEW i \in Lookups, NEW k \in Ids, LoadThunk(i, k) PROVE IdleInv'
    BY <2>3 DEF IdleInv, LoaderInv, LoaderTypeOK, LoadThunk, CacheHit, JoinBatch
  <2> QED  BY <2>1, <2>2, <2>3 DEF LoaderNext, loaderVars, BatchStep, TimerFires, Fetch,
                                   FetchFails, WriteUser
<1> QED  BY <1>1, <1>2, LoaderInvariance, PTL DEF LoaderSpec

LEMMA EnabledInit == Init => EnabledInv
<1> SUFFICES ASSUME Init PROVE EnabledInv
  OBVIOUS
<1>1. DOMAIN field = {}
  BY DEF Init
<1> QED  BY <1>1 DEF EnabledInv, TypeInv, DepthInv, RunningInv

LEMMA BegunTypeDepth ==
    ASSUME TreeInv, TypeInv, DepthInv, NEW n, n \in FieldsOf(n[1]), n[1] \in Existing,
           request' = request, DOMAIN field' = DOMAIN field \union {n}
    PROVE  TypeInv' /\ DepthInv'
<1>1. /\ \A o : TypeOf(o)' = TypeOf(o)
      /\ Types' = Types
  BY DEF TypeOf, Types
<1>2. TypeInv'
  BY <1>1, ExistingType DEF TypeInv
<1>3. PICK d \in Nat : \A m \in DOMAIN field : Len(m[1]) <= d
  BY DEF DepthInv
<1>4. /\ Len(n[1]) \in Nat
      /\ \A m \in DOMAIN field : Len(m[1]) \in Nat
  BY NewPlaced DEF TreeInv, Placed, IsPath
<1>5. /\ d + Len(n[1]) \in Nat
      /\ \A m \in DOMAIN field' : Len(m[1]) <= d + Len(n[1])
  BY <1>3, <1>4
<1>6. DepthInv'
  BY <1>5 DEF DepthInv
<1> QED  BY <1>2, <1>6

LEMMA SameTypeDepth ==
    ASSUME TypeInv, DepthInv, request' = request, DOMAIN field' = DOMAIN field
    PROVE  TypeInv' /\ DepthInv'
<1>1. /\ \A o : TypeOf(o)' = TypeOf(o)
      /\ Types' = Types
  BY DEF TypeOf, Types
<1> QED  BY <1>1 DEF TypeInv, DepthInv

LEMMA EnabledStep ==
    ASSUME TreeInv, LoaderInv, EnabledInv, [Next]_vars
    PROVE  EnabledInv'
<1>0. TypeInv /\ DepthInv /\ RunningInv /\ LoaderTypeOK /\ lookup \in [Lookups -> Lookup]
  BY DEF EnabledInv, LoaderInv, LoaderTypeOK
<1>1. CASE UNCHANGED <<request, field, lookup>>
  BY <1>0, <1>1, SameTypeDepth, SameRequest DEF EnabledInv, RunningInv, Waiting
<1>2. ASSUME NEW n, n \in FieldsOf(n[1]), n[1] \in Existing, FieldStep(n)
      PROVE  EnabledInv'
  <2>0. request' = request
    BY <1>2 DEF FieldStep, Resolve, ResolveNil, ResolveFails, BeginLookup, EndLookup, Finish, Begin
  <2>1. \A m : IsLookup(m)' = IsLookup(m)
    BY <2>0, SameRequest
  <2>2. \A m \in DOMAIN field : IsLookup(m) => m[1] \in Lookups /\ m \in FieldsOf(m[1])
    BY LookupNamed DEF TreeInv, Placed
  <2>3. CASE Resolve(n) \/ ResolveNil(n) \/ ResolveFails(n)
    <3>1. PICK s, v : MayBegin(n) /\ Begin(n, s, v)
      BY <2>3 DEF Resolve, ResolveNil, ResolveFails
    <3>2. /\ DOMAIN field' = DOMAIN field \union {n}
          /\ \A m \in DOMAIN field : field'[m] = field[m]
      BY <3>1, BegunField DEF MayBegin
    <3>3. lookup' = lookup /\ ~IsLookup(n)
      BY <2>3 DEF Resolve, ResolveNil, ResolveFails, loaderVars
    <3>4. RunningInv'
      BY <1>0, <2>1, <3>2, <3>3 DEF RunningInv, Waiting
    <3> QED  BY <1>0, <1>2, <2>0, <3>2, <3>4, BegunTypeDepth DEF EnabledInv
  <2>4. CASE Finish(n)
    <3>1. /\ DOMAIN field' = DOMAIN field /\ lookup' = lookup /\ ~IsLookup(n)
          /\ \A m \in DOMAIN field : m # n => field'[m] = field[m]
      BY <2>4 DEF Finish, loaderVars
    <3>2. RunningInv'
      BY <1>0, <2>1, <3>1 DEF RunningInv, Waiting
    <3> QED  BY <1>0, <2>0, <3>1, <3>2, SameTypeDepth DEF EnabledInv
  <2>5. CASE BeginLookup(n)
    <3>1. /\ DOMAIN field' = DOMAIN field \union {n} /\ n \notin DOMAIN field
          /\ \A m \in DOMAIN field : field'[m] = field[m]
      BY <2>5, BegunField DEF BeginLookup, MayBegin
    <3>2. IsLookup(n) /\ n[1] \in Lookups
      BY <1>2, <2>5, LookupNamed DEF BeginLookup
    <3>3. /\ lookup'[n[1]].at \in {"hit", "wait"}
          /\ \A i \in Lookups : i # n[1] => lookup'[i] = lookup[i]
      BY <1>0, <2>5, <3>2 DEF BeginLookup, LoadThunk, CacheHit, JoinBatch
    <3>4. \A m \in DOMAIN field : IsLookup(m) => m[1] # n[1]
      BY <1>2, <2>2, <3>1, <3>2, OneLookup
    <3>5. RunningInv'
      BY <1>0, <2>1, <2>2, <3>1, <3>3, <3>4 DEF RunningInv, Waiting
    <3> QED  BY <1>0, <1>2, <2>0, <3>1, <3>5, BegunTypeDepth DEF EnabledInv
  <2>6. CASE EndLookup(n)
    <3>1. /\ DOMAIN field' = DOMAIN field /\ n \in DOMAIN field /\ IsLookup(n)
          /\ \A m \in DOMAIN field : m # n => field'[m] = field[m]
          /\ field'[n] # "running"
      BY <2>6 DEF EndLookup
    <3>2. \A i \in Lookups : i # n[1] => lookup'[i] = lookup[i]
      BY <1>0, <2>2, <2>6, <3>1, ReturnedLookup DEF EndLookup
    <3>3. \A m \in DOMAIN field : IsLookup(m) /\ m # n => m[1] # n[1]
      BY <1>2, <2>2, <3>1, OneLookup
    <3>4. RunningInv'
      BY <1>0, <2>1, <2>2, <3>1, <3>2, <3>3 DEF RunningInv, Waiting
    <3> QED  BY <1>0, <2>0, <3>1, <3>4, SameTypeDepth DEF EnabledInv
  <2> QED  BY <1>2, <2>3, <2>4, <2>5, <2>6 DEF FieldStep
<1>3. CASE Respond \/ Batches \/ Others \/ UNCHANGED vars
  BY <1>1, <1>3 DEF Respond, Batches, Others, vars, loaderVars, executorVars,
                    BatchStep, TimerFires, Fetch, FetchFails, WriteUser
<1> QED  BY <1>2, <1>3, ExecutedField DEF Next, Progress

LEMMA EnabledAlways == Spec => []EnabledInv
<1>1. TreeAndNullInv => TreeInv
  BY DEF TreeAndNullInv
<1> QED  BY <1>1, EnabledInit, EnabledStep, TreeAndNullAlways, LoaderAlways, PTL DEF Spec

\* Of the fields of an object that are not done one is running or may begin.
LEMMA OneGoesOn ==
    ASSUME TreeInv, TypeInv, NEW o \in Existing, NEW u \in FieldsOf(o), ~Done(u)
    PROVE  \E n \in FieldsOf(o) : MayBegin(n) \/ (n \in DOMAIN field /\ field[n] = "running")
<1> DEFINE early == {m \in FieldsOf(o) : ~Later(m) /\ ~Done(m)}
<1>0. \A n \in FieldsOf(o) : n[1] = o
  BY SamePair
<1>1. CASE early = {}
  <2>1. u \notin DOMAIN field => MayBegin(u)
    BY <1>0, <1>1 DEF MayBegin
  <2> QED  BY <2>1 DEF Done
<1>2. CASE early # {}
  <2>1. \A m \in FieldsOf(o) : m[2] \in Nat
    <3>1. Selection(TypeOf(o)) \in Seq(DOMAIN Fields[TypeOf(o)])
      BY ExistingType, SelectionType
    <3> QED  BY <3>1, SamePair
  <2>2. PICK p \in {m[2] : m \in early} : \A q \in {m[2] : m \in early} : p <= q
    BY <1>2, <2>1, LeastNumber
  <2>3. PICK n \in early : n[2] = p
    BY <2>2
  <2>4. ASSUME NEW m \in FieldsOf(o), ~Later(m), m[2] < n[2] PROVE Done(m)
    <3>1. m[2] \in Nat /\ n[2] \in Nat
      BY <2>1
    <3>2. m \in early => n[2] <= m[2]
      BY <2>2, <2>3
    <3> QED  BY <2>4, <3>1, <3>2
  <2>5. n \notin DOMAIN field => MayBegin(n)
    BY <1>0, <2>3, <2>4 DEF MayBegin
  <2> QED  BY <2>3, <2>5 DEF Done
<1> QED  BY <1>1, <1>2

\* There is a value for every field.
LEMMA SomeValue == ASSUME NEW n PROVE Values(n) # {}
<1>1. CASE ValueOf(n).type \notin Risky
  <2>1. ValueOf(n).type # "Member"
    BY <1>1, MemberIsRisky
  <2> QED  BY <1>1, <2>1 DEF Values
<1>2. CASE ValueOf(n).type = "Member"
  <2> DEFINE none == [i \in 1 .. 0 |-> CHOOSE k \in Ids : TRUE]
  <2>1. none \in [1 .. 0 -> Ids] /\ DOMAIN none = {} /\ 0 \in 0 .. Width
    BY WidthAssumption
  <2>2. none \in UNION {[1 .. w -> Ids] : w \in 0 .. Width}
    BY <2>1
  <2> HIDE DEF none
  <2>3. none \in {v \in UNION {[1 .. w -> Ids] : w \in 0 .. Width} :
                    \A i \in DOMAIN v : ObjectIn(n, i) \in Lookups}
    BY <2>1, <2>2
  <2> QED  BY <1>2, <2>3, MemberIsRisky DEF Values
<1>3. CASE ValueOf(n).type \in Risky /\ ValueOf(n).type # "Member"
  <2> DEFINE widths == IF ValueOf(n).list THEN 0 .. Width ELSE {1}
  <2>1. PICK w \in widths : TRUE
    BY WidthAssumption
  <2>2. Values(n) = {[i \in 1 .. x |-> None] : x \in widths}
    BY <1>3 DEF Values
  <2> HIDE DEF widths
  <2> QED  BY <2>1, <2>2
<1> QED  BY <1>1, <1>2, <1>3

LEMMA MayIsCan ==
    ASSUME TreeInv, TypeInv, LookupInv, IdleInv, NEW o \in Existing, NEW n \in FieldsOf(o),
           MayBegin(n)
    PROVE  CanBegin(n)
<1>0. n[1] = o
  BY SamePair
<1>1. CASE IsLookup(n)
  <2>1. o \in Lookups
    BY <1>0, <1>1, LookupNamed
  <2>2. ASSUME lookup[o].at # "idle" PROVE FALSE
    <3>1. PICK m \in DOMAIN field : m[1] = o
      BY <2>1, <2>2 DEF LookupInv
    <3>2. m \in FieldsOf(m[1])
      BY DEF TreeInv, Placed
    <3>3. m = n
      BY <1>0, <1>1, <3>1, <3>2, OneLookup
    <3> QED  BY <3>3 DEF MayBegin
  <2> QED  BY <1>0, <1>1, <2>1, <2>2 DEF IdleInv, CanBegin
<1>2. CASE ~IsLookup(n)
  <2>1. /\ TypeOf(o) \in DOMAIN Fields
        /\ Selection(TypeOf(o)) \in Seq(DOMAIN Fields[TypeOf(o)])
    BY ExistingType, SelectionType
  <2>2. NameOf(n) \in DOMAIN Fields[TypeOf(o)]
    BY <1>0, <2>1, SamePair DEF NameOf
  <2>3. NameOf(n) \in NotImplemented => NameOf(n) \in Fallible[TypeOf(o)]
    BY <2>1, <2>2, SchemaAssumption
  <2> QED  BY <1>0, <1>2, <2>3, SomeValue DEF CanBegin
<1> QED  BY <1>1, <1>2

\* A lookup that waits can return, or its batch goes on.
LEMMA WaitGoesOn ==
    ASSUME LoaderInv, NEW i \in Lookups, Waiting(i)
    PROVE  CanReturn(i) \/ \E b \in Lookups : CanGoOn(b)
<1>1. CASE lookup[i].at = "hit"
  BY <1>1 DEF CanReturn
<1>2. CASE lookup[i].at = "wait"
  <2> DEFINE b == lookup[i].batch
  <2>1. b \in Lookups /\ lookup[i].pos \in DOMAIN batch[b].keys
    BY <1>2 DEF LoaderInv, WaitInv, Served
  <2>2. Unused(b) \/ Collecting(b) \/ Sent(b)
    BY <2>1 DEF LoaderInv, BatchInv
  <2>3. CASE Unused(b)
    BY <2>1, <2>3 DEF Unused, NoBatch
  <2>4. CASE Collecting(b)
    BY <2>1, <2>4 DEF Collecting, CanGoOn
  <2>5. CASE Sent(b)
    BY <1>2, <2>1, <2>5 DEF Sent, CanGoOn, CanReturn
  <2> QED  BY <2>2, <2>3, <2>4, <2>5
<1> QED  BY <1>1, <1>2 DEF Waiting

\* When nothing can go on, below every running field there is another.
LEMMA AnotherBelow ==
    ASSUME TreeInv, TypeInv, LookupInv, IdleInv, LoaderInv, RunningInv, ~Able,
           NEW o \in Existing, NEW u \in FieldsOf(o), ~Done(u)
    PROVE  \E n \in DOMAIN field : n[1] = o /\ field[n] = "running"
<1>1. PICK n \in FieldsOf(o) : MayBegin(n) \/ (n \in DOMAIN field /\ field[n] = "running")
  BY OneGoesOn
<1>2. ~MayBegin(n)
  BY MayIsCan DEF Able
<1> QED  BY <1>1, <1>2, SamePair

(***************************************************************************)
(* Until the response is written some action of Progress is possible,      *)
(* whatever the request and however many objects: no field waits for       *)
(* another that waits for it, no member for a batch that nobody ends.  The *)
(* deepest field that runs is a lookup, whose batch goes on or has been    *)
(* answered, or all that its value holds is done.                          *)
(***************************************************************************)
THEOREM SomethingGoesOn == Spec => []NobodyIsStuck
<1>1. TreeAndNullInv /\ LoaderInv /\ LookupInv /\ IdleInv /\ EnabledInv => NobodyIsStuck
  <2> SUFFICES ASSUME TreeInv, LoaderInv, LookupInv, IdleInv, TypeInv, DepthInv, RunningInv,
                      ~Able
               PROVE  FALSE
    BY DEF TreeAndNullInv, EnabledInv, NobodyIsStuck
  <2> DEFINE running == {n \in DOMAIN field : field[n] = "running"}
  <2>1. PICK d \in Nat : \A n \in DOMAIN field : Len(n[1]) <= d
    BY DEF DepthInv
  <2>2. \A n \in running : Len(n[1]) \in Nat
    BY DEF TreeInv, Placed, IsPath
  <2>3. running # {}
    <3>1. PICK u \in FieldsOf(<<>>) : ~Done(u)
      BY DEF Able, CanRespond
    <3>2. <<>> \in Existing
      BY DEF Existing
    <3> QED  BY <3>1, <3>2, AnotherBelow
  <2>4. ASSUME NEW n \in running PROVE \E m \in running : Len(m[1]) = Len(n[1]) + 1
    <3>1. n \in FieldsOf(n[1]) /\ n[1] \in Existing /\ IsPath(n[1])
      BY DEF TreeInv, Placed
    <3>2. ~CanEnd(n)
      BY <3>1 DEF Able
    <3>3. ~IsLookup(n)
      <4>1. IsLookup(n) => n[1] \in Lookups /\ Waiting(n[1])
        BY <3>1, LookupNamed DEF RunningInv
      <4> QED  BY <3>2, <4>1, WaitGoesOn DEF CanEnd, Able
    <3>4. PICK o \in ObjectsIn(n) : \E u \in FieldsOf(o) : ~Done(u)
      BY <3>2, <3>3 DEF CanEnd
    <3>5. o \in Existing
      BY <3>4 DEF Existing
    <3>6. PICK m \in running : m[1] = o
      BY <3>4, <3>5, AnotherBelow
    <3>7. Len(o) = Len(n[1]) + 1
      <4>1. PICK x : o = Append(n[1], x)
        BY <3>4 DEF ObjectsIn, ObjectIn
      <4> QED  BY <3>1, <4>1 DEF IsPath
    <3> QED  BY <3>6, <3>7
  <2> HIDE DEF running
  <2>5. {d - Len(n[1]) : n \in running} \subseteq Nat
    <3>1. \A n \in running : n \in DOMAIN field
      BY DEF running
    <3> QED  BY <2>1, <2>2, <3>1
  <2>6. PICK x \in {d - Len(n[1]) : n \in running} :
           \A y \in {d - Len(n[1]) : n \in running} : x <= y
    BY <2>3, <2>5, LeastNumber
  <2>7. PICK n \in running : x = d - Len(n[1])
    BY <2>6
  <2>8. PICK m \in running : Len(m[1]) = Len(n[1]) + 1
    BY <2>4
  <2>9. x <= d - Len(m[1])
    BY <2>6
  <2> QED  BY <2>2, <2>7, <2>8, <2>9
<1> QED  BY <1>1, TreeAndNullAlways, LoaderAlways, LookupsAlways, IdleAlways, EnabledAlways,
            RequestUsesLoader, PTL

=============================================================================
