------------------------- MODULE UserAccountsProofs -------------------------
(***************************************************************************)
(* What UserAccounts guarantees for any number of people, keys and         *)
(* requests.                                                               *)
(***************************************************************************)
EXTENDS UserAccounts, TLAPS

HandlerType == handler \in [Handlers -> Request \union {Idle}]

LEMMA BusyType ==
    ASSUME HandlerType, NEW h \in Handlers, Busy(h)
    PROVE  handler[h] \in Request
BY DEF HandlerType, Busy, Idle, Request, Calls, Creating, Checks, Regenerating

LEMMA GotoFacts ==
    ASSUME HandlerType, NEW h \in Handlers, Busy(h), NEW call \in Calls, Goto(h, call)
    PROVE  /\ handler'[h].at = call
           /\ handler'[h].email = handler[h].email
           /\ handler'[h].sub = handler[h].sub
           /\ handler'[h].key = handler[h].key
           /\ \A g \in Handlers \ {h} : handler'[g] = handler[g]
           /\ HandlerType'
<1>1. handler[h] \in Request
  BY BusyType
<1>2. handler' = [handler EXCEPT ![h] = [handler[h] EXCEPT !.at = call]]
  BY DEF Goto
<1>3. [handler[h] EXCEPT !.at = call] \in Request
  BY <1>1 DEF Request
<1> QED  BY <1>1, <1>2, <1>3 DEF HandlerType, Request

LEMMA AnswerFacts ==
    ASSUME HandlerType, NEW h \in Handlers, Answer(h)
    PROVE  /\ handler'[h] = Idle
           /\ \A g \in Handlers \ {h} : handler'[g] = handler[g]
           /\ alone' = alone \ {h}
           /\ HandlerType'
BY DEF Answer, HandlerType

\* A handler that takes new keys, and goes on.
LEMMA KeyFacts ==
    ASSUME HandlerType, NEW h \in Handlers, Busy(h), NEW call \in Calls, NEW k \in Keys,
           GotoWith(h, call, k)
    PROVE  /\ handler'[h].at = call
           /\ handler'[h].email = handler[h].email
           /\ handler'[h].sub = handler[h].sub
           /\ handler'[h].key = k
           /\ \A g \in Handlers \ {h} : handler'[g] = handler[g]
           /\ HandlerType'
<1>1. handler[h] \in Request
  BY BusyType
<1>2. [handler[h] EXCEPT !.at = call, !.key = k] \in Request
  BY <1>1 DEF Request
<1>3. handler' = [handler EXCEPT ![h] = [handler[h] EXCEPT !.at = call, !.key = k]]
  BY DEF GotoWith
<1> QED  BY <1>1, <1>2, <1>3 DEF HandlerType, Request

LEMMA ArriveFacts ==
    ASSUME HandlerType, NEW h \in Handlers, NEW e \in Emails, NEW s \in Subs, Arrive(h, e, s)
    PROVE  /\ started /\ handler[h] = Idle
           /\ handler'[h].at \in {"username", "serve", "subCheck"}
           /\ handler'[h].at = "username" => \A u \in users : u.email # e
           /\ handler'[h].email = e
           /\ \A g \in Handlers \ {h} : handler'[g] = handler[g]
           /\ HandlerType'
           /\ UNCHANGED <<users, indexes, started, secret, alone>>
<1>1. PICK next \in {"username", "serve", "subCheck"} :
        /\ CASE next = "username" -> \A u \in users : u.email # e
             [] next = "serve"    -> \E u \in users : u.email = e /\ u.sub = s
             [] next = "subCheck" -> \E u \in users : u.email = e /\ u.sub # s
        /\ handler' = [handler EXCEPT ![h] =
                        [at |-> next, email |-> e, sub |-> s, key |-> NoKey]]
  BY DEF Arrive
<1>2. [at |-> next, email |-> e, sub |-> s, key |-> NoKey] \in Request
  BY DEF Request, Calls, Creating, Checks
<1>3. handler[h] = Idle
  BY DEF Arrive, Busy, HandlerType, Request, Calls, Creating, Checks, Regenerating
<1> QED  BY <1>1, <1>2, <1>3 DEF Arrive, HandlerType

-----------------------------------------------------------------------------

\* Who is about to store a pair has one.
HoldsKeys ==
    \A h \in Handlers : handler[h].at \in {"secret"} \union Regenerating => handler[h].key \in Keys

TypeInv == TypeOK /\ HoldsKeys

LEMMA SubFacts ==
    ASSUME TypeOK, NEW h \in Handlers, UpdateSub(h)
    PROVE  /\ Busy(h) /\ handler[h] \in Request
           /\ handler'[h].at = "serve"
           /\ \A g \in Handlers \ {h} : handler'[g] = handler[g]
           /\ HandlerType'
           /\ UNCHANGED <<indexes, started, secret, alone>>
           /\ \E u \in users : LET v == [u EXCEPT !.sub = handler[h].sub] IN
                /\ v \in User /\ v.email = u.email /\ v.key = u.key
                /\ v.sub = handler[h].sub
                /\ ~Clash(v, users \ {u})
                /\ users' = (users \ {u}) \union {v}
<1>1. Busy(h) /\ HandlerType
  BY DEF UpdateSub, Busy, TypeOK, HandlerType
<1>2. handler[h] \in Request
  BY <1>1, BusyType
<1>3. "serve" \in Calls
  BY DEF Calls
<1>4. /\ handler'[h].at = "serve"
      /\ \A g \in Handlers \ {h} : handler'[g] = handler[g]
      /\ HandlerType'
  BY <1>1, <1>3, GotoFacts DEF UpdateSub
<1>5. PICK u \in users : LET v == [u EXCEPT !.sub = handler[h].sub] IN
                /\ ~Clash(v, users \ {u})
                /\ users' = (users \ {u}) \union {v}
  BY DEF UpdateSub
<1>6. LET v == [u EXCEPT !.sub = handler[h].sub] IN
        v \in User /\ v.email = u.email /\ v.key = u.key /\ v.sub = handler[h].sub
  BY <1>2 DEF TypeOK, User, Request
<1> QED  BY <1>1, <1>2, <1>4, <1>5, <1>6 DEF UpdateSub

LEMMA UpdateKeyFacts ==
    ASSUME TypeInv, NEW h \in Handlers, UpdateKey(h)
    PROVE  /\ handler[h] \in Request /\ handler[h].key \in Keys
           /\ users' \in SUBSET User
           /\ handler'[h] = Idle
           /\ \A g \in Handlers \ {h} : handler'[g] = handler[g]
           /\ HandlerType'
           /\ alone' = alone \ {h}
           /\ UNCHANGED <<indexes, started, secret>>
           /\ \E v \in users' : /\ Username[v.email] = Username[handler[h].email]
                               /\ v.key = handler[h].key
           /\ \E u \in users : LET v == [u EXCEPT !.key = handler[h].key] IN
                /\ Username[u.email] = Username[handler[h].email]
                /\ v \in User /\ v.email = u.email /\ v.sub = u.sub
                /\ v.key = handler[h].key
                /\ users' = (users \ {u}) \union {v}
<1>1. Busy(h) /\ HandlerType /\ handler[h].key \in Keys
  BY DEF UpdateKey, Busy, TypeInv, TypeOK, HandlerType, HoldsKeys, Regenerating
<1>2. handler[h] \in Request
  BY <1>1, BusyType
<1>3. PICK u \in users :
        /\ Username[u.email] = Username[handler[h].email]
        /\ users' = (users \ {u}) \union {[u EXCEPT !.key = handler[h].key]}
  BY DEF UpdateKey
<1>4. LET v == [u EXCEPT !.key = handler[h].key] IN
        v \in User /\ v.email = u.email /\ v.sub = u.sub /\ v.key = handler[h].key
  BY <1>1 DEF TypeInv, TypeOK, User
<1>5. /\ handler'[h] = Idle
      /\ \A g \in Handlers \ {h} : handler'[g] = handler[g]
      /\ HandlerType'
      /\ alone' = alone \ {h}
  BY <1>1, AnswerFacts DEF UpdateKey
<1>6. users' \in SUBSET User
  BY <1>3, <1>4 DEF TypeInv, TypeOK
<1>7. \E v \in users' : /\ Username[v.email] = Username[handler[h].email]
                       /\ v.key = handler[h].key
  <2> DEFINE v == [u EXCEPT !.key = handler[h].key]
  <2>1. v \in users' /\ Username[v.email] = Username[handler[h].email] /\ v.key = handler[h].key
    BY <1>3, <1>4
  <2> HIDE DEF v
  <2> QED  BY <2>1
<1> QED  BY <1>1, <1>2, <1>3, <1>4, <1>5, <1>6, <1>7 DEF UpdateKey

-----------------------------------------------------------------------------

LEMMA TypeStep ==
    ASSUME TypeInv, Next
    PROVE  TypeInv'
<1> USE DEF TypeInv, TypeOK
<1>h. HandlerType
  BY DEF HandlerType
<1>c. /\ Calls = {"username", "email", "sub", "insert", "secret", "updateSecret", "updateKey",
                  "account", "subCheck", "subWrite", "serve"}
      /\ Regenerating = {"updateSecret", "updateKey"}
  BY DEF Calls, Creating, Checks, Regenerating
<1>i. Idle.at = "idle"
  BY DEF Idle
<1>1. CASE EnsureIndexes
  BY <1>1 DEF EnsureIndexes, HoldsKeys
<1>2. ASSUME NEW h \in Handlers, NEW e \in Emails, NEW s \in Subs, Arrive(h, e, s)
      PROVE  TypeInv'
  BY <1>2, <1>h, <1>c, ArriveFacts DEF HandlerType, HoldsKeys
<1>3. ASSUME NEW h \in Handlers, CheckNew(h)
      PROVE  TypeInv'
  <2>1. /\ Busy(h) /\ After(handler[h].at) \in Calls
        /\ After(handler[h].at) \notin {"secret"} \union Regenerating
    BY <1>3, <1>c DEF CheckNew, Busy, After, Checks
  <2> QED  BY <1>3, <2>1, <1>h, GotoFacts DEF CheckNew, HandlerType, HoldsKeys
<1>4. ASSUME NEW h \in Handlers, NEW k \in Keys, InsertUser(h, k)
      PROVE  TypeInv'
  <2>1. Busy(h)
    BY <1>4 DEF InsertUser, Busy
  <2>2. handler[h] \in Request
    BY <2>1, <1>h, BusyType
  <2>3. [Newcomer(h) EXCEPT !.key = k] \in User
    BY <2>2 DEF Newcomer, User, Request
  <2>4. HandlerType' /\ HoldsKeys'
    <3>1. GotoWith(h, "secret", k) /\ "secret" \in Calls
      BY <1>4, <1>c DEF InsertUser
    <3>2. /\ handler'[h].key = k
          /\ \A g \in Handlers \ {h} : handler'[g] = handler[g]
          /\ HandlerType'
      BY <3>1, <2>1, <1>h, KeyFacts
    <3> QED  BY <3>2 DEF HoldsKeys
  <2> QED  BY <1>4, <2>3, <2>4 DEF InsertUser, HandlerType
<1>5. ASSUME NEW h \in Handlers, NEW k \in Keys, GenerateKeys(h, k)
      PROVE  TypeInv'
  <2>1. Busy(h)
    BY <1>5 DEF GenerateKeys, Busy
  <2>2. HandlerType' /\ HoldsKeys'
    <3>1. GotoWith(h, "updateSecret", k) /\ "updateSecret" \in Calls
      BY <1>5, <1>c DEF GenerateKeys
    <3>2. /\ handler'[h].key = k
          /\ \A g \in Handlers \ {h} : handler'[g] = handler[g]
          /\ HandlerType'
      BY <3>1, <2>1, <1>h, KeyFacts
    <3> QED  BY <3>2 DEF HoldsKeys
  <2>3. alone' \in SUBSET Handlers
    BY <1>5 DEF GenerateKeys
  <2> QED  BY <1>5, <2>2, <2>3 DEF GenerateKeys, HandlerType
<1>6. ASSUME NEW h \in Handlers, CreateSecret(h) \/ UpdateSecret(h)
      PROVE  TypeInv'
  <2>1. Busy(h)
    BY <1>6 DEF CreateSecret, UpdateSecret, Busy
  <2>2. handler[h] \in Request
    BY <2>1, <1>h, BusyType
  <2>3. HandlerType' /\ HoldsKeys'
    BY <1>6, <2>1, <1>c, <1>h, GotoFacts DEF CreateSecret, UpdateSecret, HoldsKeys
  <2> QED  BY <1>6, <2>2, <2>3 DEF CreateSecret, UpdateSecret, HandlerType, Request
<1>7. ASSUME NEW h \in Handlers, CreateAccount(h) \/ CheckSub(h)
      PROVE  TypeInv'
  <2>1. Busy(h)
    BY <1>7 DEF CreateAccount, CheckSub, Busy
  <2>2. HandlerType' /\ HoldsKeys' /\ alone' \in SUBSET Handlers
    BY <1>7, <2>1, <1>c, <1>h, <1>i, GotoFacts, AnswerFacts DEF CreateAccount, CheckSub, HoldsKeys
  <2> QED  BY <1>7, <2>2 DEF CreateAccount, CheckSub, HandlerType
<1>8. ASSUME NEW h \in Handlers, UpdateSub(h)
      PROVE  TypeInv'
  BY <1>8, <1>c, SubFacts DEF HandlerType, HoldsKeys
<1>9. ASSUME NEW h \in Handlers, UpdateKey(h)
      PROVE  TypeInv'
  <2>1. /\ users' \in SUBSET User /\ HandlerType' /\ alone' \in SUBSET Handlers
        /\ handler'[h] = Idle
        /\ \A g \in Handlers \ {h} : handler'[g] = handler[g]
        /\ UNCHANGED <<indexes, started, secret>>
    <3>1. TypeInv
      OBVIOUS
    <3>2. alone \in SUBSET Handlers
      OBVIOUS
    <3> HIDE DEF TypeInv, TypeOK
    <3> QED  BY <3>1, <3>2, <1>9, UpdateKeyFacts
  <2> QED  BY <2>1, <1>c, <1>i DEF HandlerType, HoldsKeys
<1>10. ASSUME NEW h \in Handlers, Serve(h) \/ Refused(h) \/ Fail(h)
       PROVE  TypeInv'
  <2>1. Answer(h) /\ UNCHANGED <<users, indexes, started, secret>>
    BY <1>10 DEF Serve, Refused, Fail
  <2>2. /\ handler'[h] = Idle /\ HandlerType' /\ alone' = alone \ {h}
        /\ \A g \in Handlers \ {h} : handler'[g] = handler[g]
    BY <2>1, <1>h, AnswerFacts
  <2> QED  BY <2>1, <2>2, <1>c, <1>i DEF HandlerType, HoldsKeys
<1> QED
  BY <1>1, <1>2, <1>3, <1>4, <1>5, <1>6, <1>7, <1>8, <1>9, <1>10 DEF Next

THEOREM TypeInvariance == Spec => []TypeInv
<1>1. Init => TypeInv
  <2> SUFFICES ASSUME Init
               PROVE  TypeInv
    OBVIOUS
  <2>1. TypeOK
    BY DEF Init, TypeOK
  <2>2. HoldsKeys
    BY DEF Init, HoldsKeys, Idle, Regenerating
  <2> QED  BY <2>1, <2>2 DEF TypeInv
<1>2. TypeInv /\ [Next]_vars => TypeInv'
  <2>u. ASSUME TypeInv, UNCHANGED vars
        PROVE  TypeInv'
    BY <2>u DEF TypeInv, TypeOK, HoldsKeys, vars
  <2> QED  BY <2>u, TypeStep
<1> QED  BY <1>1, <1>2, PTL DEF Spec

(***************************************************************************)
(* The types of all variables, for any people, keys and requests.          *)
(***************************************************************************)
THEOREM TypeCorrect == Spec => []TypeOK
<1>1. TypeInv => TypeOK
  BY DEF TypeInv
<1> QED  BY <1>1, TypeInvariance, PTL

-----------------------------------------------------------------------------
(***************************************************************************)
(* Regenerations.                                                          *)
(***************************************************************************)

\* A step of a request that is not, or is no longer, regenerating.
LEMMA OtherStep ==
    ASSUME TypeInv, NEW h \in Handlers,
           \/ CheckNew(h) \/ \E k \in Keys : InsertUser(h, k)
           \/ CreateAccount(h) \/ CheckSub(h) \/ UpdateSub(h)
           \/ Serve(h) \/ Refused(h) \/ Fail(h) \/ UpdateKey(h)
    PROVE  /\ handler'[h].at \notin Regenerating
           /\ \A g \in Handlers \ {h} : handler'[g] = handler[g]
           /\ UNCHANGED secret
           /\ \/ alone' = alone \ {h}
              \/ alone' = alone /\ handler[h].at \notin Regenerating
<1>t. HandlerType
  BY DEF TypeInv, TypeOK, HandlerType
<1>c. /\ Calls = {"username", "email", "sub", "insert", "secret", "updateSecret", "updateKey",
                  "account", "subCheck", "subWrite", "serve"}
      /\ Regenerating = {"updateSecret", "updateKey"}
      /\ Idle.at \notin Regenerating
  BY DEF Calls, Creating, Checks, Regenerating, Idle
<1>1. CASE CheckNew(h)
  <2>1. Busy(h) /\ After(handler[h].at) \in Calls \ Regenerating
    BY <1>1, <1>c DEF CheckNew, Busy, After, Checks
  <2> QED  BY <1>1, <2>1, <1>c, <1>t, GotoFacts DEF CheckNew, Checks
<1>2. CASE \E k \in Keys : InsertUser(h, k)
  <2>1. PICK k \in Keys : InsertUser(h, k)
    BY <1>2
  <2>2. Busy(h) /\ GotoWith(h, "secret", k) /\ "secret" \in Calls
    BY <2>1, <1>c DEF InsertUser, Busy
  <2>3. /\ handler'[h].at = "secret"
        /\ \A g \in Handlers \ {h} : handler'[g] = handler[g]
    BY <2>2, <1>t, KeyFacts
  <2> QED  BY <2>1, <2>3, <1>c DEF InsertUser
<1>3. CASE CreateAccount(h) \/ CheckSub(h)
  <2>1. Busy(h)
    BY <1>3 DEF CreateAccount, CheckSub, Busy
  <2> QED  BY <1>3, <2>1, <1>c, <1>t, GotoFacts, AnswerFacts DEF CreateAccount, CheckSub
<1>4. CASE UpdateSub(h)
  <2>1. handler[h].at = "subWrite"
    BY <1>4 DEF UpdateSub
  <2> QED  BY <1>4, <2>1, <1>c, SubFacts DEF TypeInv
<1>5. CASE Serve(h) \/ Refused(h) \/ Fail(h)
  <2>1. Answer(h) /\ UNCHANGED secret
    BY <1>5 DEF Serve, Refused, Fail
  <2> QED  BY <2>1, <1>c, <1>t, AnswerFacts
<1>6. CASE UpdateKey(h)
  BY <1>6, <1>c, UpdateKeyFacts
<1> QED  BY <1>1, <1>2, <1>3, <1>4, <1>5, <1>6

\* A regeneration that is alone has no rival, and its pair is in the secret.
SoleInv ==
    \A h \in alone :
        /\ handler[h].at \in Regenerating
        /\ handler[h].at = "updateKey" => secret[SlugOf(handler[h].email)] = handler[h].key
        /\ \A g \in Handlers \ {h} :
            handler[g].at \in Regenerating => SlugOf(handler[g].email) # SlugOf(handler[h].email)

LEMMA SoleStep ==
    ASSUME TypeInv, SoleInv, Next
    PROVE  SoleInv'
<1>t. HandlerType /\ alone \in SUBSET Handlers
  BY DEF TypeInv, TypeOK, HandlerType
<1>c. /\ Calls = {"username", "email", "sub", "insert", "secret", "updateSecret", "updateKey",
                  "account", "subCheck", "subWrite", "serve"}
      /\ Regenerating = {"updateSecret", "updateKey"}
      /\ Idle.at \notin Regenerating
  BY DEF Calls, Creating, Checks, Regenerating, Idle
<1>1. CASE EnsureIndexes
  BY <1>1 DEF EnsureIndexes, SoleInv
<1>2. ASSUME NEW h \in Handlers, NEW e \in Emails, NEW s \in Subs, Arrive(h, e, s)
      PROVE  SoleInv'
  <2>1. /\ handler[h] = Idle
        /\ handler'[h].at \in {"username", "serve", "subCheck"}
        /\ \A g \in Handlers \ {h} : handler'[g] = handler[g]
        /\ UNCHANGED <<secret, alone>>
    BY <1>2, <1>t, ArriveFacts
  <2> QED  BY <2>1, <1>c, <1>t DEF SoleInv
<1>3. ASSUME NEW h \in Handlers,
             \/ CheckNew(h) \/ \E k \in Keys : InsertUser(h, k)
             \/ CreateAccount(h) \/ CheckSub(h) \/ UpdateSub(h)
             \/ Serve(h) \/ Refused(h) \/ Fail(h) \/ UpdateKey(h)
      PROVE  SoleInv'
  BY <1>3, <1>t, OtherStep DEF SoleInv
<1>4. ASSUME NEW h \in Handlers, NEW k \in Keys, GenerateKeys(h, k)
      PROVE  SoleInv'
  <2>1. Busy(h) /\ GotoWith(h, "updateSecret", k) /\ "updateSecret" \in Calls
    BY <1>4, <1>c DEF GenerateKeys, Busy
  <2>2. /\ handler'[h].at = "updateSecret"
        /\ handler'[h].email = handler[h].email
        /\ \A g \in Handlers \ {h} : handler'[g] = handler[g]
    BY <2>1, <1>t, KeyFacts
  <2> DEFINE rivals == {g \in Handlers \ {h} : SharesSecret(g, h)}
  <2>3. /\ handler[h].at = "serve"
        /\ alone' = (alone \ rivals) \union (IF rivals = {} THEN {h} ELSE {})
        /\ UNCHANGED secret
    BY <1>4 DEF GenerateKeys
  <2>4. h \notin alone
    BY <2>3, <1>c DEF SoleInv
  <2>5. ASSUME NEW g \in Handlers \ {h}, handler[g].at \in Regenerating,
               SlugOf(handler[g].email) = SlugOf(handler[h].email)
        PROVE  g \in rivals
    BY <2>5 DEF SharesSecret
  <2>6. ASSUME NEW g \in alone', g # h
        PROVE  /\ g \in alone /\ handler'[g] = handler[g]
               /\ SlugOf(handler[g].email) # SlugOf(handler[h].email)
    BY <2>6, <2>2, <2>3, <2>5, <1>t DEF SoleInv
  <2>7. h \in alone' => \A g \in Handlers \ {h} :
            handler[g].at \in Regenerating => SlugOf(handler[g].email) # SlugOf(handler[h].email)
    BY <2>3, <2>4, <2>5
  <2> HIDE DEF rivals
  <2> QED  BY <2>2, <2>3, <2>6, <2>7, <1>c, <1>t DEF SoleInv
<1>5. ASSUME NEW h \in Handlers, CreateSecret(h)
      PROVE  SoleInv'
  <2> DEFINE s == SlugOf(handler[h].email)
  <2>1. Busy(h) /\ "account" \in Calls /\ handler[h].at = "secret"
    BY <1>5, <1>c DEF CreateSecret, Busy
  <2>2. /\ handler'[h].at = "account"
        /\ \A g \in Handlers \ {h} : handler'[g] = handler[g]
        /\ UNCHANGED alone
        /\ secret[s] = NoKey
        /\ \A t \in Slugs : t # s => secret'[t] = secret[t]
    BY <1>5, <2>1, <1>t, GotoFacts DEF CreateSecret, TypeInv, TypeOK
  <2>3. ASSUME NEW g \in alone
        PROVE  /\ g # h
               /\ handler[g].at = "updateKey" =>
                    secret'[SlugOf(handler[g].email)] = secret[SlugOf(handler[g].email)]
    <3>1. g # h
      BY <2>1, <1>c DEF SoleInv
    <3>2. SUFFICES ASSUME handler[g].at = "updateKey"
                   PROVE  secret'[SlugOf(handler[g].email)] = secret[SlugOf(handler[g].email)]
      BY <3>1
    <3>3. secret[SlugOf(handler[g].email)] \in Keys
      BY <3>2, <1>t, <1>c DEF SoleInv, TypeInv, HoldsKeys
    <3>4. SlugOf(handler[g].email) \in Slugs
      <4>1. handler[g] \in Request
        BY <3>2, <1>t, BusyType DEF Busy
      <4> QED  BY <4>1, NamesAssumption DEF Request, SlugOf
    <3> QED  BY <2>2, <3>3, <3>4, NoKeyAssumption
  <2> QED  BY <2>1, <2>2, <2>3, <1>c, <1>t DEF SoleInv
<1>6. ASSUME NEW h \in Handlers, UpdateSecret(h)
      PROVE  SoleInv'
  <2> DEFINE s == SlugOf(handler[h].email)
  <2>1. Busy(h) /\ "updateKey" \in Calls /\ handler[h].at = "updateSecret"
    BY <1>6, <1>c DEF UpdateSecret, Busy
  <2>0. s \in Slugs
    <3>1. handler[h] \in Request
      BY <2>1, <1>t, BusyType
    <3> QED  BY <3>1, NamesAssumption DEF Request, SlugOf
  <2>2. /\ handler'[h].at = "updateKey"
        /\ handler'[h].email = handler[h].email
        /\ handler'[h].key = handler[h].key
        /\ \A g \in Handlers \ {h} : handler'[g] = handler[g]
        /\ UNCHANGED alone
        /\ secret'[s] = handler[h].key
        /\ \A t \in Slugs : t # s => secret'[t] = secret[t]
    BY <1>6, <2>0, <2>1, <1>t, GotoFacts DEF UpdateSecret, TypeInv, TypeOK
  <2>3. ASSUME NEW g \in alone, g # h
        PROVE  /\ SlugOf(handler[g].email) # s
               /\ secret'[SlugOf(handler[g].email)] = secret[SlugOf(handler[g].email)]
    <3>1. SlugOf(handler[g].email) # s
      BY <2>1, <2>3, <1>c, <1>t DEF SoleInv
    <3>2. handler[g].at \in Regenerating /\ g \in Handlers
      BY <1>t DEF SoleInv
    <3>3. handler[g] \in Request
      BY <3>2, <1>t, <1>c, BusyType DEF Busy
    <3>4. SlugOf(handler[g].email) \in Slugs
      BY <3>3, NamesAssumption DEF Request, SlugOf
    <3> QED  BY <2>2, <3>1, <3>4
  <2> QED  BY <2>1, <2>2, <2>3, <1>c, <1>t DEF SoleInv
<1> QED  BY <1>1, <1>2, <1>3, <1>4, <1>5, <1>6 DEF Next

(***************************************************************************)
(* Whoever else is being served, and whatever failed before, a sole        *)
(* regeneration leaves one pair in both places.                            *)
(***************************************************************************)
THEOREM SoleRegenerationsAgree == Spec => SoleRegenerationAgrees
<1>1. Init => SoleInv
  BY DEF Init, SoleInv
<1>2. TypeInv /\ SoleInv /\ [Next]_vars => SoleInv'
  <2>1. SoleInv /\ UNCHANGED vars => SoleInv'
    BY DEF SoleInv, vars
  <2> QED  BY <2>1, SoleStep
<1>3. TypeInv /\ SoleInv /\ [Next]_vars =>
        [\A h \in alone :
            handler[h].at = "updateKey" /\ users' # users /\ handler'[h] = Idle
                => /\ secret'[SlugOf(handler[h].email)] = handler[h].key
                   /\ \E u \in users' : /\ Username[u.email] = Username[handler[h].email]
                                        /\ u.key = handler[h].key]_vars
  <2> SUFFICES ASSUME TypeInv, SoleInv, Next, NEW h \in alone,
                      handler[h].at = "updateKey", users' # users, handler'[h] = Idle
               PROVE  /\ secret'[SlugOf(handler[h].email)] = handler[h].key
                      /\ \E u \in users' : /\ Username[u.email] = Username[handler[h].email]
                                           /\ u.key = handler[h].key
    OBVIOUS
  <2>0. h \in Handlers /\ Idle.at = "idle" /\ HandlerType
    BY DEF TypeInv, TypeOK, Idle, HandlerType
  <2>1. ~EnsureIndexes
    BY <2>0 DEF EnsureIndexes
  <2>2. ASSUME NEW g \in Handlers
        PROVE  /\ \A e \in Emails, s \in Subs : ~Arrive(g, e, s)
               /\ ~CheckNew(g) /\ ~CreateSecret(g) /\ ~CreateAccount(g) /\ ~CheckSub(g)
               /\ ~Serve(g) /\ ~UpdateSecret(g) /\ ~Refused(g) /\ ~Fail(g)
               /\ \A k \in Keys : ~GenerateKeys(g, k)
    BY DEF Arrive, CheckNew, CreateSecret, CreateAccount, CheckSub, Serve, UpdateSecret,
           Refused, Fail, GenerateKeys
  <2>3. ASSUME NEW g \in Handlers, NEW k \in Keys, InsertUser(g, k)
        PROVE  FALSE
    <3>1. g # h
      BY <2>3 DEF InsertUser
    <3>2. handler'[h] = handler[h]
      BY <2>3, <2>0, <3>1 DEF InsertUser, GotoWith, HandlerType
    <3> QED  BY <3>2, <2>0
  <2>4. ASSUME NEW g \in Handlers, UpdateSub(g)
        PROVE  FALSE
    <3>1. g # h
      BY <2>4 DEF UpdateSub
    <3>2. handler'[h] = handler[h]
      BY <2>4, <2>0, <3>1 DEF UpdateSub, Goto, HandlerType
    <3> QED  BY <3>2, <2>0
  <2>5. PICK g \in Handlers : UpdateKey(g)
    BY <2>1, <2>2, <2>3, <2>4 DEF Next
  <2>6. g = h
    <3>1. \A f \in Handlers \ {g} : handler'[f] = handler[f]
      BY <2>5, UpdateKeyFacts
    <3> QED  BY <2>0, <3>1
  <2>7. /\ UNCHANGED secret
        /\ \E u \in users' : /\ Username[u.email] = Username[handler[h].email]
                             /\ u.key = handler[h].key
    BY <2>5, <2>6, UpdateKeyFacts
  <2> QED  BY <2>7 DEF SoleInv
<1> QED  BY <1>1, <1>2, <1>3, TypeInvariance, PTL DEF Spec, SoleRegenerationAgrees

-----------------------------------------------------------------------------
(***************************************************************************)
(* Uniqueness.                                                             *)
(***************************************************************************)

Apart(u, v) ==
    /\ u.email # v.email
    /\ Username[u.email] # Username[v.email]
    /\ u.sub # v.sub

LEMMA UniqueIsApart ==
    Unique <=> \A u, v \in users : u # v => Apart(u, v)
BY DEF Unique, Apart, UniqueFields, Field

LEMMA NoClashIsApart ==
    ASSUME NEW u, NEW others, indexes = UniqueFields, ~Clash(u, others)
    PROVE  \A v \in others : Apart(u, v)
<1> SUFFICES ASSUME NEW v \in others
             PROVE  Apart(u, v)
  OBVIOUS
<1>1. \A f \in UniqueFields : Field(u)[f] # Field(v)[f]
  BY DEF Clash
<1> QED  BY <1>1 DEF Apart, UniqueFields, Field

\* All indexes are built together, and then documents never clash.
BuiltInv ==
    /\ indexes \in {{}, UniqueFields}
    /\ indexes # {} => Unique

LEMMA BuiltStep ==
    ASSUME TypeInv, BuiltInv, Next
    PROVE  BuiltInv'
<1>t. users \in SUBSET User /\ HandlerType
  BY DEF TypeInv, TypeOK, HandlerType
<1>0. ASSUME UNCHANGED <<users, indexes>>
      PROVE  BuiltInv'
  BY <1>0 DEF BuiltInv, Unique, Field
<1>1. CASE EnsureIndexes
  <2>1. UNCHANGED users /\ (UNCHANGED indexes \/ (Unique /\ indexes' = UniqueFields))
    BY <1>1 DEF EnsureIndexes
  <2>2. Unique => Unique'
    BY <2>1 DEF Unique, Field
  <2> QED  BY <2>1, <2>2 DEF BuiltInv
<1>2. ASSUME NEW h \in Handlers,
             \/ \E e \in Emails, s \in Subs : Arrive(h, e, s)
             \/ CheckNew(h) \/ CreateSecret(h) \/ CreateAccount(h) \/ CheckSub(h)
             \/ Serve(h) \/ UpdateSecret(h) \/ Refused(h) \/ Fail(h)
             \/ \E k \in Keys : GenerateKeys(h, k)
      PROVE  BuiltInv'
  BY <1>2, <1>0 DEF Arrive, CheckNew, CreateSecret, CreateAccount, CheckSub, Serve, UpdateSecret,
                Refused, Fail, GenerateKeys
<1>3. ASSUME UNCHANGED indexes, indexes # {} => Unique'
      PROVE  BuiltInv'
  BY <1>3 DEF BuiltInv
<1>4. ASSUME NEW h \in Handlers, NEW k \in Keys, InsertUser(h, k)
      PROVE  BuiltInv'
  <2> DEFINE u == [Newcomer(h) EXCEPT !.key = k]
  <2>1. ~Clash(u, users) /\ users' = users \union {u} /\ UNCHANGED indexes
    BY <1>4 DEF InsertUser
  <2> HIDE DEF u
  <2>2. ASSUME indexes # {}
        PROVE  Unique'
    <3>1. \A v \in users : Apart(u, v)
      BY <2>1, <2>2, NoClashIsApart DEF BuiltInv
    <3>2. \A v, w \in users' : v # w => Apart(v, w)
      BY <2>1, <2>2, <3>1, UniqueIsApart DEF BuiltInv, Apart
    <3> QED  BY <3>2 DEF Unique, Apart, UniqueFields, Field
  <2> QED  BY <2>1, <2>2, <1>3
<1>5. ASSUME NEW h \in Handlers, UpdateSub(h)
      PROVE  BuiltInv'
  <2>1. UNCHANGED indexes
    BY <1>5, SubFacts DEF TypeInv
  <2>2. PICK u \in users : LET v == [u EXCEPT !.sub = handler[h].sub] IN
                /\ ~Clash(v, users \ {u})
                /\ users' = (users \ {u}) \union {v}
    BY <1>5, SubFacts DEF TypeInv
  <2> DEFINE v == [u EXCEPT !.sub = handler[h].sub]
  <2>3. ~Clash(v, users \ {u}) /\ users' = (users \ {u}) \union {v}
    BY <2>2
  <2> HIDE DEF v
  <2>4. ASSUME indexes # {}
        PROVE  Unique'
    <3>1. \A w \in users \ {u} : Apart(v, w)
      BY <2>3, <2>4, NoClashIsApart DEF BuiltInv
    <3>2. \A x, w \in users' : x # w => Apart(x, w)
      BY <2>3, <2>4, <3>1, UniqueIsApart DEF BuiltInv, Apart
    <3> QED  BY <3>2 DEF Unique, Apart, UniqueFields, Field
  <2> QED  BY <2>1, <2>4, <1>3
<1>6. ASSUME NEW h \in Handlers, UpdateKey(h)
      PROVE  BuiltInv'
  <2>1. UNCHANGED indexes
    BY <1>6, UpdateKeyFacts
  <2>2. PICK u \in users : LET v == [u EXCEPT !.key = handler[h].key] IN
                /\ v.email = u.email /\ v.sub = u.sub
                /\ users' = (users \ {u}) \union {v}
    BY <1>6, UpdateKeyFacts
  <2> DEFINE v == [u EXCEPT !.key = handler[h].key]
  <2>3. /\ v.email = u.email /\ v.sub = u.sub
        /\ users' = (users \ {u}) \union {v}
    BY <2>2
  <2> HIDE DEF v
  <2>4. ASSUME indexes # {}
        PROVE  Unique'
    <3>1. \A x, w \in users' : x # w => Apart(x, w)
      BY <2>3, <2>4, UniqueIsApart DEF BuiltInv, Apart
    <3> QED  BY <3>1 DEF Unique, Apart, UniqueFields, Field
  <2> QED  BY <2>1, <2>4, <1>3
<1> QED  BY <1>1, <1>2, <1>4, <1>5, <1>6 DEF Next

LEMMA BuiltInvariance == Spec => []BuiltInv
<1>1. Init => BuiltInv
  BY DEF Init, BuiltInv
<1>2. TypeInv /\ BuiltInv /\ [Next]_vars => BuiltInv'
  <2>1. BuiltInv /\ UNCHANGED vars => BuiltInv'
    BY DEF BuiltInv, vars, Unique, Field
  <2> QED  BY <2>1, BuiltStep
<1> QED  BY <1>1, <1>2, TypeInvariance, PTL DEF Spec

(***************************************************************************)
(* However many requests overlap, and however the check and the write of   *)
(* each are torn apart, no email, username or subject is stored twice once *)
(* the indexes have been built.                                            *)
(***************************************************************************)
THEOREM IndexedUsersAreUnique == Spec => []UniqueUsers
<1>1. BuiltInv => UniqueUsers
  BY DEF BuiltInv, UniqueUsers
<1> QED  BY <1>1, BuiltInvariance, PTL

-----------------------------------------------------------------------------
(***************************************************************************)
(* Users without a secret.                                                 *)
(***************************************************************************)

LEMMA SlugType ==
    ASSUME NEW e \in Emails
    PROVE  SlugOf(e) \in Slugs
BY NamesAssumption DEF SlugOf

\* No step removes a user, and none but a creation makes a secret.
LEMMA KeptStep ==
    ASSUME TypeInv, Next
    PROVE  /\ \A u \in users : \E v \in users' : v.email = u.email
           /\ \A h \in Handlers : Busy(h)' /\ handler'[h].at \in Creating =>
                \/ /\ Busy(h) /\ handler[h].at \in Creating
                   /\ handler'[h].email = handler[h].email
                \/ \A u \in users : u.email # handler'[h].email
           /\ \A s \in Slugs : secret[s] = NoKey /\ secret'[s] # NoKey =>
                \E h \in Handlers : /\ CreateSecret(h)
                                    /\ Busy(h) /\ handler[h].at \in Creating
                                    /\ SlugOf(handler[h].email) = s
<1>t. HandlerType /\ secret \in [Slugs -> Keys \union {NoKey}]
  BY DEF TypeInv, TypeOK, HandlerType
<1>c. /\ Calls = {"username", "email", "sub", "insert", "secret", "updateSecret", "updateKey",
                  "account", "subCheck", "subWrite", "serve"}
      /\ Creating = {"username", "email", "sub", "insert", "secret"}
      /\ Checks = {"username", "email", "sub"}
      /\ Idle.at = "idle"
  BY DEF Calls, Creating, Checks, Regenerating, Idle
<1>1. CASE EnsureIndexes
  BY <1>1 DEF EnsureIndexes, Busy
<1>2. ASSUME NEW h \in Handlers, NEW e \in Emails, NEW s \in Subs, Arrive(h, e, s)
      PROVE  /\ UNCHANGED <<users, secret>>
             /\ \A g \in Handlers \ {h} : handler'[g] = handler[g]
             /\ handler'[h].at \in Creating => \A u \in users : u.email # handler'[h].email
  BY <1>2, <1>t, <1>c, ArriveFacts
<1>3. ASSUME NEW h \in Handlers, CheckNew(h)
      PROVE  /\ UNCHANGED <<users, secret>>
             /\ \A g \in Handlers \ {h} : handler'[g] = handler[g]
             /\ Busy(h) /\ handler[h].at \in Creating
             /\ handler'[h].email = handler[h].email
  <2>1. /\ Busy(h) /\ handler[h].at \in Creating /\ After(handler[h].at) \in Calls
        /\ Goto(h, After(handler[h].at)) /\ UNCHANGED <<users, secret>>
    BY <1>3, <1>c DEF CheckNew, Busy, After
  <2> QED  BY <2>1, <1>t, GotoFacts
<1>4. ASSUME NEW h \in Handlers, NEW k \in Keys, InsertUser(h, k)
      PROVE  /\ users \in SUBSET users' /\ UNCHANGED secret
             /\ \A g \in Handlers \ {h} : handler'[g] = handler[g]
             /\ Busy(h) /\ handler[h].at \in Creating
             /\ handler'[h].email = handler[h].email
  <2>1. /\ Busy(h) /\ handler[h].at \in Creating /\ "secret" \in Calls
        /\ GotoWith(h, "secret", k) /\ users \in SUBSET users' /\ UNCHANGED secret
    BY <1>4, <1>c DEF InsertUser, Busy
  <2> QED  BY <2>1, <1>t, KeyFacts
<1>5. ASSUME NEW h \in Handlers, NEW k \in Keys, GenerateKeys(h, k)
      PROVE  /\ UNCHANGED <<users, secret>>
             /\ \A g \in Handlers \ {h} : handler'[g] = handler[g]
             /\ handler'[h].at \notin Creating
  <2>1. /\ Busy(h) /\ "updateSecret" \in Calls
        /\ GotoWith(h, "updateSecret", k) /\ UNCHANGED <<users, secret>>
    BY <1>5, <1>c DEF GenerateKeys, Busy
  <2>2. /\ handler'[h].at = "updateSecret"
        /\ \A g \in Handlers \ {h} : handler'[g] = handler[g]
    BY <2>1, <1>t, KeyFacts
  <2> QED  BY <2>1, <2>2, <1>c
<1>6. ASSUME NEW h \in Handlers, CreateSecret(h)
      PROVE  /\ UNCHANGED users
             /\ \A g \in Handlers \ {h} : handler'[g] = handler[g]
             /\ handler'[h].at \notin Creating
             /\ Busy(h) /\ handler[h].at \in Creating
             /\ \A s \in Slugs : s # SlugOf(handler[h].email) => secret'[s] = secret[s]
  <2>1. Busy(h) /\ handler[h].at \in Creating /\ "account" \in Calls /\ Goto(h, "account")
    BY <1>6, <1>c DEF CreateSecret, Busy
  <2> QED  BY <1>6, <2>1, <1>t, <1>c, GotoFacts DEF CreateSecret
<1>7. ASSUME NEW h \in Handlers, CreateAccount(h) \/ CheckSub(h)
      PROVE  /\ UNCHANGED <<users, secret>>
             /\ \A g \in Handlers \ {h} : handler'[g] = handler[g]
             /\ handler'[h].at \notin Creating
  <2>1. /\ Busy(h) /\ UNCHANGED <<users, secret>>
        /\ Goto(h, "serve") \/ Goto(h, "subWrite") \/ Answer(h)
    BY <1>7 DEF CreateAccount, CheckSub, Busy
  <2> QED  BY <2>1, <1>t, <1>c, GotoFacts, AnswerFacts
<1>8. ASSUME NEW h \in Handlers, UpdateSub(h) \/ UpdateKey(h)
      PROVE  /\ \A u \in users : \E v \in users' : v.email = u.email
             /\ UNCHANGED secret
             /\ \A g \in Handlers \ {h} : handler'[g] = handler[g]
             /\ handler'[h].at \notin Creating
  <2>1. CASE UpdateSub(h)
    <3>1. PICK u \in users : LET v == [u EXCEPT !.sub = handler[h].sub] IN
                /\ v.email = u.email
                /\ users' = (users \ {u}) \union {v}
      BY <2>1, SubFacts DEF TypeInv
    <3> DEFINE v == [u EXCEPT !.sub = handler[h].sub]
    <3>2. v.email = u.email /\ users' = (users \ {u}) \union {v}
      BY <3>1
    <3> HIDE DEF v
    <3>3. \A w \in users : \E x \in users' : x.email = w.email
      BY <3>2
    <3> QED  BY <2>1, <3>3, <1>c, SubFacts DEF TypeInv
  <2>2. CASE UpdateKey(h)
    <3>1. PICK u \in users : LET v == [u EXCEPT !.key = handler[h].key] IN
                /\ v.email = u.email
                /\ users' = (users \ {u}) \union {v}
      BY <2>2, UpdateKeyFacts
    <3> DEFINE v == [u EXCEPT !.key = handler[h].key]
    <3>2. v.email = u.email /\ users' = (users \ {u}) \union {v}
      BY <3>1
    <3> HIDE DEF v
    <3>3. \A w \in users : \E x \in users' : x.email = w.email
      BY <3>2
    <3> QED  BY <2>2, <3>3, <1>c, UpdateKeyFacts
  <2> QED  BY <1>8, <2>1, <2>2
<1>9. ASSUME NEW h \in Handlers, UpdateSecret(h)
      PROVE  /\ UNCHANGED users
             /\ \A g \in Handlers \ {h} : handler'[g] = handler[g]
             /\ handler'[h].at \notin Creating
             /\ \A s \in Slugs : secret[s] = NoKey => secret'[s] = NoKey
  <2>1. Busy(h) /\ "updateKey" \in Calls /\ Goto(h, "updateKey")
    BY <1>9, <1>c DEF UpdateSecret, Busy
  <2>2. /\ handler'[h].at = "updateKey"
        /\ \A g \in Handlers \ {h} : handler'[g] = handler[g]
    BY <2>1, <1>t, GotoFacts
  <2> QED  BY <1>9, <2>2, <1>t, <1>c DEF UpdateSecret
<1>10. ASSUME NEW h \in Handlers, Serve(h) \/ Refused(h) \/ Fail(h)
       PROVE  /\ UNCHANGED <<users, secret>>
              /\ \A g \in Handlers \ {h} : handler'[g] = handler[g]
              /\ handler'[h].at \notin Creating
  <2>1. Answer(h) /\ UNCHANGED <<users, secret>>
    BY <1>10 DEF Serve, Refused, Fail
  <2> QED  BY <2>1, <1>t, <1>c, AnswerFacts
<1>11. ASSUME NEW h \in Handlers, \A g \in Handlers \ {h} : handler'[g] = handler[g],
              \/ handler'[h].at \notin Creating
              \/ \A u \in users : u.email # handler'[h].email
              \/ /\ Busy(h) /\ handler[h].at \in Creating
                 /\ handler'[h].email = handler[h].email
       PROVE  \A g \in Handlers : Busy(g)' /\ handler'[g].at \in Creating =>
                \/ /\ Busy(g) /\ handler[g].at \in Creating
                   /\ handler'[g].email = handler[g].email
                \/ \A u \in users : u.email # handler'[g].email
  BY <1>11 DEF Busy
<1>12. CASE \E h \in Handlers, e \in Emails, s \in Subs : Arrive(h, e, s)
  BY <1>12, <1>2, <1>11
<1>13. CASE \E h \in Handlers : CheckNew(h) \/ \E k \in Keys : InsertUser(h, k)
  BY <1>13, <1>3, <1>4, <1>11
<1>14. CASE \E h \in Handlers : CreateSecret(h)
  BY <1>14, <1>6, <1>11
<1>15. CASE \E h \in Handlers : \/ CreateAccount(h) \/ CheckSub(h)
                                \/ UpdateSub(h) \/ UpdateKey(h) \/ UpdateSecret(h)
                                \/ \E k \in Keys : GenerateKeys(h, k)
                                \/ Serve(h) \/ Refused(h) \/ Fail(h)
  BY <1>15, <1>5, <1>7, <1>8, <1>9, <1>10, <1>11
<1> QED  BY <1>1, <1>12, <1>13, <1>14, <1>15 DEF Next

(***************************************************************************)
(* Nobody makes the secret of a user whose creation did not, whatever is   *)
(* asked of the servers and whichever slugs coincide: only the creation of *)
(* another user with the same slug ends it, with that user's keys.         *)
(***************************************************************************)
THEOREM AbandonedUsersStayAbandoned == Spec => AbandonedForGood
<1>1. TypeInv /\ [Next]_vars =>
        [\A e \in Emails : Abandoned(e) =>
            Abandoned(e)' \/ \E h \in Handlers : CreateSecret(h) /\ Namesake(h, e)]_vars
  <2> SUFFICES ASSUME TypeInv, Next, NEW e \in Emails, Abandoned(e),
                      \A h \in Handlers : CreateSecret(h) => ~Namesake(h, e)
               PROVE  Abandoned(e)'
    OBVIOUS
  <2>0. SlugOf(e) \in Slugs
    BY SlugType
  <2>1. \E u \in users' : u.email = e
    BY KeptStep DEF Abandoned
  <2>2. secret'[SlugOf(e)] = NoKey
    <3>1. SUFFICES ASSUME secret'[SlugOf(e)] # NoKey
                   PROVE  FALSE
      OBVIOUS
    <3>2. PICK h \in Handlers : /\ CreateSecret(h)
                                /\ Busy(h) /\ handler[h].at \in Creating
                                /\ SlugOf(handler[h].email) = SlugOf(e)
      BY <2>0, <3>1, KeptStep DEF Abandoned
    <3>3. handler[h].email = e
      BY <3>2 DEF Namesake
    <3> QED  BY <3>2, <3>3 DEF Abandoned
  <2>3. ASSUME NEW h \in Handlers, Busy(h)', handler'[h].email = e, handler'[h].at \in Creating
        PROVE  FALSE
    <3>1. \E u \in users : u.email = handler'[h].email
      BY <2>3 DEF Abandoned
    <3>2. Busy(h) /\ handler[h].at \in Creating /\ handler'[h].email = handler[h].email
      BY <3>1, <2>3, KeptStep
    <3> QED  BY <3>2, <2>3 DEF Abandoned
  <2> QED  BY <2>1, <2>2, <2>3 DEF Abandoned
<1> QED  BY <1>1, TypeInvariance, PTL DEF Spec, AbandonedForGood

-----------------------------------------------------------------------------
(***************************************************************************)
(* Emails that are stored twice.                                           *)
(***************************************************************************)

\* A pair is in one document only, and a new one in none yet.
OwnKeys ==
    /\ \A u, v \in users : u.key = v.key => u = v
    /\ \A h \in Handlers : handler[h].at \in Regenerating
                            => \A u \in users : u.key # handler[h].key
    /\ \A g, h \in Handlers :
        g # h /\ handler[g].at \in Regenerating /\ handler[h].at \in Regenerating
            => handler[g].key # handler[h].key

\* What a step does to the documents of one email.
DoublesStay == OwnKeys' /\ \A e \in Emails : Twice(e) => Twice(e)'

LEMMA SameUsers ==
    ASSUME OwnKeys, UNCHANGED users,
           \A g \in Handlers : handler'[g].at \in Regenerating
                => handler[g].at \in Regenerating /\ handler'[g].key = handler[g].key
    PROVE  DoublesStay
BY DEF OwnKeys, DoublesStay, Twice

\* One document is replaced by another with the same email.
LEMMA ReplacedUser ==
    ASSUME OwnKeys, NEW u \in users, NEW v, v.email = u.email,
           users' = (users \ {u}) \union {v},
           v.key # u.key => \A w \in users : w.key # v.key
    PROVE  \A e \in Emails : Twice(e) => Twice(e)'
<1> SUFFICES ASSUME NEW e \in Emails, Twice(e)
             PROVE  Twice(e)'
  OBVIOUS
<1>1. PICK x \in users, y \in users : x # y /\ x.email = e /\ y.email = e
  BY DEF Twice
<1>2. \A w \in users \ {u} : w # v
  BY DEF OwnKeys
<1>3. CASE x # u /\ y # u
  BY <1>1, <1>3 DEF Twice
<1>4. CASE x = u
  BY <1>1, <1>2, <1>4 DEF Twice
<1>5. CASE y = u
  BY <1>1, <1>2, <1>5 DEF Twice
<1> QED  BY <1>3, <1>4, <1>5

LEMMA DoublesStep ==
    ASSUME TypeInv, OwnKeys, Next
    PROVE  DoublesStay
<1>t. HandlerType
  BY DEF TypeInv, TypeOK, HandlerType
<1>c. /\ Calls = {"username", "email", "sub", "insert", "secret", "updateSecret", "updateKey",
                  "account", "subCheck", "subWrite", "serve"}
      /\ Regenerating = {"updateSecret", "updateKey"}
  BY DEF Calls, Creating, Checks, Regenerating
<1>1. CASE EnsureIndexes
  BY <1>1, SameUsers DEF EnsureIndexes
<1>2. ASSUME NEW h \in Handlers, NEW e \in Emails, NEW s \in Subs, Arrive(h, e, s)
      PROVE  DoublesStay
  <2>1. handler'[h].at \notin Regenerating /\ \A g \in Handlers \ {h} : handler'[g] = handler[g]
    BY <1>2, <1>t, <1>c, ArriveFacts
  <2>2. UNCHANGED users
    BY <1>2 DEF Arrive
  <2> QED  BY <2>1, <2>2, SameUsers
<1>3. ASSUME NEW h \in Handlers,
             CheckNew(h) \/ CreateAccount(h) \/ CheckSub(h) \/ Serve(h) \/ Refused(h) \/ Fail(h)
      PROVE  DoublesStay
  <2>1. handler'[h].at \notin Regenerating /\ \A g \in Handlers \ {h} : handler'[g] = handler[g]
    BY <1>3, OtherStep
  <2>2. UNCHANGED users
    BY <1>3 DEF CheckNew, CreateAccount, CheckSub, Serve, Refused, Fail
  <2> QED  BY <2>1, <2>2, SameUsers
<1>4. ASSUME NEW h \in Handlers, NEW k \in Keys, InsertUser(h, k)
      PROVE  DoublesStay
  <2>1. handler'[h].at \notin Regenerating /\ \A g \in Handlers \ {h} : handler'[g] = handler[g]
    BY <1>4, OtherStep
  <2>2. PICK u : u.key = k /\ users' = users \union {u}
    BY <1>4 DEF InsertUser, Newcomer
  <2>3. /\ \A v \in users : v.key # k
        /\ \A g \in Handlers : handler[g].at \in Regenerating => handler[g].key # k
    BY <1>4, <1>c DEF InsertUser, Fresh, Busy
  <2>4. OwnKeys'
    BY <2>1, <2>2, <2>3 DEF OwnKeys
  <2> QED  BY <2>2, <2>4 DEF DoublesStay, Twice
<1>5. ASSUME NEW h \in Handlers, NEW k \in Keys, GenerateKeys(h, k)
      PROVE  DoublesStay
  <2>1. GotoWith(h, "updateSecret", k) /\ "updateSecret" \in Calls /\ Busy(h)
    BY <1>5, <1>c DEF GenerateKeys, Busy
  <2>2. handler'[h].key = k /\ \A g \in Handlers \ {h} : handler'[g] = handler[g]
    BY <2>1, <1>t, KeyFacts
  <2>3. /\ UNCHANGED users
        /\ \A v \in users : v.key # k
        /\ \A g \in Handlers : handler[g].at \in Regenerating => handler[g].key # k
    BY <1>5, <1>c DEF GenerateKeys, Fresh, Busy
  <2>4. OwnKeys'
    BY <2>2, <2>3 DEF OwnKeys
  <2> QED  BY <2>3, <2>4 DEF DoublesStay, Twice
<1>6. ASSUME NEW h \in Handlers, CreateSecret(h)
      PROVE  DoublesStay
  <2>1. Goto(h, "account") /\ "account" \in Calls /\ Busy(h) /\ UNCHANGED users
    BY <1>6, <1>c DEF CreateSecret, Busy
  <2>2. handler'[h].at = "account" /\ \A g \in Handlers \ {h} : handler'[g] = handler[g]
    BY <2>1, <1>t, GotoFacts
  <2> QED  BY <2>1, <2>2, <1>c, SameUsers
<1>7. ASSUME NEW h \in Handlers, UpdateSecret(h)
      PROVE  DoublesStay
  <2>1. /\ Goto(h, "updateKey") /\ "updateKey" \in Calls /\ Busy(h) /\ UNCHANGED users
        /\ handler[h].at \in Regenerating
    BY <1>7, <1>c DEF UpdateSecret, Busy
  <2>2. handler'[h].key = handler[h].key /\ \A g \in Handlers \ {h} : handler'[g] = handler[g]
    BY <2>1, <1>t, GotoFacts
  <2> QED  BY <2>1, <2>2, SameUsers
<1>8. ASSUME NEW h \in Handlers, UpdateSub(h)
      PROVE  DoublesStay
  <2>1. handler'[h].at \notin Regenerating /\ \A g \in Handlers \ {h} : handler'[g] = handler[g]
    BY <1>8, OtherStep
  <2>2. \E u, v : /\ u \in users /\ v.email = u.email /\ v.key = u.key
                  /\ users' = (users \ {u}) \union {v}
    BY <1>8, SubFacts DEF TypeInv
  <2>3. PICK u, v : /\ u \in users /\ v.email = u.email /\ v.key = u.key
                   /\ users' = (users \ {u}) \union {v}
    BY <2>2
  <2>4. OwnKeys'
    BY <2>1, <2>3 DEF OwnKeys
  <2> QED  BY <2>3, <2>4, ReplacedUser DEF DoublesStay
<1>9. ASSUME NEW h \in Handlers, UpdateKey(h)
      PROVE  DoublesStay
  <2>1. handler'[h].at \notin Regenerating /\ \A g \in Handlers \ {h} : handler'[g] = handler[g]
    BY <1>9, OtherStep
  <2>2. \E u, v : /\ u \in users /\ v.email = u.email /\ v.key = handler[h].key
                  /\ users' = (users \ {u}) \union {v}
    <3>1. PICK u \in users : LET v == [u EXCEPT !.key = handler[h].key] IN
            /\ v.email = u.email /\ v.key = handler[h].key
            /\ users' = (users \ {u}) \union {v}
      BY <1>9, UpdateKeyFacts
    <3> QED  BY <3>1
  <2>3. PICK u, v : /\ u \in users /\ v.email = u.email /\ v.key = handler[h].key
                   /\ users' = (users \ {u}) \union {v}
    BY <2>2
  <2>4. /\ \A w \in users : w.key # v.key
        /\ \A g \in Handlers \ {h} : handler[g].at \in Regenerating => handler[g].key # v.key
    BY <1>9, <1>c, <2>3 DEF UpdateKey, OwnKeys
  <2>5. OwnKeys'
    BY <2>1, <2>3, <2>4 DEF OwnKeys
  <2> QED  BY <2>3, <2>4, <2>5, ReplacedUser DEF DoublesStay
<1> QED
  BY <1>1, <1>2, <1>3, <1>4, <1>5, <1>6, <1>7, <1>8, <1>9 DEF Next

(***************************************************************************)
(* An email that is stored twice stays so, and the indexes stay as they    *)
(* are, for any number of requests and starts of servers.                  *)
(***************************************************************************)
THEOREM DuplicatesStay == Spec => DuplicatesAreFinal
<1>1. Init => OwnKeys
  BY DEF Init, OwnKeys, Idle, Regenerating
<1>2. TypeInv /\ OwnKeys /\ [Next]_vars => OwnKeys'
  <2>1. ASSUME OwnKeys, UNCHANGED vars
        PROVE  OwnKeys'
    BY <2>1 DEF OwnKeys, vars
  <2> QED  BY <2>1, DoublesStep DEF DoublesStay
<1>3. TypeInv /\ OwnKeys /\ [Next]_vars
        => [\A e \in Emails : Twice(e) => Twice(e)' /\ indexes' = indexes]_vars
  <2> SUFFICES ASSUME TypeInv, OwnKeys, Next, NEW e \in Emails, Twice(e)
               PROVE  Twice(e)' /\ indexes' = indexes
    OBVIOUS
  <2>1. ~Unique
    <3>1. PICK u \in users, v \in users : u # v /\ u.email = e /\ v.email = e
      BY DEF Twice
    <3>2. "email" \in UniqueFields /\ Field(u)["email"] = Field(v)["email"]
      BY <3>1 DEF UniqueFields, Field
    <3> QED  BY <3>1, <3>2 DEF Unique
  <2>2. indexes' = indexes
    BY <2>1 DEF Next, EnsureIndexes, Arrive, CheckNew, InsertUser, GenerateKeys, CreateSecret,
       CreateAccount, CheckSub, UpdateSub, Serve, UpdateSecret, UpdateKey, Refused, Fail
  <2> QED  BY <2>2, DoublesStep DEF DoublesStay
<1> QED  BY <1>1, <1>2, <1>3, TypeInvariance, PTL DEF Spec, DuplicatesAreFinal

=============================================================================
