--------------------------- MODULE SessionProofs ----------------------------
(***************************************************************************)
(* Theorems about Session and the RedisPool it extends, for any clients,   *)
(* requests and numbers of failures.                                       *)
(***************************************************************************)
EXTENDS Session, TLAPS

-----------------------------------------------------------------------------
(* The pool.                                                               *)

\* A client that still has a key to delete has closed its pool.
DyingClosed == \A c \in Clients : dying[c] # 0 => dying[c] \in closed

PoolInv == PoolTypeOK /\ DyingClosed /\ PoolIsShared

LEMMA PoolInvInit == PoolInit => PoolInv
BY PoolAssumption DEF PoolInit, PoolInv, PoolTypeOK, DyingClosed, PoolIsShared, Up

LEMMA PoolTypeStep ==
  ASSUME PoolTypeOK, NEW c \in Clients, PoolStep(c)
  PROVE  PoolTypeOK'
<1> USE PoolAssumption DEF PoolTypeOK
<1>1. CASE New(c)
  <2>1. CASE insMap # 0 /\ client' = [client EXCEPT ![c] = insMap] /\ UNCHANGED <<insMap, dialed>>
    BY <1>1, <2>1 DEF New
  <2>2. CASE /\ dialed < MaxPools /\ dialed' = dialed + 1 /\ insMap' = dialed + 1
             /\ client' = [client EXCEPT ![c] = dialed + 1]
    <3>1. /\ dialed' \in 0..MaxPools /\ insMap' \in 0..dialed' /\ 0..dialed \subseteq 0..dialed'
          /\ 1..dialed \subseteq 1..dialed' /\ dialed + 1 \in 0..dialed'
      BY <2>2
    <3>2. client' \in [Clients -> 0..dialed']
      BY <2>2, <3>1
    <3> QED BY <1>1, <3>1, <3>2 DEF New
  <2> QED BY <1>1, <2>1, <2>2 DEF New
<1>2. CASE ClosePool(c)
  <2>1. client[c] \in 1..dialed
    BY <1>2 DEF ClosePool
  <2>2. client' \in [Clients -> 0..dialed] /\ dying' \in [Clients -> 0..dialed]
    BY <1>2, <2>1 DEF ClosePool
  <2> QED BY <1>2, <2>1, <2>2 DEF ClosePool
<1>3. CASE DeleteKey(c)
  <2>1. late' \subseteq 1..dialed /\ dying' \in [Clients -> 0..dialed]
    BY <1>3 DEF DeleteKey
  <2> QED BY <1>3, <2>1 DEF DeleteKey
<1> QED BY <1>1, <1>2, <1>3 DEF PoolStep

LEMMA PoolInvStep ==
  ASSUME PoolInv, NEW c \in Clients, PoolStep(c)
  PROVE  PoolInv'
<1> USE DEF PoolInv
<1>1. PoolTypeOK'
  BY PoolTypeStep
<1>2. CASE New(c)
  <2>1. DyingClosed'
    BY <1>2 DEF New, DyingClosed
  <2>2. insMap' \in closed' => \E e \in Clients : dying'[e] # 0
    BY <1>2 DEF New, PoolIsShared, PoolTypeOK
  <2>3. ASSUME NEW e \in Clients, Up(e)' PROVE client'[e] \in late' \cup {insMap'}
    <3>1. CASE e = c
      BY <1>2, <3>1 DEF New, PoolTypeOK
    <3>2. CASE e # c
      <4>1. client'[e] = client[e] /\ client[e] # 0 /\ Up(e)
        BY <1>2, <2>3, <3>2 DEF New, Up, PoolTypeOK
      <4>2. client[e] \in late \cup {insMap}
        BY <4>1 DEF PoolIsShared
      <4> QED BY <1>2, <4>1, <4>2 DEF New
    <3> QED BY <3>1, <3>2
  <2> QED BY <1>1, <2>1, <2>2, <2>3 DEF PoolIsShared
<1>3. CASE ClosePool(c)
  <2>1. DyingClosed'
    BY <1>3 DEF ClosePool, DyingClosed, PoolTypeOK
  <2>2. dying'[c] # 0
    BY <1>3 DEF ClosePool, PoolTypeOK
  <2>3. ASSUME NEW e \in Clients, Up(e)' PROVE client'[e] \in late' \cup {insMap'}
    <3>1. client'[e] = client[e] /\ Up(e)
      BY <1>3, <2>3 DEF ClosePool, Up, PoolTypeOK
    <3> QED BY <1>3, <3>1 DEF ClosePool, PoolIsShared
  <2> QED BY <1>1, <2>1, <2>2, <2>3 DEF PoolIsShared
<1>4. CASE DeleteKey(c)
  <2>1. DyingClosed'
    BY <1>4 DEF DeleteKey, DyingClosed, PoolTypeOK
  <2>2. insMap' \notin closed'
    BY <1>4 DEF DeleteKey, PoolTypeOK
  <2>3. ASSUME NEW e \in Clients, Up(e)' PROVE client'[e] \in late' \cup {insMap'}
    <3>1. client'[e] = client[e] /\ Up(e) /\ client[e] \in late \cup {insMap}
      BY <1>4, <2>3 DEF DeleteKey, Up, PoolIsShared
    <3>2. client[e] = insMap => insMap # 0 /\ insMap # dying[c]
      BY <1>4, <3>1 DEF DeleteKey, Up, DyingClosed
    <3> QED BY <1>4, <3>1, <3>2 DEF DeleteKey
  <2> QED BY <1>1, <2>1, <2>2, <2>3 DEF PoolIsShared
<1> QED BY <1>2, <1>3, <1>4 DEF PoolStep

LEMMA RequestsLeavePool == \A r \in Requests : Step(r) \/ KeyExpires(r) => UNCHANGED poolVars
BY DEF Step, NewSession, Put, Del, Destroy, WriteHeader, Hijacked, Rename, RenameFails, Expire,
       SetCookie, Response, KeyExpires

\* Pools and clients stay in their ranges, and newClient hands out a closed pool, or
\* dials a second one, only around a Close that has yet to delete a key or deleted a
\* younger pool's.
THEOREM PoolShared == Spec => []PoolIsShared
<1>1. Init => PoolInv
  BY PoolInvInit DEF Init
<1>2. PoolInv /\ [Next]_vars => PoolInv'
  <2> SUFFICES ASSUME PoolInv, [Next]_vars PROVE PoolInv'
    OBVIOUS
  <2>1. CASE UNCHANGED poolVars
    BY <2>1 DEF poolVars, PoolInv, PoolTypeOK, DyingClosed, PoolIsShared, Up
  <2>2. CASE \E c \in Clients : PoolStep(c)
    BY <2>2, PoolInvStep
  <2> QED BY <2>1, <2>2, RequestsLeavePool DEF Next, vars
<1>3. PoolInv => PoolIsShared
  BY DEF PoolInv
<1> QED BY <1>1, <1>2, <1>3, PTL DEF Spec

-----------------------------------------------------------------------------
(* The sessions.                                                           *)

\* What is in redis was put and not taken out again, once; a request that has begun
\* has an id.
HashInv ==
  /\ hash \in [Requests -> SUBSET Requests]
  /\ \A i \in Requests : hash[i] \subseteq kept
  /\ jar \in Ids
  /\ id \in [Requests -> Ids] /\ cookie \in [Requests -> Ids]
  /\ pc \in [Requests -> {"idle", "handler", "expire", "close", "sent", "over"}]
  /\ \A r \in Requests : pc[r] = "handler" => id[r] \in Requests
  /\ NeverTwice /\ EndlessNeedsCause

\* A key that is written to, or not, with what is in it taken from kept and back.
LEMMA HoldsKeeps ==
  ASSUME HashInv, NEW i \in Requests, NEW S \in SUBSET Requests, Holds(i, S), UNCHANGED pc,
         \A j \in Requests \ {i} : hash[j] \cap S = {},
         S \subseteq kept', \A j \in Requests \ {i} : hash[j] \subseteq kept'
  PROVE  /\ hash' \in [Requests -> SUBSET Requests]
         /\ \A j \in Requests : hash'[j] \subseteq kept'
         /\ NeverTwice' /\ (UNCHANGED expires => EndlessNeedsCause')
<1>1. /\ hash' = [hash EXCEPT ![i] = S]
      /\ hash'[i] = S /\ \A j \in Requests \ {i} : hash'[j] = hash[j]
  BY DEF Holds, HashInv
<1>2. hash' \in [Requests -> SUBSET Requests]
  BY <1>1 DEF HashInv
<1>3. \A j \in Requests : hash'[j] \subseteq kept'
  BY <1>1
<1>4. NeverTwice'
  BY <1>1 DEF HashInv, NeverTwice
<1>5. ASSUME UNCHANGED expires PROVE EndlessNeedsCause'
  <2> SUFFICES ASSUME expires, NEW j \in Requests, hash'[j] # {}, j \notin ttl'
               PROVE  j \in unset' \/ pc'[j] = "expire"
    BY <1>5 DEF EndlessNeedsCause
  <2>1. CASE j # i
    BY <1>1, <2>1 DEF Holds, HashInv, EndlessNeedsCause
  <2>2. CASE j = i
    BY <1>1, <2>2 DEF Holds, HashInv, EndlessNeedsCause
  <2> QED BY <2>1, <2>2
<1> QED BY <1>2, <1>3, <1>4, <1>5

LEMMA CommandKeeps ==
  ASSUME HashInv, NEW i \in Requests, NEW S \in SUBSET Requests, NEW K,
         Command(i, S, K), UNCHANGED <<pc, config>>,
         \A j \in Requests \ {i} : hash[j] \cap S = {},
         S \subseteq K, \A j \in Requests \ {i} : hash[j] \subseteq K
  PROVE  /\ hash' \in [Requests -> SUBSET Requests]
         /\ \A j \in Requests : hash'[j] \subseteq kept'
         /\ NeverTwice' /\ EndlessNeedsCause'
<1>1. CASE Holds(i, S) /\ kept' = K
  BY <1>1, HoldsKeeps DEF config
<1>2. CASE UNCHANGED <<hash, ttl, unset, kept>>
  BY <1>2 DEF HashInv, NeverTwice, EndlessNeedsCause, config
<1> QED BY <1>1, <1>2 DEF Command

\* A key that is renamed to the uuid of r.
LEMMA MovedKeeps ==
  ASSUME HashInv, NEW r \in Requests, id[r] \in Requests, hash[id[r]] # {}, Moved(r),
         UNCHANGED <<kept, expires>>, pc' = [pc EXCEPT ![r] = pc'[r]], pc[r] = "handler",
         \/ unset' = unset \ {id[r]} /\ pc'[r] = "expire"
         \/ unset' = (unset \ {id[r]}) \cup {r}
  PROVE  /\ hash' \in [Requests -> SUBSET Requests]
         /\ \A j \in Requests : hash'[j] \subseteq kept'
         /\ NeverTwice' /\ EndlessNeedsCause'
<1> DEFINE i == id[r]
<1>1. /\ hash' \in [Requests -> SUBSET Requests] /\ hash'[i] = {}
      /\ hash'[r] \subseteq hash[i] /\ \A j \in Requests \ {i, r} : hash'[j] = hash[j]
  BY DEF Moved, HashInv
<1>2. \A j \in Requests : hash'[j] \subseteq kept'
  BY <1>1 DEF HashInv
<1>3. NeverTwice'
  <2> SUFFICES ASSUME NEW j \in Requests, NEW k \in Requests, j # k PROVE hash'[j] \cap hash'[k] = {}
    BY DEF NeverTwice
  <2>1. CASE j = i \/ k = i
    BY <1>1, <2>1
  <2>2. CASE j # i /\ k # i
    BY <1>1, <2>2 DEF HashInv, NeverTwice
  <2> QED BY <2>1, <2>2
<1>4. EndlessNeedsCause'
  <2> SUFFICES ASSUME expires, NEW j \in Requests, hash'[j] # {}, j \notin ttl'
               PROVE  j \in unset' \/ pc'[j] = "expire"
    BY DEF EndlessNeedsCause
  <2>1. CASE j = r
    BY <2>1
  <2>2. CASE j # r
    <3>1. j # i /\ hash[j] # {} /\ j \notin ttl /\ pc'[j] = pc[j]
      BY <1>1, <2>2 DEF Moved, HashInv
    <3>2. j \in unset \/ pc[j] = "expire"
      BY <3>1 DEF HashInv, EndlessNeedsCause
    <3> QED BY <3>1, <3>2
  <2> QED BY <2>1, <2>2
<1> QED BY <1>1, <1>2, <1>3, <1>4

LEMMA HashInvStep ==
  ASSUME HashInv, NEW r \in Requests, Step(r) \/ KeyExpires(r)
  PROVE  HashInv'
<1> DEFINE Ranges == /\ jar \in Ids
                     /\ id \in [Requests -> Ids] /\ cookie \in [Requests -> Ids]
                     /\ pc \in [Requests -> {"idle", "handler", "expire", "close", "sent", "over"}]
                     /\ \A q \in Requests : pc[q] = "handler" => id[q] \in Requests
<1> DEFINE Hashes == /\ hash \in [Requests -> SUBSET Requests]
                     /\ \A i \in Requests : hash[i] \subseteq kept
                     /\ NeverTwice /\ EndlessNeedsCause
<1>1. Ranges /\ Hashes
  BY DEF HashInv
<1>2. SUFFICES Ranges' /\ Hashes'
  BY <1>2 DEF HashInv
<1>3. CASE NewSession(r)
  <2>1. id'[r] \in Requests
    BY <1>1, <1>3 DEF NewSession, Ids
  <2>2. Ranges'
    BY <1>1, <1>3, <2>1 DEF NewSession, Ids
  <2>3. Hashes'
    BY <1>1, <1>3 DEF NewSession, config, redisVars, NeverTwice, EndlessNeedsCause
  <2> QED BY <2>2, <2>3
<1>4. CASE Put(r)
  <2>1. Ranges'
    BY <1>1, <1>4 DEF Put, requestVars
  <2>2. id[r] \in Requests /\ \A j \in Requests : r \notin hash[j]
    BY <1>1, <1>4 DEF Put
  <2> DEFINE S == hash[id[r]] \cup {r} K == kept \cup {r}
  <2>3. UNCHANGED <<pc, config>> /\ S \in SUBSET Requests /\ S \subseteq K
    BY <1>1, <1>4, <2>2 DEF Put, requestVars
  <2>4. \A j \in Requests \ {id[r]} : hash[j] \cap S = {} /\ hash[j] \subseteq K
    BY <1>1, <2>2 DEF NeverTwice
  <2>5. Command(id[r], S, K)
    BY <1>4 DEF Put, HSet
  <2> HIDE DEF S, K
  <2>6. Hashes'
    BY <1>1, <2>2, <2>3, <2>4, <2>5, CommandKeeps DEF HashInv
  <2> QED BY <2>1, <2>6
<1>5. CASE Del(r)
  <2>1. Ranges' /\ id[r] \in Requests
    BY <1>1, <1>5 DEF Del, requestVars
  <2>2. PICK v \in hash[id[r]] : Command(id[r], hash[id[r]] \ {v}, kept \ {v})
    BY <1>5 DEF Del, HDel
  <2> DEFINE S == hash[id[r]] \ {v} K == kept \ {v}
  <2>3. UNCHANGED <<pc, config>> /\ S \in SUBSET Requests /\ S \subseteq K
    BY <1>1, <1>5, <2>1 DEF Del, requestVars
  <2>4. \A j \in Requests \ {id[r]} : hash[j] \cap S = {} /\ hash[j] \subseteq K
    BY <1>1, <2>1 DEF NeverTwice
  <2>5. Command(id[r], S, K)
    BY <2>2
  <2> HIDE DEF S, K
  <2>6. Hashes'
    BY <1>1, <2>1, <2>3, <2>4, <2>5, CommandKeeps DEF HashInv
  <2> QED BY <2>1, <2>6
<1>6. CASE Destroy(r)
  <2>1. Ranges' /\ id[r] \in Requests
    BY <1>1, <1>6 DEF Destroy, requestVars
  <2>2. /\ Command(id[r], {}, kept \ hash[id[r]]) /\ UNCHANGED <<pc, config>>
        /\ \A j \in Requests \ {id[r]} : hash[j] \subseteq kept \ hash[id[r]]
    BY <1>1, <1>6, <2>1 DEF Destroy, DelKey, requestVars, NeverTwice
  <2>3. {} \in SUBSET Requests /\ {} \subseteq kept \ hash[id[r]] /\ \A j \in Requests : hash[j] \cap {} = {}
    OBVIOUS
  <2> QED BY <2>1, <2>2, <2>3, CommandKeeps
<1>7. CASE WriteHeader(r) \/ Hijacked(r) \/ SetCookie(r) \/ Response(r)
  <2>1. Ranges'
    BY <1>1, <1>7 DEF WriteHeader, Hijacked, SetCookie, Response, Ids
  <2>2. /\ UNCHANGED <<hash, ttl, kept, unset, expires>>
        /\ \A j \in Requests : pc[j] = "expire" => pc'[j] = "expire"
    BY <1>1, <1>7 DEF WriteHeader, Hijacked, SetCookie, Response, redisVars, historyVars, config, Renames
  <2>3. Hashes'
    BY <1>1, <2>2 DEF NeverTwice, EndlessNeedsCause
  <2> QED BY <2>1, <2>3
<1>8. CASE Rename(r)
  <2>1. Ranges'
    BY <1>1, <1>8 DEF Rename
  <2>2. /\ id[r] \in Requests /\ hash[id[r]] # {} /\ Moved(r) /\ UNCHANGED <<kept, expires>>
        /\ pc[r] = "handler" /\ pc' = [pc EXCEPT ![r] = pc'[r]] /\ pc'[r] = "expire"
        /\ unset' = unset \ {id[r]}
    BY <1>1, <1>8 DEF Rename, config
  <2> QED BY <2>1, <2>2, MovedKeeps
<1>9. CASE RenameFails(r)
  <2>1. Ranges'
    BY <1>1, <1>9 DEF RenameFails
  <2>2. CASE UNCHANGED <<hash, ttl, unset>>
    <3>1. \A j \in Requests : pc[j] = "expire" => pc'[j] = "expire"
      BY <1>1, <1>9 DEF RenameFails
    <3>2. Hashes'
      BY <1>1, <1>9, <2>2, <3>1 DEF RenameFails, config, NeverTwice, EndlessNeedsCause
    <3> QED BY <2>1, <3>2
  <2>3. CASE hash[id[r]] # {} /\ Moved(r) /\ unset' = (unset \ {id[r]}) \cup {r}
    <3>1. /\ id[r] \in Requests /\ UNCHANGED <<kept, expires>>
          /\ pc[r] = "handler" /\ pc' = [pc EXCEPT ![r] = pc'[r]]
      BY <1>1, <1>9 DEF RenameFails, config
    <3> QED BY <2>1, <2>3, <3>1, MovedKeeps
  <2> QED BY <1>9, <2>2, <2>3 DEF RenameFails
<1>10. CASE Expire(r)
  <2>1. Ranges'
    BY <1>1, <1>10 DEF Expire, Ids
  <2>2. UNCHANGED <<hash, kept, expires>> /\ \A j \in Requests \ {r} : pc'[j] = pc[j]
    BY <1>1, <1>10 DEF Expire, config
  <2>3. ttl \subseteq ttl' /\ unset \subseteq unset'
    BY <1>10 DEF Expire
  <2>4. expires /\ hash[r] # {} => r \in ttl' \cup unset'
    BY <1>10 DEF Expire
  <2>5. Hashes'
    BY <1>1, <2>2, <2>3, <2>4 DEF NeverTwice, EndlessNeedsCause
  <2> QED BY <2>1, <2>5
<1>11. CASE KeyExpires(r)
  <2>1. Ranges'
    BY <1>1, <1>11 DEF KeyExpires, requestVars
  <2>2. /\ Holds(r, {}) /\ kept' = kept \ hash[r] /\ UNCHANGED <<pc, expires>>
        /\ \A j \in Requests \ {r} : hash[j] \subseteq kept \ hash[r]
    BY <1>1, <1>11 DEF KeyExpires, requestVars, config, NeverTwice
  <2>3. {} \in SUBSET Requests /\ {} \subseteq kept' /\ \A j \in Requests : hash[j] \cap {} = {}
    OBVIOUS
  <2> QED BY <2>1, <2>2, <2>3, HoldsKeeps
<1> QED BY <1>3, <1>4, <1>5, <1>6, <1>7, <1>8, <1>9, <1>10, <1>11 DEF Step

LEMMA AlwaysHashInv == Spec => []HashInv
<1>1. Init => HashInv
  BY DEF Init, HashInv, Ids, NeverTwice, EndlessNeedsCause
<1>2. HashInv /\ [Next]_vars => HashInv'
  <2> SUFFICES ASSUME HashInv, [Next]_vars PROVE HashInv'
    OBVIOUS
  <2>1. CASE UNCHANGED <<config, redisVars, requestVars, historyVars>>
    BY <2>1 DEF config, redisVars, requestVars, historyVars, HashInv, NeverTwice, EndlessNeedsCause
  <2>2. CASE \E r \in Requests : Step(r) \/ KeyExpires(r)
    BY <2>2, HashInvStep
  <2> QED BY <2>1, <2>2 DEF Next, vars
<1> QED BY <1>1, <1>2, PTL DEF Spec

\* Renames, late writes and lost answers never leave a request's data under two ids.
THEOREM NeverCopied == Spec => []NeverTwice
<1>1. HashInv => NeverTwice
  BY DEF HashInv
<1> QED BY <1>1, AlwaysHashInv, PTL

\* With an expiration configured, a renamed session without one has lost its EXPIRE or
\* was written anew by a late Put.
THEOREM EndlessOnlyWithCause == Spec => []EndlessNeedsCause
<1>1. HashInv => EndlessNeedsCause
  BY DEF HashInv
<1> QED BY <1>1, AlwaysHashInv, PTL

-----------------------------------------------------------------------------
(* Requests in good order.                                                 *)

\* Where the data are that request r works on.
Here(r) == IF pc[r] = "expire" THEN r ELSE id[r]

\* That is under the browser's id or under the one that r makes.
InOrder(r) ==
  /\ r \in isNew => id[r] = r /\ (jar = none \/ reName)
  /\ r \notin isNew => jar # none /\ id[r] = jar
  /\ pc[r] = "expire" => reName /\ r \notin isNew
  /\ pc[r] = "sent" => cookie[r] = IF r \in isNew THEN r ELSE none
  /\ kept \subseteq hash[Here(r)]

\* All data are there when all are over; two are under way only if ids stay.
Kept == Busy = {} => \A v \in kept : jar # none /\ v \in hash[jar]
Apart == \A r, q \in Busy : r # q => ~reName /\ jar # none

OrderInv ==
  /\ \A r \in Requests : r \in isNew => pc[r] # "idle"
  /\ ~disorder => /\ Apart /\ Kept
                  /\ \A r \in Busy : InOrder(r)
                  /\ jar # none => pc[jar] = "over"

LEMMA SameHere ==
  ASSUME OrderInv, ~disorder, NEW r \in Busy, NEW q \in Busy
  PROVE  q # r => q \notin isNew /\ r \notin isNew /\ Here(q) = jar /\ Here(r) = jar
BY DEF OrderInv, Apart, InOrder, Here

\* A step that only writes.
LEMMA DataInOrder ==
  ASSUME HashInv, OrderInv, UNCHANGED <<requestVars, config>>, ~disorder' => ~disorder,
         ~disorder' => \A q \in Busy : kept' \subseteq hash'[Here(q)],
         ~disorder' /\ Busy = {} => \A v \in kept' : jar # none /\ v \in hash'[jar]
  PROVE  OrderInv'
<1>1. /\ Busy' = Busy /\ \A q \in Requests : Here(q)' = Here(q)
      /\ UNCHANGED <<pc, id, isNew, jar, cookie, reName>>
  BY DEF Busy, Here, requestVars, config
<1>2. ASSUME ~disorder' PROVE Apart' /\ Kept' /\ \A q \in Busy' : InOrder(q)'
  <2>1. Apart' /\ Kept'
    BY <1>1, <1>2 DEF OrderInv, Apart, Kept
  <2>2. ASSUME NEW q \in Busy PROVE InOrder(q)'
    <3>1. q \in Requests
      BY DEF Busy
    <3> QED BY <1>1, <1>2, <3>1 DEF OrderInv, InOrder
  <2> QED BY <1>1, <2>1, <2>2
<1> QED BY <1>1, <1>2 DEF OrderInv

\* A command that does not fail.
LEMMA CommandInOrder ==
  ASSUME NEW i, NEW S, NEW K, Command(i, S, K), ~disorder'
  PROVE  ~disorder /\ hash' = [hash EXCEPT ![i] = S] /\ kept' = K
BY DEF Command, Fine, Fail, Down, Holds

LEMMA WritesInOrder ==
  ASSUME HashInv, OrderInv, NEW r \in Requests, Put(r) \/ Del(r) \/ Destroy(r) \/ KeyExpires(r)
  PROVE  OrderInv'
<1>1. UNCHANGED <<requestVars, config>>
  BY DEF Put, Del, Destroy, KeyExpires
<1>2. SUFFICES ASSUME ~disorder'
      PROVE  /\ ~disorder
             /\ \A q \in Busy : kept' \subseteq hash'[Here(q)]
             /\ Busy = {} => \A v \in kept' : jar # none /\ v \in hash'[jar]
  BY <1>1, DataInOrder
<1>3. ~disorder => \A q \in Busy : kept \subseteq hash[Here(q)] /\ Here(q) \in Requests
  BY DEF OrderInv, InOrder, HashInv, Here, Ids, Busy
<1>4. CASE Put(r)
  <2>1. pc[r] = "handler" /\ r \in Busy /\ id[r] \in Requests /\ Here(r) = id[r]
    BY <1>4 DEF Put, Busy, Here, HashInv
  <2>2. Command(id[r], hash[id[r]] \cup {r}, kept \cup {r})
    BY <1>4 DEF Put, HSet
  <2>3. ~disorder /\ hash' = [hash EXCEPT ![id[r]] = hash[id[r]] \cup {r}] /\ kept' = kept \cup {r}
    BY <1>2, <2>2, CommandInOrder
  <2>4. kept' \subseteq hash'[id[r]]
    BY <1>3, <2>1, <2>3 DEF HashInv
  <2>5. \A q \in Busy : Here(q) = id[r]
    BY <2>1, <2>3, SameHere
  <2> QED BY <2>1, <2>3, <2>4, <2>5
<1>5. ASSUME ~disorder, kept' \subseteq kept,
             \A x \in Requests : kept \subseteq hash[x] => kept' \subseteq hash'[x]
      PROVE  /\ \A q \in Busy : kept' \subseteq hash'[Here(q)]
             /\ Busy = {} => \A v \in kept' : jar # none /\ v \in hash'[jar]
  <2>1. ASSUME Busy = {}, NEW v \in kept' PROVE jar # none /\ v \in hash'[jar]
    <3>1. jar \in Requests /\ kept \subseteq hash[jar]
      BY <1>5, <2>1 DEF OrderInv, Kept, HashInv, Ids
    <3> QED BY <1>5, <2>1, <3>1, SessionAssumption
  <2> QED BY <1>3, <1>5, <2>1
<1>6. CASE Del(r)
  <2>1. PICK v \in hash[id[r]] : Command(id[r], hash[id[r]] \ {v}, kept \ {v})
    BY <1>6 DEF Del, HDel
  <2>2. ~disorder /\ hash' = [hash EXCEPT ![id[r]] = hash[id[r]] \ {v}] /\ kept' = kept \ {v}
    BY <1>2, <2>1, CommandInOrder
  <2> QED BY <1>5, <2>2 DEF HashInv
<1>7. CASE Destroy(r)
  <2>1. Command(id[r], {}, kept \ hash[id[r]])
    BY <1>7 DEF Destroy, DelKey
  <2>2. ~disorder /\ hash' = [hash EXCEPT ![id[r]] = {}] /\ kept' = kept \ hash[id[r]]
    BY <1>2, <2>1, CommandInOrder
  <2> QED BY <1>5, <2>2 DEF HashInv
<1>8. CASE KeyExpires(r)
  <2>1. ~disorder /\ hash' = [hash EXCEPT ![r] = {}] /\ kept' = kept \ hash[r]
    BY <1>2, <1>8 DEF KeyExpires, Holds
  <2> QED BY <1>5, <2>1 DEF HashInv
<1> QED BY <1>4, <1>6, <1>7, <1>8

\* The start of a request.
LEMMA NewSessionInOrder ==
  ASSUME HashInv, OrderInv, NEW r \in Requests, NewSession(r)
  PROVE  OrderInv'
<1>1. /\ pc[r] = "idle" /\ pc'[r] = "handler" /\ \A q \in Requests \ {r} : pc'[q] = pc[q]
      /\ id'[r] = (IF jar = none THEN r ELSE jar) /\ \A q \in Requests \ {r} : id'[q] = id[q]
      /\ UNCHANGED <<hash, kept, jar, cookie, reName>>
      /\ isNew' = IF jar = none THEN isNew \cup {r} ELSE isNew
  BY DEF NewSession, HashInv, redisVars, config
<1>2. r \notin isNew /\ r \notin Busy /\ Busy' = Busy \cup {r}
  BY <1>1 DEF OrderInv, Busy
<1>3. \A q \in Requests : q \in isNew' => pc'[q] # "idle"
  BY <1>1 DEF OrderInv
<1>4. ASSUME ~disorder' PROVE Apart' /\ Kept' /\ (\A q \in Busy' : InOrder(q)') /\ (jar' # none => pc'[jar'] = "over")
  <2>1. ~disorder /\ (Busy = {} \/ (~reName /\ jar # none))
    BY <1>4 DEF NewSession
  <2>2. Apart' /\ Kept'
    BY <1>1, <1>2, <2>1 DEF OrderInv, Apart, Kept
  <2>3. \A q \in Busy : InOrder(q)'
    BY <1>1, <1>2, <2>1 DEF OrderInv, InOrder, Here, Busy
  <2>4. kept \subseteq hash[id'[r]]
    <3>1. CASE Busy = {}
      BY <1>1, <2>1, <3>1 DEF OrderInv, Kept
    <3>2. CASE Busy # {}
      BY <1>1, <2>1, <3>2 DEF OrderInv, InOrder, Here
    <3> QED BY <3>1, <3>2
  <2>5. InOrder(r)'
    BY <1>1, <1>2, <2>4 DEF InOrder, Here
  <2>6. jar' # none => pc'[jar'] = "over"
    BY <1>1, <2>1 DEF OrderInv, HashInv, Ids
  <2> QED BY <1>2, <2>2, <2>3, <2>5, <2>6
<1> QED BY <1>3, <1>4 DEF OrderInv

\* A request that moves on while it is under way.
LEMMA OwnStepInOrder ==
  ASSUME HashInv, OrderInv, NEW r \in Requests,
         WriteHeader(r) \/ Rename(r) \/ RenameFails(r) \/ Expire(r) \/ SetCookie(r)
  PROVE  OrderInv'
<1>1. /\ r \in Busy /\ pc'[r] \notin {"idle", "over"} /\ \A q \in Requests \ {r} : pc'[q] = pc[q]
      /\ UNCHANGED <<jar, kept, reName>> /\ (~disorder' => ~disorder)
  <2>1. CASE WriteHeader(r)
    BY <2>1 DEF WriteHeader, HashInv, Busy, historyVars, config
  <2>2. CASE Rename(r) \/ RenameFails(r)
    BY <2>2 DEF Rename, RenameFails, HashInv, Busy, Fine, Fail, Down, config
  <2>3. CASE Expire(r)
    BY <2>3 DEF Expire, HashInv, Busy, Fine, Fail, Down, config
  <2>4. CASE SetCookie(r)
    BY <2>4 DEF SetCookie, HashInv, Busy, config
  <2> QED BY <2>1, <2>2, <2>3, <2>4
<1>2. Busy' = Busy
  BY <1>1 DEF Busy
<1>3. isNew' \subseteq isNew \cup {r}
  BY DEF WriteHeader, Rename, RenameFails, Expire, SetCookie
<1>4. \A q \in Requests : q \in isNew' => pc'[q] # "idle"
  BY <1>1, <1>3 DEF OrderInv
<1>5. ASSUME ~disorder' PROVE Apart' /\ Kept' /\ (jar' # none => pc'[jar'] = "over")
  <2>1. jar # r
    BY <1>1, <1>5, SessionAssumption DEF OrderInv, Busy
  <2> QED BY <1>1, <1>2, <1>5, <2>1 DEF OrderInv, Apart, Kept, HashInv, Ids
<1>6. ASSUME ~disorder' PROVE InOrder(r)'
  <2>1. InOrder(r) /\ ~disorder /\ jar # r /\ (r \in isNew => id[r] = r)
    BY <1>1, <1>6, SessionAssumption DEF OrderInv, InOrder, Busy
  <2>2. CASE WriteHeader(r)
    BY <1>1, <2>1, <2>2 DEF WriteHeader, InOrder, Here, redisVars, HashInv
  <2>3. CASE Rename(r)
    <3>1. /\ r \notin isNew /\ id[r] = jar /\ reName /\ id[r] # r /\ id[r] \in Requests /\ kept \subseteq hash[id[r]]
      BY <2>1, <2>3 DEF Rename, Renames, InOrder, Here, HashInv
    <3>2. kept \subseteq hash'[r]
      BY <2>3, <3>1 DEF Rename, Moved, HashInv
    <3> QED BY <1>1, <2>1, <2>3, <3>1, <3>2 DEF Rename, InOrder, Here, HashInv
  <2>4. CASE RenameFails(r)
    <3>1. UNCHANGED hash /\ pc'[r] = "close" /\ pc[r] = "handler" /\ UNCHANGED <<id, isNew>>
      BY <1>6, <2>4 DEF RenameFails, Fail, Down, HashInv
    <3> QED BY <1>1, <2>1, <3>1 DEF InOrder, Here
  <2>5. CASE Expire(r)
    <3>1. UNCHANGED hash /\ pc'[r] = "close" /\ pc[r] = "expire" /\ id'[r] = r /\ r \in isNew'
      BY <2>5 DEF Expire, HashInv
    <3> QED BY <1>1, <2>1, <3>1 DEF InOrder, Here
  <2>6. CASE SetCookie(r)
    <3>1. /\ UNCHANGED <<hash, id, isNew>> /\ pc'[r] = "sent" /\ pc[r] \in {"close", "handler"}
          /\ cookie'[r] = IF r \in isNew THEN id[r] ELSE none
      BY <1>6, <2>6 DEF SetCookie, HashInv, redisVars
    <3> QED BY <1>1, <2>1, <3>1 DEF InOrder, Here
  <2> QED BY <2>2, <2>3, <2>4, <2>5, <2>6
<1>7. ASSUME ~disorder', NEW q \in Busy \ {r} PROVE InOrder(q)'
  <2>1. q \in Requests /\ InOrder(q) /\ ~reName /\ q \notin isNew /\ Here(q) = jar /\ q # r
    BY <1>1, <1>7, SameHere DEF OrderInv, Apart, Busy
  <2>2. pc'[q] = pc[q] /\ UNCHANGED <<jar, kept>> /\ q \notin isNew'
    BY <1>1, <1>3, <2>1
  <2>3. id'[q] = id[q] /\ cookie'[q] = cookie[q]
    BY <2>1 DEF WriteHeader, Rename, RenameFails, Expire, SetCookie, HashInv
  <2>4. pc[r] # "expire" /\ ~Renames(r)
    BY <1>1, <1>7, <2>1 DEF OrderInv, InOrder, Renames
  <2>5. UNCHANGED hash
    BY <2>4 DEF WriteHeader, Rename, RenameFails, Expire, SetCookie, redisVars
  <2> QED BY <1>1, <2>1, <2>2, <2>3, <2>5 DEF InOrder, Here
<1> QED BY <1>2, <1>4, <1>5, <1>6, <1>7 DEF OrderInv

\* The end of a request.
LEMMA EndInOrder ==
  ASSUME HashInv, OrderInv, NEW r \in Requests, Hijacked(r) \/ Response(r)
  PROVE  OrderInv'
<1>1. /\ r \in Busy /\ pc' = [pc EXCEPT ![r] = "over"]
      /\ UNCHANGED <<hash, kept, id, isNew, cookie, reName>>
      /\ (~disorder' => ~disorder)
  <2>1. CASE Hijacked(r)
    BY <2>1 DEF Hijacked, Busy, redisVars, config
  <2>2. CASE Response(r)
    BY <2>2 DEF Response, Busy, Fail, redisVars, config
  <2> QED BY <2>1, <2>2
<1>2. Busy' = Busy \ {r} /\ \A q \in Requests \ {r} : pc'[q] = pc[q]
  BY <1>1 DEF Busy, HashInv
<1>3. \A q \in Requests : q \in isNew' => pc'[q] # "idle"
  BY <1>1 DEF OrderInv, HashInv
<1>4. ASSUME ~disorder'
      PROVE  /\ jar' = Here(r) /\ kept \subseteq hash[Here(r)] /\ pc'[jar'] = "over" /\ jar' # none
             /\ r \notin isNew => jar' = jar
  <2>1. InOrder(r) /\ ~disorder
    BY <1>1, <1>4 DEF OrderInv
  <2>2. CASE r \in isNew
    <3>1. Response(r) /\ cookie[r] = r /\ id[r] = r /\ jar' = r
      BY <1>4, <2>1, <2>2, SessionAssumption DEF Hijacked, Response, InOrder, Fail
    <3> QED BY <1>1, <2>1, <2>2, <3>1, SessionAssumption DEF InOrder, Here, HashInv, Response
  <2>3. CASE r \notin isNew
    <3>1. UNCHANGED jar /\ jar # none /\ id[r] = jar /\ pc[r] # "expire"
      BY <1>4, <2>1, <2>3 DEF Hijacked, Response, InOrder, Fail
    <3> QED BY <1>1, <2>1, <2>3, <3>1 DEF OrderInv, InOrder, Here, HashInv
  <2> QED BY <2>2, <2>3
<1>5. ASSUME ~disorder', NEW q \in Busy \ {r} PROVE InOrder(q)' /\ UNCHANGED jar
  <2>1. q \in Requests /\ InOrder(q) /\ r \notin isNew
    BY <1>1, <1>5, SameHere DEF OrderInv, Busy
  <2> QED BY <1>1, <1>2, <1>4, <1>5, <2>1 DEF InOrder, Here
<1>6. ASSUME ~disorder' PROVE Apart' /\ Kept'
  <2>1. Apart'
    BY <1>1, <1>2, <1>5, <1>6 DEF OrderInv, Apart, Busy
  <2>2. Kept'
    <3>1. Here(r) \in Ids /\ jar' = Here(r)
      BY <1>1, <1>4, <1>6 DEF Here, HashInv, Ids
    <3> QED BY <1>1, <1>4, <1>6, <3>1 DEF Kept
  <2> QED BY <2>1, <2>2
<1> QED BY <1>2, <1>3, <1>4, <1>5, <1>6 DEF OrderInv

\* A handler's data are under the browser's id when all is over: only requests that
\* overlap while ids change, a response without its cookie or a failed command lose them.
THEOREM KeptInGoodOrder == Spec => []LostNeedsDisorder
<1>1. Init => OrderInv
  BY DEF Init, OrderInv, Apart, Kept, Busy
<1>2. HashInv /\ OrderInv /\ [Next]_vars => OrderInv'
  <2> SUFFICES ASSUME HashInv, OrderInv, [Next]_vars PROVE OrderInv'
    OBVIOUS
  <2>1. CASE UNCHANGED <<config, redisVars, requestVars, historyVars>>
    BY <2>1, DataInOrder DEF config, redisVars, requestVars, historyVars, OrderInv, Kept, InOrder
  <2>2. CASE \E r \in Requests : Step(r) \/ KeyExpires(r)
    BY <2>2, WritesInOrder, NewSessionInOrder, OwnStepInOrder, EndInOrder DEF Step
  <2> QED BY <2>1, <2>2 DEF Next, vars
<1>3. OrderInv => LostNeedsDisorder
  BY DEF OrderInv, Kept, LostNeedsDisorder
<1> QED BY <1>1, <1>2, <1>3, AlwaysHashInv, PTL DEF Spec
=============================================================================
