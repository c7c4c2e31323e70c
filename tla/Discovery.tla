----------------------------- MODULE Discovery ------------------------------
(***************************************************************************)
(* The resolver cache of service/discovery/consul.go for one key: callers  *)
(* share a ConsulResolver whose goroutine follows the registry.            *)
(***************************************************************************)
EXTENDS Registry

CONSTANTS
  Users,    \* goroutines that call NewConsulResolver
  Torn      \* what is read beyond the end of a slice

VARIABLES
  user,       \* user[u]: where u is with its call of NewConsulResolver or Close
  lock,       \* consulRwLock: "free", or who writes
  cached,     \* whether the resolver is in consulResolverMap
  canceled,   \* whether its httpCtx is cancelled
  watch,      \* its goroutine
  news,       \* whether the registry changed since the index it waits for
  addresses,  \* its addresses
  fetched     \* the addresses it is about to store

cacheVars == <<user, lock, cached, canceled>>
resolverVars == <<watch, news, addresses, fetched>>
discoveryVars == <<cacheVars, resolverVars>>

DiscoveryTypeOK ==
  /\ user \in [Users -> {"idle", "missed", "creating", "has", "refused", "closing", "closed"}]
  /\ lock \in {"free"} \cup Users
  /\ cached \in BOOLEAN /\ canceled \in BOOLEAN /\ news \in BOOLEAN
  /\ watch \in {"none", "query", "store", "check", "over"}
  /\ addresses \in Seq(Servers) /\ fetched \in Seq(Servers)

DiscoveryInit ==
  /\ user = [u \in Users |-> "idle"]
  /\ lock = "free" /\ cached = FALSE /\ canceled = FALSE
  /\ watch = "none" /\ news = FALSE
  /\ addresses = <<>> /\ fetched = <<>>

\* The agent lists the instances in an order of its own.
Orders(S) == {q \in [1..Cardinality(S) -> S] : \A x \in S : \E i \in 1..Cardinality(S) : q[i] = x}

\* A step of the registry: the blocking query will see it if it changes the list.
Follows == news' = (news \/ Listed' # Listed)

-----------------------------------------------------------------------------
(* NewConsulResolver.                                                      *)

\* The look under the read lock.
Look(u) ==
  /\ user[u] = "idle" /\ lock = "free"
  /\ user' = [user EXCEPT ![u] = IF cached THEN "has" ELSE "missed"]
  /\ UNCHANGED <<lock, cached, canceled, resolverVars, registryVars>>

\* The look under the write lock.
LookAgain(u) ==
  /\ user[u] = "missed" /\ lock = "free"
  /\ IF cached
     THEN user' = [user EXCEPT ![u] = "has"] /\ UNCHANGED lock
     ELSE user' = [user EXCEPT ![u] = "creating"] /\ lock' = u
  /\ UNCHANGED <<cached, canceled, resolverVars, registryVars>>

\* The first query, under the lock; when it fails nothing is kept.
Create(u) ==
  /\ user[u] = "creating"
  /\ lock' = "free"
  /\ \/ /\ user' = [user EXCEPT ![u] = "has"]
        /\ cached' = TRUE
        /\ watch' = "query" /\ news' = FALSE
        /\ addresses' \in Orders(Listed)
        /\ UNCHANGED trouble
     \/ /\ Fails
        /\ user' = [user EXCEPT ![u] = "refused"]
        /\ UNCHANGED <<cached, watch, news, addresses>>
  /\ UNCHANGED <<canceled, fetched, serverVars>>

-----------------------------------------------------------------------------
(* watch and resolve.                                                      *)

\* The blocking query: it returns when the list has changed (that it also
\* returns the same list after five minutes is left out), fails, or is
\* interrupted by Close, which is no error.
Query ==
  /\ watch = "query"
  /\ \/ /\ canceled
        /\ watch' = "check"
        /\ UNCHANGED <<fetched, news, trouble>>
     \/ /\ news
        /\ fetched' \in Orders(Listed)
        /\ news' = FALSE
        /\ watch' = "store"
        /\ UNCHANGED trouble
     \/ /\ Fails
        /\ watch' = "check"
        /\ UNCHANGED <<fetched, news>>
  /\ UNCHANGED <<cacheVars, addresses, serverVars>>

\* Variant: what changed since the query is forgotten.
StoreForgets ==
  /\ watch = "store"
  /\ addresses' = fetched /\ fetched' = <<>>
  /\ watch' = "check" /\ news' = FALSE
  /\ UNCHANGED <<cacheVars, registryVars>>

\* The new slice is stored, without a lock.
Store ==
  /\ watch = "store"
  /\ addresses' = fetched /\ fetched' = <<>>
  /\ watch' = "check"
  /\ UNCHANGED <<cacheVars, news, registryVars>>

CheckDone ==
  /\ watch = "check"
  /\ watch' = IF canceled THEN "over" ELSE "query"
  /\ UNCHANGED <<cacheVars, news, addresses, fetched, registryVars>>

WatchStep == Query \/ Store \/ CheckDone

-----------------------------------------------------------------------------
(* Close, which leaves the resolver in the map.                            *)

Close(u) ==
  /\ user[u] = "has"
  /\ canceled' = TRUE
  /\ user' = [user EXCEPT ![u] = "closing"]
  /\ UNCHANGED <<lock, cached, resolverVars, registryVars>>

CloseReturns(u) ==
  /\ user[u] = "closing" /\ watch = "over"
  /\ user' = [user EXCEPT ![u] = "closed"]
  /\ UNCHANGED <<lock, cached, canceled, resolverVars, registryVars>>

-----------------------------------------------------------------------------
(* GetAddress.                                                             *)

\* What a caller may see as the slice: its array and its length, which are read
\* and stored in separate words.
Views ==
  IF watch = "store"
  THEN {<<a, n>> : a \in {addresses, fetched}, n \in {Len(addresses), Len(fetched)}}
  ELSE {<<addresses, Len(addresses)>>}

At(view, i) == IF i <= Len(view[1]) THEN view[1][i] ELSE Torn

\* The goroutine runs, and consul answers the queries that may return.
DiscoveryFairness == WF_<<discoveryVars, registryVars>>(UNCHANGED trouble /\ WatchStep)

-----------------------------------------------------------------------------
(* Properties.                                                             *)

\* What the resolver has, or is about to store, are the servers listed now unless
\* the next query will report a change; from its creation, which only one user
\* gets to, until Close its goroutine goes on (NewConsulResolver, resolve, watch).
ResolverFollows ==
  /\ watch # "none" /\ ~news =>
       (IF watch = "store" THEN fetched ELSE addresses) \in Orders(Listed)
  /\ cached => watch # "none" /\ (watch = "over" => canceled)
  /\ \A u \in Users : user[u] = "creating" => lock = u /\ ~cached
=============================================================================
