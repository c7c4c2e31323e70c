----------------------------- MODULE RedisPool ------------------------------
(***************************************************************************)
(* The clients of redis/new.go that are made with one configuration: they  *)
(* share the connection pool that insMap keeps for it. Closing one client  *)
(* closes the pool under the others, and deletes the configuration's key   *)
(* only later.                                                             *)
(***************************************************************************)
EXTENDS Naturals, FiniteSets

CONSTANTS
  Clients,     \* variables that hold a *redis.Client
  DefaultIns,  \* the one that Init makes before anything else runs, and never again
  MaxPools     \* bound: pools that are dialed

ASSUME PoolAssumption == DefaultIns \in Clients /\ MaxPools \in Nat \ {0}

VARIABLES
  insMap,   \* the pool stored for the configuration, 0 if none
  dialed,   \* the pools are 1..dialed
  closed,   \* those that are closed
  client,   \* client[c]: the pool of c, 0 if nil
  dying,    \* dying[c]: the pool c has closed without deleting the key yet, or 0
  late      \* history: pools that another pool's client took out of insMap

poolVars == <<insMap, dialed, closed, client, dying, late>>

PoolTypeOK ==
  /\ dialed \in 0..MaxPools
  /\ insMap \in 0..dialed
  /\ closed \subseteq 1..dialed /\ late \subseteq 1..dialed
  /\ client \in [Clients -> 0..dialed]
  /\ dying \in [Clients -> 0..dialed]

PoolInit ==
  /\ insMap = 1 /\ dialed = 1
  /\ closed = {} /\ late = {}
  /\ client = [c \in Clients |-> IF c = DefaultIns THEN 1 ELSE 0]
  /\ dying = [c \in Clients |-> 0]

\* Do of a client whose pool is open reaches the server.
Up(c) == client[c] \notin closed \cup {0}

\* Variant: the new pool is not stored.
NewUnstored(c) ==
  /\ c # DefaultIns /\ client[c] = 0 /\ dying[c] = 0
  /\ \/ /\ insMap # 0
        /\ client' = [client EXCEPT ![c] = insMap]
        /\ UNCHANGED <<insMap, dialed>>
     \/ /\ insMap = 0 /\ dialed < MaxPools
        /\ dialed' = dialed + 1
        /\ client' = [client EXCEPT ![c] = dialed + 1]
        /\ UNCHANGED insMap
  /\ UNCHANGED <<closed, dying, late>>

\* newClient, under l throughout: takes the pool that is stored, or dials one. A dial
\* that fails leaves everything as it was.
New(c) ==
  /\ c # DefaultIns /\ client[c] = 0 /\ dying[c] = 0
  /\ \/ /\ insMap # 0
        /\ client' = [client EXCEPT ![c] = insMap]
        /\ UNCHANGED <<insMap, dialed>>
     \/ /\ insMap = 0 /\ dialed < MaxPools
        /\ dialed' = dialed + 1 /\ insMap' = dialed + 1
        /\ client' = [client EXCEPT ![c] = dialed + 1]
  /\ UNCHANGED <<closed, dying, late>>

\* closeClient up to the lock.
ClosePool(c) ==
  /\ client[c] # 0
  /\ closed' = closed \cup {client[c]}
  /\ dying' = [dying EXCEPT ![c] = client[c]]
  /\ client' = [client EXCEPT ![c] = 0]
  /\ UNCHANGED <<insMap, dialed, late>>

\* ... and its end, which deletes whatever is stored by now.
DeleteKey(c) ==
  /\ dying[c] # 0
  /\ insMap' = 0
  /\ late' = IF insMap \in {0, dying[c]} THEN late ELSE late \cup {insMap}
  /\ dying' = [dying EXCEPT ![c] = 0]
  /\ UNCHANGED <<dialed, closed, client>>

PoolStep(c) == New(c) \/ ClosePool(c) \/ DeleteKey(c)

-----------------------------------------------------------------------------
\* newClient hands out a closed pool only while a Close has yet to delete its key;
\* and a second pool is dialed beside one that is held open only after the Close of a
\* client of an older pool deleted the key of this one.
PoolIsShared ==
  /\ insMap \in closed => \E c \in Clients : dying[c] # 0
  /\ \A c \in Clients : Up(c) => client[c] \in late \cup {insMap}
=============================================================================
