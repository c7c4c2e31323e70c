------------------------------ MODULE GrpcConn ------------------------------
(***************************************************************************)
(* The connections of gRPC clients: the cache of grpc/client/conn.go with  *)
(* one mutex per scheme, the resolvers of grpc/discovery/resolver that it  *)
(* registers with grpc, and the goroutines that keep the addresses of      *)
(* consul services up to date.                                             *)
(***************************************************************************)
EXTENDS Integers, Sequences, FiniteSets

CONSTANTS
  Static,   \* services with fixed addresses (etcd registers like these)
  Consul,   \* services looked up in consul
  Callers,  \* goroutines that call GetConnWithAuth, each once
  MaxFails  \* bound: calls that fail

Services == Static \cup Consul

ASSUME ServicesAssumption ==
  /\ Static \cap Consul = {} /\ {"consul", "none", "error"} \cap Services = {}
  /\ IsFiniteSet(Callers) /\ "free" \notin Callers
ASSUME MaxFailsAssumption == MaxFails \in Nat

\* The scheme of a service (CompleteResolverScheme) is unique: it stands for the
\* service.  The consul builders are registered under their type instead.
RegisteredAs(s) == IF s \in Static THEN s ELSE "consul"
Schemes == Static \cup {"consul"}

VARIABLES
  pc,        \* pc[c]: where caller c is
  want,      \* want[c]: the service it asks for
  got,       \* got[c]: the connection it was given, 0 if none
  lock,      \* lock[s]: who holds the mutex of the service's connInstance
  cached,    \* cached[s]: the connInstance's connection, 0 if none
  writer,    \* who holds the resolver package's lock for writing
  registry,  \* registry[x]: the builder grpc finds for scheme x, 0 if none
  builders,  \* the builders: for whom each was made, and its serviceName
  found,     \* found[c]: the builder that the dial of c found
  conns,     \* the connections: whose, with which builder, with whose addresses
  fails,
  swapped,   \* some dial found another builder than its caller had registered
  made,      \* made[c]: the builder that c registered, 0 if none
  crash      \* fatal error: concurrent map read and map write

callVars == <<pc, want, got>>
cacheVars == <<lock, cached>>
regVars == <<writer, registry, made>>
dialVars == <<builders, found, conns, swapped>>
vars == <<callVars, cacheVars, regVars, dialVars, fails, crash>>

TypeOK ==
  /\ pc \in [Callers -> {"idle", "wait", "resolve", "register", "dial", "build", "query",
                         "done", "failed"}]
  /\ want \in [Callers -> Services \cup {"none"}]
  /\ got \in [Callers -> 0..Len(conns)]
  /\ lock \in [Services -> Callers \cup {"free"}]
  /\ cached \in [Services -> 0..Len(conns)]
  /\ writer \in Callers \cup {"free"}
  /\ registry \in [Schemes -> 0..Len(builders)]
  /\ builders \in Seq([for : Services, name : Services])
  /\ found \in [Callers -> 0..Len(builders)]
  /\ made \in [Callers -> 0..Len(builders)]
  /\ conns \in Seq([service : Services, builder : 1..Len(builders), tag : Services, addrs : Services])
  /\ fails \in 0..MaxFails
  /\ swapped \in BOOLEAN /\ crash \in BOOLEAN

Init ==
  /\ pc = [c \in Callers |-> "idle"]
  /\ want = [c \in Callers |-> "none"]
  /\ got = [c \in Callers |-> 0]
  /\ lock = [s \in Services |-> "free"]
  /\ cached = [s \in Services |-> 0]
  /\ writer = "free"
  /\ registry = [x \in Schemes |-> 0]
  /\ builders = <<>> /\ conns = <<>>
  /\ found = [c \in Callers |-> 0]
  /\ made = [c \in Callers |-> 0]
  /\ fails = 0 /\ swapped = FALSE /\ crash = FALSE

-----------------------------------------------------------------------------
(* The cache.                                                              *)

Return(c, i) ==
  /\ pc' = [pc EXCEPT ![c] = "done"]
  /\ got' = [got EXCEPT ![c] = i]

\* Find or add the connInstance; its connection is read without its mutex.
GetConn(c, s) ==
  /\ pc[c] = "idle"
  /\ want' = [want EXCEPT ![c] = s]
  /\ IF cached[s] # 0
     THEN Return(c, cached[s])
     ELSE pc' = [pc EXCEPT ![c] = "wait"] /\ UNCHANGED got
  /\ UNCHANGED <<cacheVars, regVars, dialVars, fails, crash>>

\* Variant: the connection is not looked at again under the mutex.
LockOnly(c) ==
  /\ pc[c] = "wait" /\ lock[want[c]] = "free"
  /\ pc' = [pc EXCEPT ![c] = "resolve"]
  /\ lock' = [lock EXCEPT ![want[c]] = c]
  /\ UNCHANGED <<want, got, cached, regVars, dialVars, fails, crash>>

LockAndLook(c) ==
  /\ pc[c] = "wait"
  /\ lock[want[c]] = "free"
  /\ IF cached[want[c]] # 0
     THEN Return(c, cached[want[c]]) /\ UNCHANGED lock
     ELSE /\ pc' = [pc EXCEPT ![c] = "resolve"]
          /\ lock' = [lock EXCEPT ![want[c]] = c]
          /\ UNCHANGED got
  /\ UNCHANGED <<want, cached, regVars, dialVars, fails, crash>>

-----------------------------------------------------------------------------
(* GetAndRegisterResolver.                                                 *)

\* A builder is registered under the scheme of the service, or one has to be.
\* The consul builders never are: registry has no entry for those schemes.
FindScheme(c) ==
  /\ pc[c] = "resolve"
  /\ writer = "free"
  /\ IF want[c] \in Static /\ registry[want[c]] # 0
     THEN pc' = [pc EXCEPT ![c] = "dial"] /\ UNCHANGED writer
     ELSE pc' = [pc EXCEPT ![c] = "register"] /\ writer' = c
  /\ UNCHANGED <<want, got, cacheVars, registry, made, dialVars, fails, crash>>

\* Variant: a builder is made for one service and registered under another's scheme.
RegisterFirst(c) ==
  /\ pc[c] = "register"
  /\ builders' = Append(builders, [for |-> want[c], name |-> want[c]])
  /\ registry' = [x \in Schemes |-> Len(builders')]
  /\ made' = [made EXCEPT ![c] = Len(builders')]
  /\ pc' = [pc EXCEPT ![c] = "dial"]
  /\ writer' = "free"
  /\ UNCHANGED <<want, got, cacheVars, found, conns, swapped, fails, crash>>

Register(c) ==
  /\ pc[c] = "register"
  /\ builders' = Append(builders, [for |-> want[c], name |-> want[c]])
  /\ registry' = [registry EXCEPT ![RegisteredAs(want[c])] = Len(builders')]
  /\ made' = [made EXCEPT ![c] = Len(builders')]
  /\ pc' = [pc EXCEPT ![c] = "dial"]
  /\ writer' = "free"
  /\ UNCHANGED <<want, got, cacheVars, found, conns, swapped, fails, crash>>

-----------------------------------------------------------------------------
(* grpc.DialContext and the builders.                                      *)

\* External: grpc reads its registry, without the resolver package's lock.
FindBuilder(c) ==
  /\ pc[c] = "dial"
  /\ found' = [found EXCEPT ![c] = registry[RegisteredAs(want[c])]]
  /\ swapped' = (swapped \/ (made[c] # 0 /\ found'[c] # made[c]))
  /\ pc' = [pc EXCEPT ![c] = "build"]
  /\ UNCHANGED <<want, got, cacheVars, regVars, builders, conns, fails, crash>>

\* ... which the Go runtime may notice while another goroutine writes.
FindBuilderRaces(c) ==
  /\ pc[c] = "dial"
  /\ \E d \in Callers : pc[d] = "register"
  /\ crash' = TRUE
  /\ UNCHANGED <<callVars, cacheVars, regVars, dialVars, fails>>

\* Build: the consul builder takes the name from the target.
Build(c) ==
  /\ pc[c] = "build"
  /\ builders' = IF want[c] \in Static THEN builders
                 ELSE [builders EXCEPT ![found[c]].name = want[c]]
  /\ pc' = [pc EXCEPT ![c] = "query"]
  /\ UNCHANGED <<want, got, cacheVars, regVars, found, conns, swapped, fails, crash>>

\* What a builder resolves now: the service it names, in the consul and with the
\* tag of the service it was made for.
Resolve(b) == [tag |-> builders[b].for, addrs |-> builders[b].name]

NewConn(s, b) == [service |-> s, builder |-> b, tag |-> Resolve(b).tag, addrs |-> Resolve(b).addrs]

\* The first query answers, the watcher is started, the dial returns.
DialDone(c) ==
  /\ pc[c] = "query"
  /\ conns' = Append(conns, NewConn(want[c], found[c]))
  /\ cached' = [cached EXCEPT ![want[c]] = Len(conns')]
  /\ lock' = [lock EXCEPT ![want[c]] = "free"]
  /\ Return(c, Len(conns'))
  /\ UNCHANGED <<want, regVars, builders, found, swapped, fails, crash>>

\* Variant: the error returns with the mutex held.
DialFailsLocked(c) ==
  /\ pc[c] \in {"resolve", "dial", "query"} /\ fails < MaxFails
  /\ fails' = fails + 1
  /\ pc' = [pc EXCEPT ![c] = "failed"]
  /\ UNCHANGED <<want, got, cacheVars, regVars, dialVars, crash>>

\* The resolver is refused its configuration, the dial or its first query fails:
\* a builder that was registered stays so.
DialFails(c) ==
  /\ pc[c] \in {"resolve", "dial", "query"}
  /\ fails < MaxFails
  /\ fails' = fails + 1
  /\ lock' = [lock EXCEPT ![want[c]] = "free"]
  /\ pc' = [pc EXCEPT ![c] = "failed"]
  /\ UNCHANGED <<want, got, cached, regVars, dialVars, crash>>

\* The watcher of a consul connection: query, and hand on the answer.
Watch(i) ==
  /\ conns[i].service \in Consul
  /\ conns' = [conns EXCEPT ![i].addrs = Resolve(conns[i].builder).addrs]
  /\ UNCHANGED <<callVars, cacheVars, regVars, builders, found, swapped, fails, crash>>

-----------------------------------------------------------------------------
CallerStep(c) ==
  \/ LockAndLook(c)
  \/ FindScheme(c) \/ Register(c)
  \/ FindBuilder(c) \/ FindBuilderRaces(c) \/ Build(c) \/ DialDone(c) \/ DialFails(c)

Next ==
  /\ ~crash
  /\ \/ \E c \in Callers : CallerStep(c) \/ \E s \in Services : GetConn(c, s)
     \/ \E i \in DOMAIN conns : Watch(i)

\* The scheduler runs callers, mutexes are handed on to those who wait, and a
\* query ends.
Fairness == \A c \in Callers : /\ WF_vars(~crash /\ CallerStep(c))
                               /\ SF_vars(~crash /\ (LockAndLook(c) \/ FindScheme(c)))

Spec == Init /\ [][Next]_vars

-----------------------------------------------------------------------------
(* Properties.                                                             *)

\* However the first calls for a service overlap, and whichever of them fail,
\* it is dialed successfully once (GetConnWithAuth).
Abstract ==
  INSTANCE DialOnce WITH
    made <- {conns[i].service : i \in DOMAIN conns},
    dials <- Len(conns),
    got <- [c \in Callers |-> IF pc[c] = "done" THEN conns[got[c]].service
                              ELSE IF pc[c] = "failed" THEN "error" ELSE "none"]
DialsOnce == Abstract!Spec

\* What a caller is given is the connection of the service it asked for, and the
\* one that all other callers are given.
GotIsCached == \A c \in Callers : pc[c] = "done" => got[c] # 0 /\ got[c] = cached[want[c]]

\* A connection to a static service has its addresses, and one to a consul
\* service does unless, between the registration of its builder and its dial,
\* another service's builder was registered in its place.
WrongNeedsSwap ==
  \A i \in DOMAIN conns :
    conns[i].addrs # conns[i].service \/ conns[i].tag # conns[i].service
      => conns[i].service \in Consul /\ swapped

\* No mutex is left locked: whoever holds one is between its lock and its unlock,
\* also after a dial that failed (GetConnWithAuth, GenerateAndRegisterConsulResolver).
LocksAreReleased ==
  /\ \A s \in Services :
       lock[s] # "free" => /\ want[lock[s]] = s
                           /\ pc[lock[s]] \in {"resolve", "register", "dial", "build", "query"}
  /\ writer # "free" => pc[writer] = "register"
=============================================================================
