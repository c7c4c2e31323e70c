--------------------------- MODULE GrpcConnProofs ---------------------------
(***************************************************************************)
(* Theorems about GrpcConn and GrpcCall, for any services, callers, calls  *)
(* and numbers of attempts.                                                *)
(***************************************************************************)
EXTENDS GrpcCall, SequenceTheorems, TLAPS

States == {"idle", "wait", "resolve", "register", "dial", "build", "query", "done", "failed"}
Builder == [for : Services, name : Services]
Conn(n) == [service : Services, builder : 1..n, tag : Services, addrs : Services]

\* The callers that hold the mutex of their service.
Within == {"resolve", "register", "dial", "build", "query"}

\* Who is past GetConn knows its service; who has found a builder has one.
Known(c) ==
  /\ pc[c] # "idle" => want[c] \in Services
  /\ pc[c] \in {"build", "query"} => found[c] # 0
  /\ pc[c] = "dial" => registry[RegisteredAs(want[c])] # 0

Typed == TypeOK /\ \A c \in Callers : Known(c)

LEMMA ServicesTyped ==
  /\ "consul" \notin Services /\ "none" \notin Services
  /\ Static \subseteq Services /\ Consul \subseteq Services /\ Static \cap Consul = {}
  /\ "free" \notin Callers
  /\ "consul" \in Schemes /\ \A s \in Services : RegisteredAs(s) \in Schemes
BY ServicesAssumption DEF Services, Schemes, RegisteredAs

-----------------------------------------------------------------------------
(* Type correctness.                                                       *)

LEMMA TypedInit == Init => Typed
<1> SUFFICES ASSUME Init PROVE Typed
  OBVIOUS
<1>1. builders \in Seq([for : Services, name : Services]) /\ Len(builders) = 0
  BY DEF Init
<1>2. conns \in Seq([service : Services, builder : 1..Len(builders), tag : Services, addrs : Services])
      /\ Len(conns) = 0
  BY DEF Init
<1>3. /\ pc \in [Callers -> States] /\ want \in [Callers -> Services \cup {"none"}]
      /\ lock \in [Services -> Callers \cup {"free"}] /\ writer \in Callers \cup {"free"}
  BY DEF Init, States
<1>4. /\ got \in [Callers -> 0..0] /\ cached \in [Services -> 0..0] /\ registry \in [Schemes -> 0..0]
      /\ found \in [Callers -> 0..0] /\ made \in [Callers -> 0..0]
  BY DEF Init
<1>5. fails \in 0..MaxFails
  BY MaxFailsAssumption DEF Init
<1>6. swapped \in BOOLEAN /\ crash \in BOOLEAN
  BY DEF Init
<1>7. TypeOK
  BY <1>1, <1>2, <1>3, <1>4, <1>5, <1>6 DEF TypeOK, States
<1> QED BY <1>7 DEF Typed, Known, Init


\* The sequences of builders and of connections.
LEMMA BuildersTyped ==
  TypeOK => builders \in Seq(Builder) /\ Len(builders) \in Nat /\ \A b \in 1..Len(builders) : builders[b] \in Builder
<1> SUFFICES ASSUME TypeOK
             PROVE  builders \in Seq(Builder) /\ Len(builders) \in Nat /\ \A b \in 1..Len(builders) : builders[b] \in Builder
  OBVIOUS
<1>1. builders \in Seq(Builder)
  BY Zenon DEF TypeOK, Builder
<1> QED BY <1>1, ElementOfSeq, LenProperties

LEMMA ConnsTyped ==
  TypeOK => /\ conns \in Seq(Conn(Len(builders))) /\ Len(conns) \in Nat
            /\ \A i \in 1..Len(conns) : conns[i] \in Conn(Len(builders))
<1> SUFFICES ASSUME TypeOK
             PROVE  /\ conns \in Seq(Conn(Len(builders))) /\ Len(conns) \in Nat
                    /\ \A i \in 1..Len(conns) : conns[i] \in Conn(Len(builders))
  OBVIOUS
<1>1. conns \in Seq(Conn(Len(builders)))
  BY Zenon DEF TypeOK, Conn
<1> QED BY <1>1, ElementOfSeq, LenProperties

LEMMA MoreBuilders ==
  ASSUME TypeOK, Len(builders') \in Nat, Len(builders') >= Len(builders), conns' = conns
  PROVE  conns' \in Seq(Conn(Len(builders')))
<1>1. Conn(Len(builders)) \subseteq Conn(Len(builders'))
  BY BuildersTyped DEF Conn
<1> QED BY <1>1, ConnsTyped

LEMMA ResolveTyped ==
  ASSUME TypeOK, NEW b \in 1..Len(builders), NEW s \in Services
  PROVE  Resolve(b).addrs \in Services /\ NewConn(s, b) \in Conn(Len(builders))
BY BuildersTyped DEF Resolve, NewConn, Builder, Conn

\* What the actions leave alone or choose from their ranges.
LEMMA TypedQuiet ==
  ASSUME Typed,
         UNCHANGED <<builders, conns, registry, made, cached>>,
         pc' \in [Callers -> States], want' \in [Callers -> Services \cup {"none"}],
         got' \in [Callers -> 0..Len(conns)], lock' \in [Services -> Callers \cup {"free"}],
         writer' \in Callers \cup {"free"}, found' \in [Callers -> 0..Len(builders)],
         fails' \in 0..MaxFails, swapped' \in BOOLEAN, crash' \in BOOLEAN
  PROVE  TypeOK'
BY DEF Typed, TypeOK, States

LEMMA TypedCache ==
  ASSUME Typed, NEW c \in Callers, (\E s \in Services : GetConn(c, s)) \/ LockAndLook(c) \/ DialFails(c)
  PROVE  Typed'
<1> USE ServicesTyped DEF callVars, cacheVars, regVars, dialVars
<1>1. TypeOK /\ Known(c) /\ \A s \in Services : RegisteredAs(s) \in Schemes
  BY DEF Typed
<1>2. /\ pc \in [Callers -> States] /\ want \in [Callers -> Services \cup {"none"}]
      /\ got \in [Callers -> 0..Len(conns)] /\ cached \in [Services -> 0..Len(conns)]
      /\ lock \in [Services -> Callers \cup {"free"}] /\ fails \in 0..MaxFails /\ MaxFails \in Nat
  BY <1>1, MaxFailsAssumption DEF TypeOK, States
<1>3. /\ UNCHANGED <<builders, conns, registry, made, cached, found, writer>>
      /\ UNCHANGED <<crash, swapped>>
  BY DEF GetConn, LockAndLook, DialFails
<1>4. ASSUME NEW s \in Services, GetConn(c, s) PROVE Typed'
  <2>1. /\ pc' \in [Callers -> States] /\ want' \in [Callers -> Services \cup {"none"}]
        /\ got' \in [Callers -> 0..Len(conns)] /\ lock' = lock /\ fails' = fails
        /\ pc' = [pc EXCEPT ![c] = pc'[c]] /\ pc'[c] \in {"done", "wait"}
        /\ want' = [want EXCEPT ![c] = s]
    BY <1>2, <1>4 DEF GetConn, Return, States
  <2>2. TypeOK'
    BY <1>1, <1>3, <2>1, TypedQuiet DEF TypeOK
  <2> QED BY <1>2, <1>3, <2>1, <2>2 DEF Typed, Known
<1>5. CASE LockAndLook(c)
  <2>1. /\ want[c] \in Services /\ want' = want /\ fails' = fails
    BY <1>1, <1>5 DEF LockAndLook, Known
  <2>2. \/ /\ pc' = [pc EXCEPT ![c] = "done"] /\ lock' = lock
           /\ got' = [got EXCEPT ![c] = cached[want[c]]]
        \/ /\ pc' = [pc EXCEPT ![c] = "resolve"] /\ got' = got
           /\ lock' = [lock EXCEPT ![want[c]] = c]
    BY <1>5 DEF LockAndLook, Return
  <2>3. /\ pc' \in [Callers -> States] /\ lock' \in [Services -> Callers \cup {"free"}]
        /\ got' \in [Callers -> 0..Len(conns)]
    <3>1. cached[want[c]] \in 0..Len(conns)
      BY <1>2, <2>1
    <3>2. got' \in [Callers -> 0..Len(conns)]
      BY <1>2, <2>2, <3>1
    <3>3. pc' \in [Callers -> States]
      BY <1>2, <2>2 DEF States
    <3>4. lock' \in [Services -> Callers \cup {"free"}]
      BY <1>2, <2>2
    <3> QED BY <3>2, <3>3, <3>4
  <2>4. TypeOK'
    BY <1>1, <1>3, <2>1, <2>3, TypedQuiet DEF TypeOK
  <2> QED BY <1>2, <1>3, <2>1, <2>2, <2>4 DEF Typed, Known
<1>6. CASE DialFails(c)
  <2>1. /\ want[c] \in Services /\ want' = want /\ got' = got
    BY <1>1, <1>6 DEF DialFails, Known
  <2>2. fails' \in 0..MaxFails
    BY <1>2, <1>6 DEF DialFails
  <2>3. /\ pc' \in [Callers -> States] /\ lock' \in [Services -> Callers \cup {"free"}]
        /\ pc' = [pc EXCEPT ![c] = "failed"]
    BY <1>2, <1>6, <2>1 DEF DialFails, States
  <2>4. TypeOK'
    BY <1>1, <1>3, <2>1, <2>2, <2>3, TypedQuiet DEF TypeOK
  <2> QED BY <1>2, <1>3, <2>1, <2>3, <2>4 DEF Typed, Known
<1> QED BY <1>4, <1>5, <1>6

LEMMA TypedFind ==
  ASSUME Typed, NEW c \in Callers, FindScheme(c) \/ FindBuilder(c) \/ FindBuilderRaces(c)
  PROVE  Typed'
<1> USE ServicesTyped DEF callVars, cacheVars, regVars, dialVars
<1>1. TypeOK /\ Known(c)
  BY DEF Typed
<1>2. /\ pc \in [Callers -> States] /\ registry \in [Schemes -> 0..Len(builders)]
      /\ found \in [Callers -> 0..Len(builders)] /\ writer \in Callers \cup {"free"}
  BY <1>1 DEF TypeOK, States
<1>3. UNCHANGED <<builders, conns, registry, made, cached, lock, want, got, fails>>
  BY DEF FindScheme, FindBuilder, FindBuilderRaces
<1>4. CASE FindScheme(c)
  <2>1. /\ want[c] \in Services /\ found' = found
    BY <1>1, <1>4 DEF FindScheme, Known
  <2>2. /\ pc' \in [Callers -> States] /\ writer' \in Callers \cup {"free"}
        /\ \/ pc' = [pc EXCEPT ![c] = "dial"] /\ registry[RegisteredAs(want[c])] # 0
           \/ pc' = [pc EXCEPT ![c] = "register"]
    BY <1>2, <1>4, <2>1 DEF FindScheme, States, RegisteredAs
  <2>3. UNCHANGED <<crash, swapped>>
    BY <1>4 DEF FindScheme
  <2>4. TypeOK'
    BY <1>1, <1>3, <2>1, <2>2, <2>3, TypedQuiet DEF TypeOK
  <2> QED BY <1>2, <1>3, <2>1, <2>2, <2>4 DEF Typed, Known
<1>5. CASE FindBuilder(c)
  <2>1. /\ want[c] \in Services /\ registry[RegisteredAs(want[c])] # 0 /\ writer' = writer
    BY <1>1, <1>5 DEF FindBuilder, Known
  <2>2. /\ pc' \in [Callers -> States] /\ found' \in [Callers -> 0..Len(builders)]
        /\ pc' = [pc EXCEPT ![c] = "build"]
        /\ found' = [found EXCEPT ![c] = registry[RegisteredAs(want[c])]]
    BY <1>2, <1>5, <2>1 DEF FindBuilder, States
  <2>3. crash' = crash /\ swapped' \in BOOLEAN
    BY <1>5 DEF FindBuilder
  <2>4. TypeOK'
    BY <1>1, <1>3, <2>1, <2>2, <2>3, TypedQuiet DEF TypeOK
  <2> QED BY <1>2, <1>3, <2>1, <2>2, <2>4 DEF Typed, Known
<1>6. CASE FindBuilderRaces(c)
  <2>1. UNCHANGED <<pc, found, writer, swapped>> /\ crash' \in BOOLEAN
    BY <1>6 DEF FindBuilderRaces
  <2>2. TypeOK'
    BY <1>1, <1>3, <2>1, TypedQuiet DEF TypeOK, States
  <2> QED BY <1>3, <2>1, <2>2 DEF Typed, Known
<1> QED BY <1>4, <1>5, <1>6

LEMMA TypedRegister == ASSUME Typed, NEW c \in Callers, Register(c) PROVE Typed'
<1> USE ServicesTyped DEF callVars, cacheVars, regVars, dialVars
<1>1. TypeOK /\ Known(c) /\ want[c] \in Services
  BY DEF Typed, Known, Register
<1> DEFINE b == [for |-> want[c], name |-> want[c]]
<1>2. /\ b \in Builder /\ builders' = Append(builders, b)
  BY <1>1 DEF Builder, Register
<1>3. builders' \in Seq(Builder) /\ Len(builders') = Len(builders) + 1
  BY <1>1, <1>2, BuildersTyped, AppendProperties
<1>4. /\ pc' = [pc EXCEPT ![c] = "dial"]
      /\ registry' = [registry EXCEPT ![RegisteredAs(want[c])] = Len(builders')]
      /\ made' = [made EXCEPT ![c] = Len(builders')]
      /\ UNCHANGED <<want, got, lock, cached, found, conns, swapped, fails, crash>>
      /\ writer' = "free"
  BY DEF Register
<1>5. /\ pc' \in [Callers -> States] /\ registry' \in [Schemes -> 0..Len(builders')]
      /\ made' \in [Callers -> 0..Len(builders')] /\ found' \in [Callers -> 0..Len(builders')]
  <2> HIDE DEF b
  <2>1. 0..Len(builders) \subseteq 0..Len(builders') /\ Len(builders') \in 0..Len(builders')
    BY <1>1, <1>3, BuildersTyped
  <2>2. pc' \in [Callers -> States]
    BY <1>1, <1>4 DEF TypeOK, States
  <2>3. registry' \in [Schemes -> 0..Len(builders')]
    BY <1>1, <1>4, <2>1 DEF TypeOK
  <2>4. made' \in [Callers -> 0..Len(builders')] /\ found' \in [Callers -> 0..Len(builders')]
    BY <1>1, <1>4, <2>1 DEF TypeOK
  <2> QED BY <2>2, <2>3, <2>4
<1>6. conns' \in Seq(Conn(Len(builders')))
  BY <1>1, <1>3, <1>4, BuildersTyped, MoreBuilders
<1>7. TypeOK'
  <2> HIDE DEF b
  <2>1. builders' \in Seq([for : Services, name : Services])
    BY <1>3 DEF Builder
  <2>2. conns' \in Seq([service : Services, builder : 1..Len(builders'), tag : Services, addrs : Services])
    BY <1>6 DEF Conn
  <2> QED BY <1>1, <1>4, <1>5, <2>1, <2>2 DEF TypeOK, States
<1>8. ASSUME NEW d \in Callers PROVE Known(d)'
  <2>1. Known(d) /\ pc \in [Callers -> States] /\ registry \in [Schemes -> 0..Len(builders)]
        /\ want \in [Callers -> Services \cup {"none"}] /\ Len(builders) \in Nat
    BY <1>1, BuildersTyped DEF Typed, TypeOK, States
  <2>2. Len(builders') # 0
    BY <1>3, <2>1
  <2>3. pc'[d] = "dial" => registry'[RegisteredAs(want[d])] # 0
    <3>1. CASE d = c
      BY <1>1, <1>4, <2>1, <2>2, <3>1
    <3>2. CASE d # c
      BY <1>1, <1>4, <2>1, <2>2, <3>2 DEF Known
    <3> QED BY <3>1, <3>2
  <2> QED BY <1>1, <1>4, <2>1, <2>3 DEF Known
<1> QED BY <1>7, <1>8 DEF Typed

LEMMA TypedBuild == ASSUME Typed, NEW c \in Callers, Build(c) PROVE Typed'
<1> USE ServicesTyped DEF callVars, cacheVars, regVars
<1>1. /\ TypeOK /\ Known(c) /\ want[c] \in Services /\ found[c] # 0 /\ found[c] \in 1..Len(builders)
      /\ pc \in [Callers -> States] /\ Len(builders) \in Nat
  <2>1. TypeOK /\ Known(c) /\ pc[c] = "build" /\ Len(builders) \in Nat
    BY BuildersTyped DEF Typed, Build
  <2>2. found[c] \in 0..Len(builders) /\ pc \in [Callers -> States]
    BY <2>1 DEF TypeOK, States
  <2>3. want[c] \in Services /\ found[c] # 0
    BY <2>1 DEF Known
  <2> QED BY <2>1, <2>2, <2>3
<1>2. /\ pc' = [pc EXCEPT ![c] = "query"]
      /\ UNCHANGED <<want, got, lock, cached, writer, registry, made, found, conns, swapped, fails, crash>>
      /\ builders' = builders \/ builders' = [builders EXCEPT ![found[c]].name = want[c]]
  BY DEF Build
<1>3. builders' \in Seq(Builder) /\ Len(builders') = Len(builders)
  <2>1. builders[found[c]] \in Builder
    BY <1>1, BuildersTyped
  <2>2. [builders[found[c]] EXCEPT !.name = want[c]] \in Builder
    BY <1>1, <2>1 DEF Builder
  <2> QED BY <1>1, <1>2, <2>2, BuildersTyped, ExceptSeq
<1>4. pc' \in [Callers -> States]
  BY <1>1, <1>2 DEF States
<1>5. TypeOK'
  <2>1. builders' \in Seq([for : Services, name : Services])
    BY <1>3 DEF Builder
  <2> QED BY <1>1, <1>2, <1>3, <1>4, <2>1 DEF TypeOK, States
<1>6. ASSUME NEW d \in Callers PROVE Known(d)'
  BY <1>1, <1>2 DEF Typed, Known
<1> QED BY <1>5, <1>6 DEF Typed

LEMMA TypedDone == ASSUME Typed, NEW c \in Callers, DialDone(c) PROVE Typed'
<1> USE ServicesTyped DEF regVars
<1>1. /\ TypeOK /\ Known(c) /\ want[c] \in Services /\ found[c] \in 1..Len(builders)
      /\ pc \in [Callers -> States] /\ Len(builders) \in Nat /\ Len(conns) \in Nat
  <2>1. TypeOK /\ Known(c) /\ pc[c] = "query" /\ Len(builders) \in Nat /\ Len(conns) \in Nat
    BY BuildersTyped, ConnsTyped DEF Typed, DialDone
  <2>2. found[c] \in 0..Len(builders) /\ pc \in [Callers -> States]
    BY <2>1 DEF TypeOK, States
  <2>3. want[c] \in Services /\ found[c] # 0
    BY <2>1 DEF Known
  <2> QED BY <2>1, <2>2, <2>3
<1>2. NewConn(want[c], found[c]) \in Conn(Len(builders)) /\ conns' = Append(conns, NewConn(want[c], found[c]))
  BY <1>1, ResolveTyped DEF DialDone
<1>3. conns' \in Seq(Conn(Len(builders))) /\ Len(conns') = Len(conns) + 1
  BY <1>1, <1>2, ConnsTyped, AppendProperties
<1>4. /\ pc' = [pc EXCEPT ![c] = "done"] /\ got' = [got EXCEPT ![c] = Len(conns')]
      /\ cached' = [cached EXCEPT ![want[c]] = Len(conns')]
      /\ lock' = [lock EXCEPT ![want[c]] = "free"]
      /\ UNCHANGED <<want, writer, registry, made, builders, found, swapped, fails, crash>>
  BY DEF DialDone, Return
<1>5. /\ pc' \in [Callers -> States] /\ got' \in [Callers -> 0..Len(conns')]
      /\ cached' \in [Services -> 0..Len(conns')] /\ lock' \in [Services -> Callers \cup {"free"}]
  <2>1. pc' \in [Callers -> States] /\ lock' \in [Services -> Callers \cup {"free"}]
    BY <1>1, <1>4 DEF TypeOK, States
  <2>2. got \in [Callers -> 0..Len(conns)] /\ cached \in [Services -> 0..Len(conns)]
    BY <1>1 DEF TypeOK
  <2>3. got' \in [Callers -> 0..Len(conns')]
    BY <1>1, <1>3, <1>4, <2>2
  <2>4. cached' \in [Services -> 0..Len(conns')]
    BY <1>1, <1>3, <1>4, <2>2
  <2> QED BY <2>1, <2>3, <2>4
<1>6. TypeOK'
  <2>1. conns' \in Seq([service : Services, builder : 1..Len(builders), tag : Services, addrs : Services])
    BY <1>3 DEF Conn
  <2> QED BY <1>1, <1>4, <1>5, <2>1 DEF TypeOK, States
<1>7. ASSUME NEW d \in Callers PROVE Known(d)'
  BY <1>1, <1>4 DEF Typed, Known
<1> QED BY <1>6, <1>7 DEF Typed

LEMMA TypedWatch == ASSUME Typed, NEW i \in DOMAIN conns, Watch(i) PROVE Typed'
<1> USE DEF callVars, cacheVars, regVars
<1>1. TypeOK /\ i \in 1..Len(conns) /\ Len(conns) \in Nat /\ conns[i] \in Conn(Len(builders))
  BY ConnsTyped, LenProperties DEF Typed
<1>2. conns[i].builder \in 1..Len(builders) /\ conns[i].service \in Services
  BY <1>1 DEF Conn
<1>3. [conns[i] EXCEPT !.addrs = Resolve(conns[i].builder).addrs] \in Conn(Len(builders))
  BY <1>1, <1>2, ResolveTyped DEF Conn
<1>4. conns' \in Seq(Conn(Len(builders))) /\ Len(conns') = Len(conns)
  BY <1>1, <1>3, ConnsTyped, ExceptSeq DEF Watch
<1>5. UNCHANGED <<pc, want, got, lock, cached, writer, registry, made, builders, found, swapped, fails, crash>>
  BY DEF Watch
<1>6. TypeOK'
  <2>1. conns' \in Seq([service : Services, builder : 1..Len(builders), tag : Services, addrs : Services])
    BY <1>4 DEF Conn
  <2> QED BY <1>1, <1>4, <1>5, <2>1 DEF TypeOK, States
<1> QED BY <1>5, <1>6 DEF Typed, Known

LEMMA TypedStep == Typed /\ [Next]_vars => Typed'
<1> SUFFICES ASSUME Typed, [Next]_vars PROVE Typed'
  OBVIOUS
<1>1. CASE UNCHANGED vars
  BY <1>1 DEF vars, callVars, cacheVars, regVars, dialVars, Typed, TypeOK, Known
<1>2. CASE Next
  BY <1>2, TypedCache, TypedFind, TypedRegister, TypedBuild, TypedDone, TypedWatch DEF Next, CallerStep
<1> QED BY <1>1, <1>2

\* Callers, mutexes, builders and connections stay in their ranges: nobody gets
\* a connection that was not made, or dials without a builder.
THEOREM TypeCorrect == Spec => []TypeOK
<1>1. Spec => []Typed
  BY TypedInit, TypedStep, PTL DEF Spec
<1> QED BY <1>1, PTL DEF Typed

-----------------------------------------------------------------------------
(* The cache.                                                              *)

\* Who is dialing holds the mutex of its service, which has no connection.
Mutex == \A c \in Callers : pc[c] \in Within => lock[want[c]] = c /\ cached[want[c]] = 0

\* Every connection is the cached one of its service.
OnlyCached ==
  /\ \A s \in Services : cached[s] # 0 => conns[cached[s]].service = s
  /\ \A i \in 1..Len(conns) : cached[conns[i].service] = i

Cached == Typed /\ Mutex /\ OnlyCached /\ GotIsCached

LEMMA CachedInit == Init => Cached
<1> SUFFICES ASSUME Init PROVE Cached
  OBVIOUS
<1>1. Mutex /\ GotIsCached
  BY DEF Init, Mutex, Within, GotIsCached
<1>2. OnlyCached
  BY DEF Init, OnlyCached
<1> QED BY <1>1, <1>2, TypedInit DEF Cached

LEMMA CallerTyped ==
  ASSUME Typed, NEW c \in Callers
  PROVE  /\ pc \in [Callers -> States] /\ want \in [Callers -> Services \cup {"none"}]
         /\ lock \in [Services -> Callers \cup {"free"}]
         /\ pc[c] # "idle" => want[c] \in Services
BY DEF Typed, TypeOK, States, Known

LEMMA NumbersTyped ==
  ASSUME Typed
  PROVE  /\ got \in [Callers -> 0..Len(conns)] /\ cached \in [Services -> 0..Len(conns)]
         /\ Len(conns) \in Nat
BY ConnsTyped DEF Typed, TypeOK

\* The actions that leave the connections alone, by what they do to the caller.
Moves(c) ==
  /\ UNCHANGED <<cached, conns>>
  /\ \/ /\ pc[c] \in {"idle", "wait"} /\ want'[c] \in Services /\ want' = [want EXCEPT ![c] = want'[c]]
        /\ \/ /\ pc' = [pc EXCEPT ![c] = "wait"] /\ UNCHANGED <<lock, got>>
           \/ /\ pc' = [pc EXCEPT ![c] = "done"] /\ cached[want'[c]] # 0 /\ UNCHANGED lock
              /\ got' = [got EXCEPT ![c] = cached[want'[c]]]
           \/ /\ pc' = [pc EXCEPT ![c] = "resolve"] /\ UNCHANGED got
              /\ lock[want'[c]] = "free" /\ lock' = [lock EXCEPT ![want'[c]] = c] /\ cached[want'[c]] = 0
     \/ /\ pc[c] \in Within /\ UNCHANGED <<want, got>>
        /\ \/ pc' = [pc EXCEPT ![c] = "failed"] /\ lock' = [lock EXCEPT ![want[c]] = "free"]
           \/ UNCHANGED lock /\ \E x \in Within : pc' = [pc EXCEPT ![c] = x]
     \/ UNCHANGED <<pc, want, got, lock>>

LEMMA StepMoves ==
  ASSUME Typed, NEW c \in Callers,
         (CallerStep(c) /\ ~DialDone(c)) \/ \E s \in Services : GetConn(c, s)
  PROVE  Moves(c)
<1> USE CallerTyped DEF Moves, Within, callVars, cacheVars, regVars, dialVars
<1>1. ASSUME NEW s \in Services, GetConn(c, s) PROVE Moves(c)
  BY <1>1 DEF GetConn, Return
<1>2. CASE LockAndLook(c)
  <2>1. want[c] \in Services /\ want' = [want EXCEPT ![c] = want'[c]] /\ want' = want
    BY <1>2 DEF LockAndLook
  <2> QED BY <1>2, <2>1 DEF LockAndLook, Return
<1>3. CASE FindScheme(c)        BY <1>3 DEF FindScheme
<1>4. CASE Register(c)          BY <1>4 DEF Register
<1>5. CASE FindBuilder(c)       BY <1>5 DEF FindBuilder
<1>6. CASE FindBuilderRaces(c)  BY <1>6 DEF FindBuilderRaces
<1>7. CASE Build(c)             BY <1>7 DEF Build
<1>8. CASE DialFails(c)         BY <1>8 DEF DialFails
<1> QED BY <1>1, <1>2, <1>3, <1>4, <1>5, <1>6, <1>7, <1>8 DEF CallerStep

LEMMA MovesCached ==
  ASSUME Cached, NEW c \in Callers, Moves(c)
  PROVE  Mutex' /\ OnlyCached' /\ GotIsCached'
<1>1. /\ pc \in [Callers -> States] /\ want \in [Callers -> Services \cup {"none"}]
      /\ lock \in [Services -> Callers \cup {"free"}] /\ got \in [Callers -> 0..Len(conns)]
      /\ \A d \in Callers : pc[d] # "idle" => want[d] \in Services
  BY CallerTyped, NumbersTyped DEF Cached
<1>2. OnlyCached'
  BY DEF Cached, OnlyCached, Moves
<1>3. Mutex'
  <2> SUFFICES ASSUME NEW d \in Callers, pc'[d] \in Within
               PROVE  lock'[want'[d]] = d /\ cached'[want'[d]] = 0
    BY DEF Mutex
  <2>1. CASE d = c
    BY <1>1, <2>1 DEF Cached, Mutex, Moves, Within
  <2>2. CASE d # c
    <3>1. pc'[d] = pc[d] /\ want'[d] = want[d] /\ cached' = cached /\ want[d] \in Services
      BY <1>1, <2>2 DEF Moves, Within
    <3>2. lock[want[d]] = d /\ cached[want[d]] = 0 /\ d # "free"
      BY <3>1, ServicesTyped DEF Cached, Mutex
    <3>3. lock'[want[d]] = d
      BY <1>1, <2>2, <3>1, <3>2 DEF Moves, Cached, Mutex
    <3> QED BY <3>1, <3>2, <3>3
  <2> QED BY <2>1, <2>2
<1>4. GotIsCached'
  BY <1>1 DEF Cached, GotIsCached, Moves, Within
<1> QED BY <1>2, <1>3, <1>4

\* What DialDone and Watch do to the connections.
LEMMA DialDoneAppends ==
  ASSUME Typed, NEW c \in Callers, DialDone(c)
  PROVE  /\ want[c] \in Services /\ Len(conns') = Len(conns) + 1
         /\ conns'[Len(conns) + 1] = NewConn(want[c], found[c])
         /\ \A i \in 1..Len(conns) : conns'[i] = conns[i] /\ conns[i].service \in Services
<1>1. TypeOK /\ want[c] \in Services /\ found[c] \in 1..Len(builders)
  <2>1. TypeOK /\ Known(c) /\ pc[c] = "query" /\ Len(builders) \in Nat
    BY BuildersTyped DEF Typed, DialDone
  <2>2. found[c] \in 0..Len(builders)
    BY <2>1 DEF TypeOK
  <2>3. want[c] \in Services /\ found[c] # 0
    BY <2>1 DEF Known
  <2> QED BY <2>1, <2>2, <2>3
<1>2. NewConn(want[c], found[c]) \in Conn(Len(builders)) /\ conns' = Append(conns, NewConn(want[c], found[c]))
  BY <1>1, ResolveTyped DEF DialDone
<1>3. \A i \in 1..Len(conns) : conns[i] \in Conn(Len(builders)) /\ conns[i].service \in Services
  BY <1>1, ConnsTyped DEF Conn
<1> QED BY <1>1, <1>2, <1>3, ConnsTyped, AppendProperties

LEMMA WatchKeeps ==
  ASSUME Typed, NEW i \in DOMAIN conns, Watch(i)
  PROVE  /\ Len(conns') = Len(conns)
         /\ \A j \in 1..Len(conns) : conns'[j].service = conns[j].service /\ conns[j].service \in Services
         /\ UNCHANGED <<pc, want, got, lock, cached>>
<1>1. TypeOK /\ i \in 1..Len(conns) /\ conns[i] \in Conn(Len(builders))
  BY ConnsTyped, LenProperties DEF Typed
<1>2. [conns[i] EXCEPT !.addrs = Resolve(conns[i].builder).addrs] \in Conn(Len(builders))
  BY <1>1, ResolveTyped DEF Conn
<1>3. /\ conns' = [conns EXCEPT ![i] = [conns[i] EXCEPT !.addrs = Resolve(conns[i].builder).addrs]]
      /\ UNCHANGED <<pc, want, got, lock, cached>>
  BY DEF Watch, callVars, cacheVars
<1>4. /\ Len(conns') = Len(conns)
      /\ \A j \in 1..Len(conns) :
            conns'[j] = IF j = i THEN [conns[i] EXCEPT !.addrs = Resolve(conns[i].builder).addrs] ELSE conns[j]
  BY <1>1, <1>2, <1>3, ConnsTyped, ExceptSeq
<1>5. \A j \in 1..Len(conns) : conns[j] \in Conn(Len(builders))
  BY <1>1, ConnsTyped
<1> QED BY <1>1, <1>3, <1>4, <1>5 DEF Conn

LEMMA DoneCached ==
  ASSUME Cached, NEW c \in Callers, DialDone(c)
  PROVE  Mutex' /\ OnlyCached' /\ GotIsCached'
<1>1. /\ pc \in [Callers -> States] /\ want \in [Callers -> Services \cup {"none"}]
      /\ lock \in [Services -> Callers \cup {"free"}] /\ got \in [Callers -> 0..Len(conns)]
      /\ cached \in [Services -> 0..Len(conns)] /\ Len(conns) \in Nat
      /\ \A d \in Callers : pc[d] # "idle" => want[d] \in Services
  BY CallerTyped, NumbersTyped DEF Cached
<1>2. /\ pc[c] = "query" /\ lock[want[c]] = c /\ cached[want[c]] = 0
      /\ pc' = [pc EXCEPT ![c] = "done"] /\ got' = [got EXCEPT ![c] = Len(conns')]
      /\ cached' = [cached EXCEPT ![want[c]] = Len(conns')]
      /\ lock' = [lock EXCEPT ![want[c]] = "free"] /\ want' = want
  BY DEF DialDone, Return, Cached, Mutex, Within
<1>3. /\ want[c] \in Services /\ Len(conns') = Len(conns) + 1
      /\ conns'[Len(conns) + 1].service = want[c]
      /\ \A i \in 1..Len(conns) : conns'[i] = conns[i] /\ conns[i].service \in Services
  <2>1. Typed
    BY DEF Cached
  <2>2. NewConn(want[c], found[c]).service = want[c]
    BY DEF NewConn
  <2> QED BY <2>1, <2>2, DialDoneAppends
<1>4. Mutex'
  <2> SUFFICES ASSUME NEW d \in Callers, pc'[d] \in Within
               PROVE  lock'[want'[d]] = d /\ cached'[want'[d]] = 0
    BY DEF Mutex
  <2>1. d # c /\ pc[d] \in Within /\ want[d] \in Services
    BY <1>1, <1>2 DEF Within
  <2>2. lock[want[d]] = d /\ cached[want[d]] = 0
    BY <2>1 DEF Cached, Mutex
  <2> QED BY <1>1, <1>2, <2>1, <2>2
<1>5. OnlyCached'
  <2>1. ASSUME NEW s \in Services, cached'[s] # 0 PROVE conns'[cached'[s]].service = s
    <3>1. CASE s = want[c]
      BY <1>1, <1>2, <1>3, <3>1
    <3>2. CASE s # want[c]
      <4>1. cached'[s] = cached[s] /\ cached[s] # 0
        BY <1>1, <1>2, <2>1, <3>2
      <4>2. cached[s] \in 1..Len(conns) /\ conns[cached[s]].service = s
        BY <1>1, <4>1 DEF Cached, OnlyCached
      <4> QED BY <1>3, <4>1, <4>2
    <3> QED BY <3>1, <3>2
  <2>2. ASSUME NEW i \in 1..Len(conns') PROVE cached'[conns'[i].service] = i
    <3>1. CASE i = Len(conns) + 1
      BY <1>1, <1>2, <1>3, <3>1
    <3>2. CASE i \in 1..Len(conns)
      <4>1. cached[conns[i].service] = i /\ i # 0
        BY <3>2 DEF Cached, OnlyCached
      <4> QED BY <1>1, <1>2, <1>3, <3>2, <4>1
    <3> QED BY <1>1, <1>3, <3>1, <3>2
  <2> QED BY <2>1, <2>2 DEF OnlyCached
<1>6. GotIsCached'
  <2> SUFFICES ASSUME NEW d \in Callers, pc'[d] = "done"
               PROVE  got'[d] # 0 /\ got'[d] = cached'[want'[d]]
    BY DEF GotIsCached
  <2>1. CASE d = c
    BY <1>1, <1>2, <1>3, <2>1
  <2>2. CASE d # c
    <3>1. pc[d] = "done" /\ got'[d] = got[d] /\ got[d] # 0 /\ got[d] = cached[want[d]] /\ want[d] \in Services
      BY <1>1, <1>2, <2>2 DEF Cached, GotIsCached
    <3> QED BY <1>1, <1>2, <3>1
  <2> QED BY <2>1, <2>2
<1> QED BY <1>4, <1>5, <1>6

LEMMA WatchCached ==
  ASSUME Cached, NEW i \in DOMAIN conns, Watch(i)
  PROVE  Mutex' /\ OnlyCached' /\ GotIsCached'
<1>1. /\ cached \in [Services -> 0..Len(conns)] /\ Len(conns) \in Nat
  BY NumbersTyped DEF Cached
<1>2. /\ Len(conns') = Len(conns)
      /\ \A j \in 1..Len(conns) : conns'[j].service = conns[j].service
      /\ UNCHANGED <<pc, want, got, lock, cached>>
  BY WatchKeeps DEF Cached
<1>3. OnlyCached'
  BY <1>1, <1>2 DEF Cached, OnlyCached
<1> QED BY <1>2, <1>3 DEF Cached, Mutex, GotIsCached

LEMMA CachedStep == Cached /\ [Next]_vars => Cached'
<1> SUFFICES ASSUME Cached, [Next]_vars PROVE Mutex' /\ OnlyCached' /\ GotIsCached'
  BY TypedStep DEF Cached
<1>1. CASE UNCHANGED vars
  BY <1>1 DEF vars, callVars, cacheVars, dialVars, Cached, Mutex, OnlyCached, GotIsCached
<1>2. CASE Next
  BY <1>2, StepMoves, MovesCached, DoneCached, WatchCached DEF Next, CallerStep, Cached
<1> QED BY <1>1, <1>2

LEMMA CachedAlways == Spec => []Cached
BY CachedInit, CachedStep, PTL DEF Spec

\* Whoever GetConnWithAuth answers, before, during or after a dial, has the one
\* connection of the service it asked for.
THEOREM OneForAll == Spec => []GotIsCached
<1>1. Cached => GotIsCached
  BY DEF Cached
<1> QED BY <1>1, CachedAlways, PTL

-----------------------------------------------------------------------------
(* GrpcConn implements DialOnce.                                           *)

MadeFor == {conns[i].service : i \in DOMAIN conns}
GotFrom == [c \in Callers |-> IF pc[c] = "done" THEN conns[got[c]].service
                              ELSE IF pc[c] = "failed" THEN "error" ELSE "none"]

LEMMA MadeIsCached ==
  ASSUME Cached
  PROVE  /\ DOMAIN conns = 1..Len(conns)
         /\ \A s \in Services : s \in MadeFor <=> cached[s] # 0
<1>1. /\ cached \in [Services -> 0..Len(conns)] /\ Len(conns) \in Nat
  BY NumbersTyped DEF Cached
<1>2. DOMAIN conns = 1..Len(conns)
  BY ConnsTyped, LenProperties DEF Cached, Typed
<1> QED BY <1>1, <1>2 DEF MadeFor, Cached, OnlyCached

LEMMA AbstractInit == Init => Abstract!Init
<1> SUFFICES ASSUME Init PROVE Abstract!Init
  OBVIOUS
<1>1. conns = <<>> /\ DOMAIN conns = {} /\ Len(conns) = 0 /\ pc = [c \in Callers |-> "idle"]
  BY DEF Init
<1> QED BY <1>1 DEF Abstract!Init

\* A caller that moves takes the cached connection, fails, or stutters.
LEMMA AbstractMove ==
  ASSUME Cached, NEW c \in Callers, Moves(c)
  PROVE  Abstract!Next \/ UNCHANGED Abstract!vars
<1>1. /\ pc \in [Callers -> States] /\ got \in [Callers -> 0..Len(conns)]
  BY CallerTyped, NumbersTyped DEF Cached
<1>2. conns' = conns /\ cached' = cached
  BY DEF Moves
<1>3. MadeFor' = MadeFor /\ Len(conns') = Len(conns)
  BY <1>2 DEF MadeFor
<1>4. CASE pc[c] \in {"idle", "wait"} /\ pc' = [pc EXCEPT ![c] = "done"] /\ want'[c] \in Services
           /\ cached[want'[c]] # 0 /\ got' = [got EXCEPT ![c] = cached[want'[c]]]
  <2> DEFINE s == want'[c]
  <2>1. GotFrom[c] = "none" /\ s \in MadeFor
    BY <1>1, <1>4, MadeIsCached DEF GotFrom
  <2>2. conns[cached[s]].service = s
    BY <1>4 DEF Cached, OnlyCached
  <2>3. GotFrom' = [GotFrom EXCEPT ![c] = s]
    BY <1>1, <1>2, <1>4, <2>2 DEF GotFrom
  <2>4. Abstract!Take(c, s)
    BY <1>3, <2>1, <2>3 DEF Abstract!Take, MadeFor, GotFrom
  <2>5. s \in Services
    BY <1>4
  <2> QED BY <2>4, <2>5 DEF Abstract!Next, Abstract!Take
<1>5. CASE pc[c] \in Within /\ got' = got /\ pc' = [pc EXCEPT ![c] = "failed"]
  <2>1. GotFrom[c] = "none"
    BY <1>1, <1>5 DEF GotFrom, Within
  <2>2. GotFrom' = [GotFrom EXCEPT ![c] = "error"]
    BY <1>1, <1>2, <1>5 DEF GotFrom
  <2>3. Abstract!Fail(c)
    BY <1>3, <2>1, <2>2 DEF Abstract!Fail, MadeFor, GotFrom
  <2> QED BY <2>3 DEF Abstract!Next
<1>6. CASE got' = got /\ (pc' = pc \/ (pc[c] \in Within \cup {"idle", "wait"}
                                     /\ \E x \in Within \cup {"wait"} : pc' = [pc EXCEPT ![c] = x]))
  <2>1. GotFrom' = GotFrom
    BY <1>1, <1>2, <1>6 DEF GotFrom, Within
  <2> QED BY <1>3, <2>1 DEF Abstract!vars, MadeFor, GotFrom
<1> QED BY <1>4, <1>5, <1>6 DEF Moves, Within

\* The dial that succeeds makes the service's first connection.
LEMMA AbstractDone ==
  ASSUME Cached, NEW c \in Callers, DialDone(c)
  PROVE  Abstract!Next
<1>1. /\ pc \in [Callers -> States] /\ got \in [Callers -> 0..Len(conns)] /\ Len(conns) \in Nat
  BY CallerTyped, NumbersTyped DEF Cached
<1>2. /\ pc[c] = "query" /\ cached[want[c]] = 0
      /\ pc' = [pc EXCEPT ![c] = "done"] /\ got' = [got EXCEPT ![c] = Len(conns')]
  BY DEF DialDone, Return, Cached, Mutex, Within
<1>3. /\ want[c] \in Services /\ Len(conns') = Len(conns) + 1
      /\ conns'[Len(conns) + 1].service = want[c]
      /\ \A i \in 1..Len(conns) : conns'[i] = conns[i]
  <2>1. NewConn(want[c], found[c]).service = want[c]
    BY DEF NewConn
  <2> QED BY <2>1, DialDoneAppends DEF Cached
<1>4. DOMAIN conns = 1..Len(conns) /\ DOMAIN conns' = 1..Len(conns) + 1
  <2>1. TypeOK'
    BY TypedDone DEF Cached, Typed
  <2>2. conns' \in Seq(Conn(Len(builders'))) /\ DOMAIN conns' = 1..Len(conns')
    BY <2>1, ConnsTyped, LenProperties DEF TypeOK, Conn
  <2> QED BY <1>3, <2>2, MadeIsCached
<1>5. want[c] \notin MadeFor /\ MadeFor' = MadeFor \cup {want[c]}
  <2>1. want[c] \notin MadeFor
    BY <1>2, <1>3, MadeIsCached
  <2>2. \A i \in 1..Len(conns) + 1 : i \in 1..Len(conns) \/ i = Len(conns) + 1
    BY <1>1
  <2>3. \A i \in 1..Len(conns) : i \in 1..Len(conns) + 1
    BY <1>1
  <2>4. Len(conns) + 1 \in 1..Len(conns) + 1
    BY <1>1
  <2> QED BY <1>3, <1>4, <2>1, <2>2, <2>3, <2>4 DEF MadeFor
<1>6. GotFrom[c] = "none" /\ GotFrom' = [GotFrom EXCEPT ![c] = want[c]]
  <2>1. GotFrom[c] = "none"
    BY <1>1, <1>2 DEF GotFrom
  <2>2. ASSUME NEW d \in Callers PROVE GotFrom'[d] = IF d = c THEN want[c] ELSE GotFrom[d]
    <3>1. CASE d = c
      BY <1>1, <1>2, <1>3, <3>1 DEF GotFrom
    <3>2. CASE d # c /\ pc[d] = "done"
      <4>1. got[d] \in 1..Len(conns)
        BY <1>1, <3>2 DEF Cached, GotIsCached
      <4> QED BY <1>1, <1>2, <1>3, <3>2, <4>1 DEF GotFrom
    <3>3. CASE d # c /\ pc[d] # "done"
      BY <1>1, <1>2, <3>3 DEF GotFrom
    <3> QED BY <3>1, <3>2, <3>3
  <2> QED BY <2>1, <2>2 DEF GotFrom
<1>7. Abstract!Make(c, want[c])
  BY <1>3, <1>5, <1>6 DEF Abstract!Make, MadeFor, GotFrom
<1> QED BY <1>3, <1>7 DEF Abstract!Next, Abstract!Make

\* The watchers change addresses only.
LEMMA AbstractWatch ==
  ASSUME Cached, NEW i \in DOMAIN conns, Watch(i)
  PROVE  UNCHANGED Abstract!vars
<1>1. /\ Len(conns') = Len(conns)
      /\ \A j \in 1..Len(conns) : conns'[j].service = conns[j].service
      /\ UNCHANGED <<pc, want, got, lock, cached>>
  BY WatchKeeps DEF Cached
<1>2. DOMAIN conns = 1..Len(conns) /\ DOMAIN conns' = 1..Len(conns)
  <2>1. TypeOK'
    BY TypedWatch DEF Cached, Typed
  <2>2. conns' \in Seq(Conn(Len(builders'))) /\ DOMAIN conns' = 1..Len(conns')
    BY <2>1, ConnsTyped, LenProperties DEF TypeOK, Conn
  <2> QED BY <1>1, <2>2, MadeIsCached
<1>3. MadeFor' = MadeFor
  BY <1>1, <1>2 DEF MadeFor
<1>4. GotFrom' = GotFrom
  <2>1. \A c \in Callers : pc[c] = "done" => got[c] \in 1..Len(conns)
    BY NumbersTyped DEF Cached, GotIsCached
  <2> QED BY <1>1, <2>1 DEF GotFrom
<1> QED BY <1>1, <1>3, <1>4 DEF Abstract!vars, MadeFor, GotFrom

LEMMA AbstractStep == Cached /\ [Next]_vars => [Abstract!Next]_(Abstract!vars)
<1> SUFFICES ASSUME Cached, [Next]_vars PROVE Abstract!Next \/ UNCHANGED Abstract!vars
  OBVIOUS
<1>1. CASE UNCHANGED vars
  BY <1>1 DEF vars, callVars, dialVars, Abstract!vars
<1>2. CASE Next
  BY <1>2, StepMoves, AbstractMove, AbstractDone, AbstractWatch DEF Next, CallerStep, Cached
<1> QED BY <1>1, <1>2

\* However the first calls for a service overlap and fail, it is dialed
\* successfully once, and every other call gets that connection or an error
\* (GetConnWithAuth).
THEOREM ConnectsOnce == Spec => DialsOnce
<1>1. Cached /\ [Next]_vars => [Abstract!Next]_(Abstract!vars)
  BY AbstractStep
<1> QED BY <1>1, AbstractInit, CachedAlways, PTL DEF Spec, DialsOnce, Abstract!Spec

-----------------------------------------------------------------------------
(* Whose addresses a connection has.                                       *)

\* Builders are found under the scheme of their own service; a consul builder
\* under that of any.
Registered ==
  /\ \A s \in Static : registry[s] # 0 => builders[registry[s]].for = s
  /\ registry["consul"] # 0 => builders[registry["consul"]].for \in Consul

\* A builder resolves its own service, and a consul one at least until a swap.
OwnName ==
  \A b \in 1..Len(builders) : builders[b].for \in Static \/ ~swapped => builders[b].name = builders[b].for

\* What a caller registered, and what its dial found.
OwnBuilder ==
  \A c \in Callers :
    /\ pc[c] = "dial" /\ want[c] \in Consul => made[c] # 0 /\ builders[made[c]].for = want[c]
    /\ pc[c] \in {"build", "query"} =>
         /\ want[c] \in Consul => builders[found[c]].for \in Consul
         /\ want[c] \in Static \/ ~swapped => builders[found[c]].for = want[c]

\* What a connection was made with, and what it has.
OwnConns ==
  \A i \in 1..Len(conns) :
    conns[i].service \in Static \/ ~swapped =>
      /\ builders[conns[i].builder].for = conns[i].service
      /\ conns[i].tag = conns[i].service /\ conns[i].addrs = conns[i].service

Named == Registered /\ OwnName /\ OwnBuilder /\ OwnConns

LEMMA NamedInit == Init => Named
<1> SUFFICES ASSUME Init PROVE Named
  OBVIOUS
<1>1. Registered
  BY ServicesTyped DEF Init, Registered, Schemes
<1>2. OwnBuilder
  BY DEF Init, OwnBuilder
<1>3. OwnName /\ OwnConns
  BY DEF Init, OwnName, OwnConns
<1> QED BY <1>1, <1>2, <1>3 DEF Named

\* The ranges that the steps below need.
LEMMA Ranges ==
  ASSUME Typed
  PROVE  /\ pc \in [Callers -> States] /\ want \in [Callers -> Services \cup {"none"}]
         /\ registry \in [Schemes -> 0..Len(builders)] /\ Len(builders) \in Nat
         /\ found \in [Callers -> 0..Len(builders)] /\ made \in [Callers -> 0..Len(builders)]
         /\ \A c \in Callers : pc[c] \in {"build", "query"} => found[c] \in 1..Len(builders)
         /\ \A c \in Callers : pc[c] # "idle" => want[c] \in Services
<1>1. /\ pc \in [Callers -> States] /\ want \in [Callers -> Services \cup {"none"}]
      /\ registry \in [Schemes -> 0..Len(builders)]
      /\ found \in [Callers -> 0..Len(builders)] /\ made \in [Callers -> 0..Len(builders)]
  BY DEF Typed, TypeOK, States
<1>2. Len(builders) \in Nat
  BY BuildersTyped DEF Typed
<1>3. ASSUME NEW c \in Callers, pc[c] \in {"build", "query"} PROVE found[c] \in 1..Len(builders)
  <2>1. found[c] # 0
    BY <1>3 DEF Typed, Known
  <2> QED BY <1>1, <1>2, <2>1
<1>4. ASSUME NEW c \in Callers, pc[c] # "idle" PROVE want[c] \in Services
  BY <1>4 DEF Typed, Known
<1> QED BY <1>1, <1>2, <1>3, <1>4

LEMMA ConnRanges ==
  ASSUME Typed
  PROVE  \A i \in 1..Len(conns) : /\ conns[i].builder \in 1..Len(builders)
                                  /\ conns[i].service \in Services
BY ConnsTyped DEF Typed, Conn

\* Steps that only move a caller, but not to "dial".
LEMMA NamedQuiet ==
  ASSUME Typed, Named, UNCHANGED <<registry, builders, found, made, conns, swapped>>,
         NEW c \in Callers,
         \A d \in Callers \ {c} : pc'[d] = pc[d] /\ want'[d] = want[d],
         pc'[c] \notin {"dial", "build", "query"} \/ (pc'[c] = pc[c] /\ want'[c] = want[c])
  PROVE  Named'
<1>1. OwnBuilder'
  BY DEF Named, OwnBuilder
<1> QED BY <1>1 DEF Named, Registered, OwnName, OwnConns

LEMMA NamedRegister ==
  ASSUME Typed, Named, NEW c \in Callers, Register(c)
  PROVE  Named'
<1> DEFINE b == [for |-> want[c], name |-> want[c]]
           n == Len(builders) + 1
<1>1. want[c] \in Services /\ pc[c] = "register" /\ builders \in Seq(Builder) /\ Len(builders) \in Nat
  BY Ranges, BuildersTyped DEF Register, Typed
<1>2. /\ Len(builders') = n /\ builders'[n] = b
      /\ \A i \in 1..Len(builders) : builders'[i] = builders[i]
  <2>1. b \in Builder /\ builders' = Append(builders, b)
    BY <1>1 DEF Builder, Register
  <2> QED BY <1>1, <2>1, AppendProperties
<1>3. b.for = want[c] /\ b.name = want[c]
  OBVIOUS
<1> HIDE DEF b
<1>4. /\ registry' = [registry EXCEPT ![RegisteredAs(want[c])] = n] /\ made' = [made EXCEPT ![c] = n]
      /\ pc' = [pc EXCEPT ![c] = "dial"] /\ UNCHANGED <<want, found, conns, swapped>>
  BY <1>2 DEF Register, cacheVars
<1>5. RegisteredAs(want[c]) \in Schemes /\ n # 0 /\ n \notin 1..Len(builders)
  BY <1>1, ServicesTyped
<1>6. Registered'
  <2>1. ASSUME NEW s \in Static, registry'[s] # 0 PROVE builders'[registry'[s]].for = s
    <3>1. CASE want[c] = s
      BY <1>2, <1>3, <1>4, <1>5, <3>1, Ranges DEF RegisteredAs
    <3>2. CASE want[c] # s
      <4>1. s \in Schemes /\ registry'[s] = registry[s] /\ registry[s] \in 1..Len(builders)
        BY <1>4, <2>1, <3>2, Ranges, ServicesTyped DEF RegisteredAs, Schemes
      <4> QED BY <1>2, <2>1, <4>1 DEF Named, Registered
    <3> QED BY <3>1, <3>2
  <2>2. ASSUME registry'["consul"] # 0 PROVE builders'[registry'["consul"]].for \in Consul
    <3>1. CASE want[c] \in Consul
      BY <1>2, <1>3, <1>4, <1>5, <3>1, Ranges, ServicesTyped DEF RegisteredAs
    <3>2. CASE want[c] \in Static
      <4>1. registry'["consul"] = registry["consul"] /\ registry["consul"] \in 1..Len(builders)
        BY <1>1, <1>4, <2>2, <3>2, Ranges, ServicesTyped DEF RegisteredAs
      <4> QED BY <1>2, <2>2, <4>1 DEF Named, Registered
    <3> QED BY <1>1, <3>1, <3>2 DEF Services
  <2> QED BY <2>1, <2>2 DEF Registered
<1>7. OwnName'
  <2> SUFFICES ASSUME NEW i \in 1..n, builders'[i].for \in Static \/ ~swapped
               PROVE  builders'[i].name = builders'[i].for
    BY <1>2, <1>4 DEF OwnName
  <2>1. i = n \/ i \in 1..Len(builders)
    BY <1>1
  <2> QED BY <1>2, <1>3, <2>1 DEF Named, OwnName
<1>8. OwnBuilder'
  <2> SUFFICES ASSUME NEW d \in Callers
               PROVE  /\ pc'[d] = "dial" /\ want[d] \in Consul => made'[d] # 0 /\ builders'[made'[d]].for = want[d]
                      /\ pc'[d] \in {"build", "query"} =>
                           /\ want[d] \in Consul => builders'[found[d]].for \in Consul
                           /\ want[d] \in Static \/ ~swapped => builders'[found[d]].for = want[d]
    BY <1>4 DEF OwnBuilder
  <2>1. CASE d = c
    BY <1>2, <1>3, <1>4, <1>5, <2>1, Ranges
  <2>2. CASE d # c
    <3>1. pc'[d] = pc[d] /\ made'[d] = made[d]
      BY <1>4, <2>2, Ranges
    <3>2. pc[d] \in {"build", "query"} => found[d] \in 1..Len(builders)
      BY Ranges
    <3>3. made[d] # 0 => made[d] \in 1..Len(builders)
      BY Ranges
    <3> QED BY <1>2, <3>1, <3>2, <3>3 DEF Named, OwnBuilder
  <2> QED BY <2>1, <2>2
<1>9. OwnConns'
  BY <1>2, <1>4, ConnRanges DEF Named, OwnConns
<1> QED BY <1>6, <1>7, <1>8, <1>9 DEF Named

LEMMA NamedFind ==
  ASSUME Typed, Named, NEW c \in Callers, FindBuilder(c)
  PROVE  Named'
<1>1. /\ pc[c] = "dial" /\ want[c] \in Services /\ RegisteredAs(want[c]) \in Schemes
      /\ registry[RegisteredAs(want[c])] # 0
  BY Ranges, ServicesTyped DEF FindBuilder, Typed, Known
<1>2. /\ pc' = [pc EXCEPT ![c] = "build"] /\ found' = [found EXCEPT ![c] = registry[RegisteredAs(want[c])]]
      /\ (swapped' <=> swapped \/ (made[c] # 0 /\ found'[c] # made[c]))
      /\ UNCHANGED <<want, registry, builders, made, conns>>
  BY DEF FindBuilder, cacheVars, regVars
<1>3. found'[c] = registry[RegisteredAs(want[c])]
  BY <1>2, Ranges
<1>4. want[c] \in Static => builders[found'[c]].for = want[c]
  BY <1>1, <1>3, ServicesTyped DEF Named, Registered, RegisteredAs
<1>5. want[c] \in Consul => /\ builders[found'[c]].for \in Consul
                            /\ ~swapped' => builders[found'[c]].for = want[c]
  BY <1>1, <1>2, <1>3, ServicesTyped DEF Named, Registered, OwnBuilder, RegisteredAs
<1>6. OwnBuilder'
  <2> SUFFICES ASSUME NEW d \in Callers
               PROVE  /\ pc'[d] = "dial" /\ want[d] \in Consul => made[d] # 0 /\ builders[made[d]].for = want[d]
                      /\ pc'[d] \in {"build", "query"} =>
                           /\ want[d] \in Consul => builders[found'[d]].for \in Consul
                           /\ want[d] \in Static \/ ~swapped' => builders[found'[d]].for = want[d]
    BY <1>2 DEF OwnBuilder
  <2>1. CASE d = c
    BY <1>1, <1>2, <1>4, <1>5, <2>1, Ranges DEF Services
  <2>2. CASE d # c
    <3>1. pc'[d] = pc[d] /\ found'[d] = found[d]
      BY <1>2, <2>2, Ranges
    <3> QED BY <1>2, <3>1 DEF Named, OwnBuilder
  <2> QED BY <2>1, <2>2
<1> QED BY <1>2, <1>6 DEF Named, Registered, OwnName, OwnConns

LEMMA NamedBuild ==
  ASSUME Typed, Named, NEW c \in Callers, Build(c)
  PROVE  Named'
<1>1. /\ pc[c] = "build" /\ want[c] \in Services /\ found[c] \in 1..Len(builders)
      /\ builders[found[c]] \in Builder /\ builders \in Seq(Builder)
  BY Ranges, BuildersTyped DEF Build, Typed
<1>2. /\ pc' = [pc EXCEPT ![c] = "query"]
      /\ UNCHANGED <<want, registry, made, found, conns, swapped>>
  BY DEF Build, regVars
<1>3. /\ Len(builders') = Len(builders)
      /\ \A b \in 1..Len(builders) :
           /\ builders'[b].for = builders[b].for
           /\ builders'[b].name = builders[b].name \/ (b = found[c] /\ want[c] \in Consul /\ builders'[b].name = want[c])
  <2>1. CASE want[c] \in Static
    <3>1. builders' = builders
      BY <2>1 DEF Build
    <3> QED BY <3>1
  <2>2. CASE want[c] \notin Static
    <3> DEFINE e == [builders[found[c]] EXCEPT !.name = want[c]]
    <3>1. e \in Builder /\ e.for = builders[found[c]].for /\ e.name = want[c]
      BY <1>1 DEF Builder
    <3>2. builders' = [builders EXCEPT ![found[c]] = e]
      BY <2>2 DEF Build
    <3> HIDE DEF e
    <3>3. /\ Len(builders') = Len(builders)
          /\ \A b \in 1..Len(builders) : builders'[b] = IF b = found[c] THEN e ELSE builders[b]
      BY <1>1, <3>1, <3>2, ExceptSeq
    <3> QED BY <1>1, <2>2, <3>1, <3>3 DEF Services
  <2> QED BY <2>1, <2>2
<1>4. Registered'
  <2>1. ASSUME NEW s \in Static, registry[s] # 0 PROVE builders'[registry[s]].for = s
    <3>1. registry[s] \in 1..Len(builders)
      BY <2>1, Ranges DEF Schemes
    <3> QED BY <1>3, <2>1, <3>1 DEF Named, Registered
  <2>2. ASSUME registry["consul"] # 0 PROVE builders'[registry["consul"]].for \in Consul
    <3>1. registry["consul"] \in 1..Len(builders)
      BY <2>2, Ranges DEF Schemes
    <3> QED BY <1>3, <2>2, <3>1 DEF Named, Registered
  <2> QED BY <1>2, <2>1, <2>2 DEF Registered
<1>5. OwnName'
  <2> SUFFICES ASSUME NEW b \in 1..Len(builders), builders[b].for \in Static \/ ~swapped
               PROVE  builders'[b].name = builders[b].for
    BY <1>2, <1>3 DEF OwnName
  <2>1. builders[b].name = builders[b].for
    BY DEF Named, OwnName
  <2>2. b = found[c] /\ want[c] \in Consul => builders[b].for = want[c]
    BY <1>1, ServicesTyped DEF Named, OwnBuilder
  <2> QED BY <1>3, <2>1, <2>2
<1>6. OwnBuilder'
  <2> SUFFICES ASSUME NEW d \in Callers
               PROVE  /\ pc'[d] = "dial" /\ want[d] \in Consul => made[d] # 0 /\ builders'[made[d]].for = want[d]
                      /\ pc'[d] \in {"build", "query"} =>
                           /\ want[d] \in Consul => builders'[found[d]].for \in Consul
                           /\ want[d] \in Static \/ ~swapped => builders'[found[d]].for = want[d]
    BY <1>2 DEF OwnBuilder
  <2>1. /\ pc'[d] = "dial" => pc[d] = "dial"
        /\ pc'[d] \in {"build", "query"} => pc[d] \in {"build", "query"}
    BY <1>1, <1>2, Ranges
  <2>2. pc[d] \in {"build", "query"} => found[d] \in 1..Len(builders)
    BY Ranges
  <2>3. made[d] # 0 => made[d] \in 1..Len(builders)
    BY Ranges
  <2> QED BY <1>3, <2>1, <2>2, <2>3 DEF Named, OwnBuilder
<1>7. OwnConns'
  BY <1>2, <1>3, ConnRanges DEF Named, OwnConns
<1> QED BY <1>4, <1>5, <1>6, <1>7 DEF Named

LEMMA NamedDone ==
  ASSUME Typed, Named, NEW c \in Callers, DialDone(c)
  PROVE  Named'
<1>1. /\ pc[c] = "query" /\ want[c] \in Services /\ found[c] \in 1..Len(builders)
      /\ pc' = [pc EXCEPT ![c] = "done"]
      /\ UNCHANGED <<want, registry, made, builders, found, swapped>>
  BY Ranges DEF DialDone, Return, regVars
<1>2. OwnBuilder'
  BY <1>1, Ranges DEF Named, OwnBuilder
<1>3. OwnConns'
  <2> DEFINE new == NewConn(want[c], found[c])
  <2>1. /\ new.service = want[c] /\ new.builder = found[c]
        /\ new.tag = builders[found[c]].for /\ new.addrs = builders[found[c]].name
    BY DEF NewConn, Resolve
  <2>2. want[c] \in Static \/ ~swapped => builders[found[c]].for = want[c] /\ builders[found[c]].name = want[c]
    BY <1>1 DEF Named, OwnBuilder, OwnName
  <2>3. /\ Len(conns') = Len(conns) + 1 /\ conns'[Len(conns) + 1] = new
        /\ \A i \in 1..Len(conns) : conns'[i] = conns[i]
    BY DialDoneAppends
  <2> HIDE DEF new
  <2> SUFFICES ASSUME NEW i \in 1..Len(conns) + 1, conns'[i].service \in Static \/ ~swapped
               PROVE  /\ builders[conns'[i].builder].for = conns'[i].service
                      /\ conns'[i].tag = conns'[i].service /\ conns'[i].addrs = conns'[i].service
    BY <1>1, <2>3 DEF OwnConns
  <2>4. i = Len(conns) + 1 \/ i \in 1..Len(conns)
    BY ConnsTyped DEF Typed
  <2>5. CASE i = Len(conns) + 1
    BY <2>1, <2>2, <2>3, <2>5
  <2>6. CASE i \in 1..Len(conns)
    BY <2>3, <2>6 DEF Named, OwnConns
  <2> QED BY <2>4, <2>5, <2>6
<1> QED BY <1>1, <1>2, <1>3 DEF Named, Registered, OwnName

LEMMA NamedWatch ==
  ASSUME Typed, Named, NEW i \in DOMAIN conns, Watch(i)
  PROVE  Named'
<1>1. /\ i \in 1..Len(conns) /\ conns[i] \in Conn(Len(builders)) /\ conns[i].service \in Consul
      /\ conns[i].builder \in 1..Len(builders)
  BY ConnsTyped, ConnRanges, LenProperties DEF Typed, Watch
<1> DEFINE e == [conns[i] EXCEPT !.addrs = builders[conns[i].builder].name]
<1>2. /\ conns' = [conns EXCEPT ![i] = e]
      /\ UNCHANGED <<pc, want, registry, made, builders, found, swapped>>
  BY DEF Watch, Resolve, callVars, regVars
<1>3. /\ e \in Conn(Len(builders)) /\ e.service = conns[i].service /\ e.builder = conns[i].builder
      /\ e.tag = conns[i].tag /\ e.addrs = builders[conns[i].builder].name
  BY <1>1, ResolveTyped DEF Conn, Typed, Resolve
<1> HIDE DEF e
<1>4. /\ Len(conns') = Len(conns)
      /\ \A j \in 1..Len(conns) : conns'[j] = IF j = i THEN e ELSE conns[j]
  BY <1>1, <1>2, <1>3, ConnsTyped, ExceptSeq DEF Typed
<1>5. OwnConns'
  <2> SUFFICES ASSUME NEW j \in 1..Len(conns), conns'[j].service \in Static \/ ~swapped
               PROVE  /\ builders[conns'[j].builder].for = conns'[j].service
                      /\ conns'[j].tag = conns'[j].service /\ conns'[j].addrs = conns'[j].service
    BY <1>2, <1>4 DEF OwnConns
  <2>1. CASE j # i
    BY <1>4, <2>1 DEF Named, OwnConns
  <2>2. CASE j = i
    <3>1. ~swapped
      BY <1>1, <1>3, <1>4, <2>2, ServicesTyped
    <3>2. /\ builders[conns[i].builder].for = conns[i].service /\ conns[i].tag = conns[i].service
          /\ builders[conns[i].builder].name = builders[conns[i].builder].for
      BY <1>1, <3>1 DEF Named, OwnConns, OwnName
    <3> QED BY <1>1, <1>3, <1>4, <2>2, <3>2
  <2> QED BY <2>1, <2>2
<1> QED BY <1>2, <1>5 DEF Named, Registered, OwnName, OwnBuilder

LEMMA NamedStep == Typed /\ Named /\ [Next]_vars => Named'
<1> SUFFICES ASSUME Typed, Named, [Next]_vars PROVE Named'
  OBVIOUS
<1>1. CASE UNCHANGED vars
  BY <1>1 DEF vars, callVars, cacheVars, regVars, dialVars, Named, Registered, OwnName, OwnBuilder, OwnConns
<1>2. ASSUME NEW c \in Callers,
             (\E s \in Services : GetConn(c, s)) \/ LockAndLook(c) \/ FindBuilderRaces(c) \/ DialFails(c)
      PROVE  Named'
  <2>1. UNCHANGED <<registry, builders, found, made, conns, swapped>>
    BY <1>2 DEF GetConn, LockAndLook, FindBuilderRaces, DialFails, regVars, dialVars
  <2>2. /\ \A d \in Callers \ {c} : pc'[d] = pc[d] /\ want'[d] = want[d]
        /\ pc'[c] \notin {"dial", "build", "query"} \/ (pc'[c] = pc[c] /\ want'[c] = want[c])
    BY <1>2, Ranges DEF GetConn, LockAndLook, FindBuilderRaces, DialFails, Return, callVars
  <2> QED BY <2>1, <2>2, NamedQuiet
<1>3. ASSUME NEW c \in Callers, FindScheme(c) PROVE Named'
  <2>1. UNCHANGED <<registry, builders, found, made, conns, swapped, want>>
    BY <1>3 DEF FindScheme, dialVars
  <2>2. \/ pc' = [pc EXCEPT ![c] = "register"]
        \/ want[c] \in Static /\ pc' = [pc EXCEPT ![c] = "dial"]
    BY <1>3 DEF FindScheme
  <2>3. OwnBuilder'
    BY <2>1, <2>2, Ranges, ServicesTyped DEF Named, OwnBuilder
  <2> QED BY <2>1, <2>3 DEF Named, Registered, OwnName, OwnConns
<1>4. CASE Next
  BY <1>2, <1>3, <1>4, NamedRegister, NamedFind, NamedBuild, NamedDone, NamedWatch DEF Next, CallerStep
<1> QED BY <1>1, <1>4

\* Static services never get foreign addresses; consul services only after one
\* was registered between the registration and the dial of another
\* (GenerateAndRegisterConsulResolver, consulBuilder.Build).
THEOREM ForeignNeedsSwap == Spec => []WrongNeedsSwap
<1>1. Typed /\ Named => WrongNeedsSwap
  <2> SUFFICES ASSUME Typed, Named, NEW i \in DOMAIN conns,
                      conns[i].addrs # conns[i].service \/ conns[i].tag # conns[i].service
               PROVE  conns[i].service \in Consul /\ swapped
    BY DEF WrongNeedsSwap
  <2>1. i \in 1..Len(conns) /\ conns[i].service \in Services
    BY ConnsTyped, ConnRanges, LenProperties DEF Typed
  <2> QED BY <2>1 DEF Named, OwnConns, Services
<1>2. Spec => [](Typed /\ Named)
  BY TypedInit, TypedStep, NamedInit, NamedStep, PTL DEF Spec
<1> QED BY <1>1, <1>2, PTL

-----------------------------------------------------------------------------
(* Calls.                                                                  *)

DoTyped ==
  /\ at \in [Doers -> {"conn", "try", "call", "answer", "ok", "error", "panic"}]
  /\ tries \in [Doers -> Nat] /\ over \in [Doers -> BOOLEAN]
  /\ reached \in [Doers -> SUBSET Services]
  /\ ran \in [Doers -> Nat] /\ ranOver \in [Doers -> Nat] /\ lost \in [Doers -> Nat]

\* Do starts with nothing and runs on a connection it was given.
Placed(c) ==
  /\ at[c] = "conn" => lost[c] = 0 /\ ran[c] = 0 /\ ranOver[c] = 0 /\ tries[c] = 0 /\ reached[c] = {}
  /\ at[c] # "conn" => pc[c] \in {"done", "failed"}
  /\ at[c] \in {"try", "call", "answer"} => pc[c] = "done"

\* An attempt is lost only if it is counted or the last, and a call is executed by
\* lost attempts, the present one, and the one that succeeded.
Tallied(c) ==
  /\ at[c] \in {"try", "call", "answer"} => lost[c] <= tries[c] /\ tries[c] <= RetryNum(want[c])
  /\ at[c] \in {"call", "answer"} => tries[c] < RetryNum(want[c])
  /\ lost[c] <= RetryNum(want[c])
  /\ at[c] \in {"try", "call", "error"} => ran[c] = lost[c]
  /\ at[c] = "answer" => ran[c] = lost[c] + 1
  /\ ran[c] <= lost[c] + 1
  /\ at[c] = "ok" /\ ran[c] = lost[c] => c \in panicked

\* Once its time is over Do makes no further attempt.
Punctual(c) == ranOver[c] <= 1 /\ (ranOver[c] = 1 => over[c] /\ at[c] # "call")

Own(c) == reached[c] \subseteq {want[c]} \/ (want[c] \in Consul /\ swapped)

Called == DoTyped /\ \A c \in Doers : Placed(c) /\ Tallied(c) /\ Punctual(c) /\ Own(c)

LEMMA RetryNumPositive == ASSUME NEW s PROVE RetryNum(s) \in Nat \ {0}
BY CallAssumption DEF RetryNum

LEMMA CalledInit == CallInit => Called
<1> SUFFICES ASSUME CallInit PROVE Called
  OBVIOUS
<1>1. DoTyped
  BY DEF CallInit, DoTyped
<1>2. ASSUME NEW c \in Doers PROVE Placed(c) /\ Tallied(c) /\ Punctual(c) /\ Own(c)
  <2>1. RetryNum(want[c]) \in Nat
    BY RetryNumPositive
  <2> QED BY <2>1 DEF CallInit, Placed, Tallied, Punctual, Own
<1> QED BY <1>1, <1>2 DEF Called

\* A caller that was answered stays as it is, and a swap is never forgotten.
LEMMA AnsweredStays ==
  ASSUME Typed, Next, NEW c \in Callers, pc[c] \in {"done", "failed"}
  PROVE  pc'[c] = pc[c] /\ want'[c] = want[c]
<1>1. ASSUME NEW d \in Callers, Moves(d) PROVE pc'[c] = pc[c] /\ want'[c] = want[c]
  BY <1>1, CallerTyped DEF Moves, Within
<1>2. ASSUME NEW d \in Callers, DialDone(d) PROVE pc'[c] = pc[c] /\ want'[c] = want[c]
  BY <1>2, CallerTyped DEF DialDone, Return
<1>3. ASSUME NEW i \in DOMAIN conns, Watch(i) PROVE pc'[c] = pc[c] /\ want'[c] = want[c]
  BY <1>3 DEF Watch, callVars
<1> QED BY <1>1, <1>2, <1>3, StepMoves DEF Next, CallerStep

LEMMA SwappedStays == Next /\ swapped => swapped'
<1> SUFFICES ASSUME Next, swapped PROVE swapped'
  OBVIOUS
<1>1. ASSUME NEW c \in Callers, CallerStep(c) PROVE swapped'
  BY <1>1 DEF CallerStep, LockAndLook, FindScheme, Register, FindBuilder, FindBuilderRaces, Build,
              DialDone, DialFails, dialVars
<1>2. ASSUME NEW c \in Callers, NEW s \in Services, GetConn(c, s) PROVE swapped'
  BY <1>2 DEF GetConn, dialVars
<1>3. ASSUME NEW i \in DOMAIN conns, Watch(i) PROVE swapped'
  BY <1>3 DEF Watch
<1> QED BY <1>1, <1>2, <1>3 DEF Next

LEMMA CalledConn == ASSUME Typed, Called, Next, UNCHANGED doVars PROVE Called'
<1>1. DoTyped'
  BY DEF Called, DoTyped, doVars
<1>2. ASSUME NEW c \in Doers, at[c] = "conn" PROVE Placed(c)' /\ Tallied(c)' /\ Punctual(c)' /\ Own(c)'
  <2>1. RetryNum(want'[c]) \in Nat /\ RetryNum(want[c])' = RetryNum(want'[c])
    BY RetryNumPositive DEF RetryNum
  <2> QED BY <1>2, <2>1 DEF Called, Placed, Tallied, Punctual, Own, doVars
<1>3. ASSUME NEW c \in Doers, at[c] # "conn" PROVE Placed(c)' /\ Tallied(c)' /\ Punctual(c)' /\ Own(c)'
  <2>1. pc'[c] = pc[c] /\ want'[c] = want[c]
    BY <1>3, AnsweredStays, CallAssumption DEF Called, Placed
  <2>2. RetryNum(want[c])' = RetryNum(want[c])
    BY <2>1 DEF RetryNum
  <2>3. Placed(c)' /\ Tallied(c)' /\ Punctual(c)'
    BY <2>1, <2>2 DEF Called, Placed, Tallied, Punctual, doVars
  <2>4. Own(c)'
    BY <2>1, SwappedStays DEF Called, Own, doVars
  <2> QED BY <2>3, <2>4
<1> QED BY <1>1, <1>2, <1>3 DEF Called

\* The server that a call reaches.
LEMMA ReachesOwn ==
  ASSUME Cached, Named, Called, NEW c \in Doers, at[c] = "call"
  PROVE  /\ conns[got[c]].addrs \in Services
         /\ conns[got[c]].addrs = want[c] \/ (want[c] \in Consul /\ swapped)
<1>1. pc[c] = "done" /\ c \in Callers
  BY CallAssumption DEF Called, Placed
<1>2. got[c] # 0 /\ got[c] = cached[want[c]] /\ want[c] \in Services
  BY <1>1, CallerTyped DEF Cached, GotIsCached
<1>3. got[c] \in 1..Len(conns) /\ conns[got[c]].service = want[c]
  BY <1>1, <1>2, NumbersTyped DEF Cached, OnlyCached
<1>4. conns[got[c]] \in Conn(Len(builders))
  BY <1>3, ConnsTyped DEF Cached, Typed
<1> QED BY <1>2, <1>3, <1>4 DEF Conn, Named, OwnConns, Services

LEMMA CalledStep == ASSUME Cached, Named, Called, NEW c \in Doers, DoStep(c), UNCHANGED vars PROVE Called'
<1>1. /\ UNCHANGED <<pc, want, swapped>> /\ DoTyped /\ Placed(c) /\ Tallied(c) /\ Punctual(c) /\ Own(c)
      /\ RetryNum(want[c]) \in Nat \ {0} /\ RetryNum(want[c])' = RetryNum(want[c])
  BY RetryNumPositive DEF vars, callVars, dialVars, Called, RetryNum
<1>2. ASSUME DoTyped', Placed(c)', Tallied(c)', Punctual(c)', Own(c)',
             \A d \in Doers \ {c} : /\ at'[d] = at[d] /\ tries'[d] = tries[d] /\ over'[d] = over[d]
                                    /\ reached'[d] = reached[d] /\ ran'[d] = ran[d] /\ lost'[d] = lost[d]
                                    /\ ranOver'[d] = ranOver[d],
             panicked \subseteq panicked'
      PROVE  Called'
  <2>1. ASSUME NEW d \in Doers \ {c} PROVE Placed(d)' /\ Tallied(d)' /\ Punctual(d)' /\ Own(d)'
    <3>1. RetryNum(want[d])' = RetryNum(want[d])
      BY <1>1 DEF RetryNum
    <3> QED BY <1>1, <1>2, <2>1, <3>1 DEF Called, Placed, Tallied, Punctual, Own
  <2> QED BY <1>2, <2>1 DEF Called
<1> USE <1>1 DEF Goto
<1>3. CASE Connected(c)
  <2>1. DoTyped' /\ Placed(c)' /\ Tallied(c)' /\ Punctual(c)' /\ Own(c)'
    BY <1>3 DEF Connected, DoTyped, Placed, Tallied, Punctual, Own
  <2> QED BY <1>2, <1>3, <2>1 DEF Connected, DoTyped
<1>4. CASE Over(c)
  <2>1. DoTyped' /\ Placed(c)' /\ Tallied(c)' /\ Punctual(c)' /\ Own(c)'
    BY <1>4 DEF Over, DoTyped, Placed, Tallied, Punctual, Own
  <2> QED BY <1>2, <1>4, <2>1 DEF Over, DoTyped
<1>5. CASE Attempt(c)
  <2>1. DoTyped' /\ Placed(c)' /\ Tallied(c)' /\ Punctual(c)' /\ Own(c)'
    BY <1>5 DEF Attempt, DoTyped, Placed, Tallied, Punctual, Own
  <2> QED BY <1>2, <1>5, <2>1 DEF Attempt, DoTyped
<1>6. CASE Execute(c)
  <2>1. DoTyped' /\ Placed(c)' /\ Tallied(c)' /\ Own(c)'
    BY <1>6, ReachesOwn DEF Execute, DoTyped, Placed, Tallied, Own
  <2>2. Punctual(c)'
    BY <1>6 DEF Execute, DoTyped, Punctual
  <2> QED BY <1>2, <1>6, <2>1, <2>2 DEF Execute, DoTyped
<1>7. CASE Answer(c)
  <2>1. DoTyped' /\ Placed(c)' /\ Tallied(c)' /\ Punctual(c)' /\ Own(c)'
    BY <1>7 DEF Answer, DoTyped, Placed, Tallied, Punctual, Own
  <2> QED BY <1>2, <1>7, <2>1 DEF Answer, DoTyped
<1>8. CASE Returns(c)
  <2>1. DoTyped' /\ Placed(c)' /\ Tallied(c)' /\ Punctual(c)' /\ Own(c)'
    BY <1>8 DEF Returns, Fail, FailForGood, Lost, DoTyped, Placed, Tallied, Punctual, Own
  <2> QED BY <1>2, <1>8, <2>1 DEF Returns, Fail, FailForGood, Lost, DoTyped
<1>9. CASE InvokerPanics(c)
  <2>1. DoTyped' /\ Placed(c)' /\ Tallied(c)' /\ Punctual(c)' /\ Own(c)'
    BY <1>9 DEF InvokerPanics, DoTyped, Placed, Tallied, Punctual, Own
  <2> QED BY <1>2, <1>9, <2>1 DEF InvokerPanics, DoTyped
<1>10. CASE CallPanics(c)
  <2>1. DoTyped' /\ Placed(c)' /\ Tallied(c)' /\ Punctual(c)' /\ Own(c)'
    BY <1>10 DEF CallPanics, DoTyped, Placed, Tallied, Punctual, Own
  <2> QED BY <1>2, <1>10, <2>1 DEF CallPanics, DoTyped
<1> QED BY <1>3, <1>4, <1>5, <1>6, <1>7, <1>8, <1>9, <1>10 DEF DoStep

\* A process whose calls are in Do as well is one that uses the connections.
LEMMA CallsUseConns == CallSpec => Spec
<1>1. CallInit => Init
  BY DEF CallInit
<1>2. [CallNext]_doAndConnVars => [Next]_vars
  BY DEF CallNext, doAndConnVars
<1> QED BY <1>1, <1>2, PTL DEF CallSpec, Spec

LEMMA CalledAlways == CallSpec => []Called
<1>1. Cached /\ Named /\ Called /\ [CallNext]_doAndConnVars => Called'
  <2> SUFFICES ASSUME Cached, Named, Called, [CallNext]_doAndConnVars PROVE Called'
    OBVIOUS
  <2>1. CASE UNCHANGED doAndConnVars
    <3>1. ASSUME NEW c \in Doers PROVE RetryNum(want[c])' = RetryNum(want[c])
      BY <2>1 DEF doAndConnVars, vars, callVars, RetryNum
    <3> QED BY <2>1, <3>1 DEF doAndConnVars, doVars, vars, callVars, dialVars, Called, DoTyped, Placed,
                              Tallied, Punctual, Own
  <2>2. CASE CallNext
    BY <2>2, CalledConn, CalledStep DEF CallNext, Cached
  <2> QED BY <2>1, <2>2
<1>2. Spec => [](Cached /\ Named)
  <2>1. Cached => Typed
    BY DEF Cached
  <2> QED BY <2>1, CachedAlways, NamedInit, NamedStep, PTL DEF Spec
<1> QED BY <1>1, <1>2, CallsUseConns, CalledInit, PTL DEF CallSpec

\* However addresses change under a connection and calls are retried on it, the
\* call of a static service is executed by its own servers only, and that of a
\* consul service until a builder has been swapped (Do, consulResolver.watcher).
THEOREM CallsReachTheirServer == CallSpec => []OwnServerUnlessSwapped
<1>1. Called => OwnServerUnlessSwapped
  BY DEF Called, Own, OwnServerUnlessSwapped
<1> QED BY <1>1, CalledAlways, PTL

\* A call is executed more than once only if all executions but one were lost, and
\* at most once after its time is over (Do).
THEOREM RepeatsOnlyLosses == CallSpec => []RepeatNeedsLoss
<1>1. Called => RepeatNeedsLoss
  BY DEF Called, Tallied, Punctual, RepeatNeedsLoss
<1> QED BY <1>1, CalledAlways, PTL

\* A call that returns without an error was executed by an attempt that was not
\* lost, or grpc panicked in it (Do, UnaryClientInterceptor).
THEOREM SuccessMeansExecuted == CallSpec => []SuccessWasExecuted
<1>1. Called => SuccessWasExecuted
  BY DEF Called, Tallied, SuccessWasExecuted
<1> QED BY <1>1, CalledAlways, PTL

-----------------------------------------------------------------------------
(* The mutexes.                                                            *)

HeldWithin == \A s \in Services : lock[s] # "free" => want[lock[s]] = s /\ pc[lock[s]] \in Within
WriterRegisters == writer # "free" => pc[writer] = "register"

LEMMA HeldMoves == ASSUME Typed, HeldWithin, NEW c \in Callers, Moves(c) PROVE HeldWithin'
<1> SUFFICES ASSUME NEW s \in Services, lock'[s] # "free"
             PROVE  want'[lock'[s]] = s /\ pc'[lock'[s]] \in Within
  BY DEF HeldWithin
<1>1. /\ pc \in [Callers -> States] /\ want \in [Callers -> Services \cup {"none"}]
      /\ lock \in [Services -> Callers \cup {"free"}]
  BY CallerTyped
<1>2. CASE lock'[s] = lock[s]
  <2>1. lock[s] \in Callers /\ want[lock[s]] = s /\ pc[lock[s]] \in Within
    BY <1>1, <1>2 DEF HeldWithin
  <2>2. CASE lock[s] # c
    BY <1>1, <1>2, <2>1, <2>2 DEF Moves
  <2>3. CASE lock[s] = c
    <3>1. pc[c] \notin {"idle", "wait"} /\ want[c] = s
      BY <2>1, <2>3 DEF Within
    <3>2. ~(pc' = [pc EXCEPT ![c] = "failed"] /\ lock' = [lock EXCEPT ![want[c]] = "free"])
      BY <1>1, <3>1
    <3>3. want' = want /\ (pc' = pc \/ \E x \in Within : pc' = [pc EXCEPT ![c] = x])
      BY <3>1, <3>2 DEF Moves
    <3> QED BY <1>1, <1>2, <2>1, <2>3, <3>3
  <2> QED BY <2>2, <2>3
<1>3. CASE lock'[s] # lock[s]
  <2>1. /\ lock' = [lock EXCEPT ![want'[c]] = c] /\ pc' = [pc EXCEPT ![c] = "resolve"]
        /\ want' = [want EXCEPT ![c] = want'[c]]
    BY <1>1, <1>3 DEF Moves
  <2>2. lock'[s] = c /\ s = want'[c]
    BY <1>1, <1>3, <2>1
  <2> QED BY <1>1, <2>1, <2>2 DEF Within
<1> QED BY <1>2, <1>3

LEMMA HeldDone == ASSUME Typed, HeldWithin, NEW c \in Callers, DialDone(c) PROVE HeldWithin'
<1>1. /\ pc \in [Callers -> States] /\ want \in [Callers -> Services \cup {"none"}]
      /\ lock \in [Services -> Callers \cup {"free"}]
  BY CallerTyped
<1>2. /\ pc' = [pc EXCEPT ![c] = "done"] /\ want' = want
      /\ lock' = [lock EXCEPT ![want[c]] = "free"]
  BY DEF DialDone, Return
<1>3. ASSUME NEW s \in Services, lock'[s] # "free" PROVE want'[lock'[s]] = s /\ pc'[lock'[s]] \in Within
  <2>1. s # want[c] /\ lock'[s] = lock[s]
    BY <1>1, <1>2, <1>3
  <2>2. lock[s] \in Callers /\ want[lock[s]] = s /\ pc[lock[s]] \in Within
    BY <1>1, <1>3, <2>1 DEF HeldWithin
  <2> QED BY <1>1, <1>2, <2>1, <2>2
<1> QED BY <1>3 DEF HeldWithin

\* Only FindScheme takes the lock of the resolver package, for a caller that is to
\* register, and only Register ends that.
LEMMA WriterStep == Typed /\ WriterRegisters /\ Next => WriterRegisters'
<1> SUFFICES ASSUME Typed, WriterRegisters, Next, writer' # "free"
             PROVE  pc'[writer'] = "register"
  BY DEF WriterRegisters
<1>1. pc \in [Callers -> States] /\ writer \in Callers \cup {"free"}
  BY DEF Typed, TypeOK, States
<1>2. ASSUME NEW c \in Callers, CallerStep(c) \/ \E s \in Services : GetConn(c, s)
      PROVE  pc'[writer'] = "register"
  <2>1. CASE FindScheme(c)
    BY <1>1, <2>1 DEF FindScheme
  <2>2. CASE Register(c)
    BY <2>2 DEF Register
  <2>3. CASE ~FindScheme(c) /\ ~Register(c)
    <3>1. /\ writer' = writer /\ pc[c] # "register"
          /\ pc' = pc \/ \E x \in States : pc' = [pc EXCEPT ![c] = x]
      BY <1>2, <2>3 DEF CallerStep, GetConn, LockAndLook, FindBuilder, FindBuilderRaces, Build, DialDone,
                        DialFails, Return, regVars, callVars, States
    <3> QED BY <1>1, <3>1 DEF WriterRegisters
  <2> QED BY <2>1, <2>2, <2>3
<1>3. ASSUME NEW i \in DOMAIN conns, Watch(i) PROVE pc'[writer'] = "register"
  BY <1>3 DEF Watch, callVars, regVars, WriterRegisters
<1> QED BY <1>2, <1>3 DEF Next

LEMMA HeldStep ==
  Typed /\ HeldWithin /\ WriterRegisters /\ [Next]_vars => HeldWithin' /\ WriterRegisters'
<1> SUFFICES ASSUME Typed, HeldWithin, WriterRegisters, [Next]_vars PROVE HeldWithin' /\ WriterRegisters'
  OBVIOUS
<1>1. CASE UNCHANGED vars
  BY <1>1 DEF vars, callVars, cacheVars, regVars, HeldWithin, WriterRegisters
<1>2. CASE Next
  <2>1. ASSUME NEW i \in DOMAIN conns, Watch(i) PROVE HeldWithin'
    BY <2>1, WatchKeeps DEF HeldWithin
  <2>2. HeldWithin'
    BY <1>2, <2>1, StepMoves, HeldMoves, HeldDone DEF Next, CallerStep
  <2> QED BY <1>2, <2>2, WriterStep
<1> QED BY <1>1, <1>2

\* However calls overlap and whichever dials fail, the mutex of a service and the
\* lock of the resolver package are held only by a caller that is still to unlock
\* them (GetConnWithAuth, GenerateAndRegisterConsulResolver).
THEOREM LocksComeFree == Spec => []LocksAreReleased
<1>1. Init => HeldWithin /\ WriterRegisters
  BY DEF Init, HeldWithin, WriterRegisters
<1>2. HeldWithin /\ WriterRegisters => LocksAreReleased
  BY DEF HeldWithin, WriterRegisters, LocksAreReleased, Within
<1> QED BY <1>1, <1>2, TypedInit, TypedStep, HeldStep, PTL DEF Spec

\* Neither a connection nor a call on it goes to another service, whatever else the
\* process dials and calls, unless a builder was swapped (consulBuilder.Build, Do).
THEOREM NothingGoesAstray == CallSpec => []AstrayNeedsSwap
<1>1. WrongNeedsSwap /\ OwnServerUnlessSwapped => AstrayNeedsSwap
  BY DEF AstrayNeedsSwap
<1> QED BY <1>1, CallsUseConns, ForeignNeedsSwap, CallsReachTheirServer, PTL

=============================================================================
