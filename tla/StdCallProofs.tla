--------------------------- MODULE StdCallProofs ----------------------------
(***************************************************************************)
(* Theorems about StdCall, for any servers, callers and users.             *)
(***************************************************************************)
EXTENDS StdCall, FiniteSetTheorems, SequenceTheorems, TLAPS

Labels == {"idle", "loop", "address", "advance", "request", "select", "wait", "read", "over"}
Flights == {"none", "dialing", "sent", "handled", "answered", "failed"}

\* The part of TypeOK about the calls.
CallsTyped ==
  /\ downloads \subseteq Callers /\ bad \subseteq downloads /\ gone \subseteq Callers
  /\ pc \in [Callers -> Labels] /\ job \in [Callers -> Jobs]
  /\ flight \in [Callers -> Flights] /\ ctx \in [Callers -> {"none", "live", "canceled"}]
  /\ lbIndex \in Nat /\ acts \in [Callers -> Nat]

\* A request is in flight exactly while its caller waits for or reads it, and
\* attempts are left when one begins.
Phase(c) ==
  /\ flight[c] # "none" <=> pc[c] \in {"select", "wait", "read"}
  /\ pc[c] \in {"address", "advance", "request"} => job[c].try < 3
  /\ pc[c] = "address" => c \notin downloads
  /\ pc[c] = "idle" => job[c].try = 0

\* Whatever can still make a server handle all parameters means that none has:
\* a reader not spent, or a request with all of them under way.
Spent(c) ==
  /\ acts[c] <= 1
  /\ pc[c] # "over" /\ job[c].reader \in {"unset", "whole"} => acts[c] = 0
  /\ flight[c] \in {"dialing", "sent"} /\ job[c].body = "whole" => acts[c] = 0
  /\ flight[c] = "sent" => job[c].reader = "none"

\* The Curl's context is live during an attempt, cancelled or overruled once the
\* caller gave up, and cancelled after it, except when no request could be made.
Scoped(c) ==
  /\ pc[c] \in {"select", "read"} => ctx[c] = "live"
  /\ pc[c] = "wait" => ctx[c] # "live" \/ c \in gone
  /\ pc[c] = "loop" /\ job[c].try # 0 /\ c \notin bad => ctx[c] = "canceled"
  /\ pc[c] = "over" => ctx[c] # "live" \/ c \in gone \/ c \in bad

CallInv == \A c \in Callers : Phase(c) /\ Spent(c) /\ Scoped(c)

IInv == TypeOK /\ CallInv

LEMMA TypeOKParts == TypeOK <=> RegistryTypeOK /\ DiscoveryTypeOK /\ CallsTyped
BY DEF TypeOK, CallsTyped, Labels, Flights

LEMMA TypeOKNext == RegistryTypeOK' /\ DiscoveryTypeOK' /\ CallsTyped' => TypeOK'
BY DEF TypeOK, CallsTyped, Labels, Flights

LEMMA ConstantsTyped ==
  /\ IsFiniteSet(Servers) /\ Stable \subseteq Servers /\ MaxTrouble \in Nat
  /\ Callers \subseteq Users /\ Home \in Servers
BY RegistryAssumption, StdCallAssumption DEF RegistryAssumption, StdCallAssumption

\* The orders in which the agent may list some servers are sequences of them.
LEMMA OrdersTyped ==
  ASSUME NEW S \in SUBSET Servers, NEW q \in Orders(S)
  PROVE  q \in Seq(Servers)
<1>1. IsFiniteSet(S)
  BY ConstantsTyped, FS_Subset
<1>2. Cardinality(S) \in Nat
  BY <1>1, FS_CardinalityType
<1>3. q \in [1..Cardinality(S) -> Servers]
  BY DEF Orders
<1> QED BY <1>2, <1>3 

-----------------------------------------------------------------------------
(* The servers and the resolver.                                           *)

\* A failure stays within the bound.
LEMMA FailsTyped ==
  trouble \in 0..MaxTrouble /\ (Fails \/ UNCHANGED trouble) => trouble' \in 0..MaxTrouble
BY ConstantsTyped DEF Fails

LEMMA RegistryTyped ==
  ASSUME RegistryTypeOK, NEW s \in Servers, RegistryStep(s)
  PROVE  RegistryTypeOK'
<1> USE DEF RegistryTypeOK
<1>1. Fails \/ UNCHANGED trouble
  BY DEF RegistryStep, ServiceRegister, CheckRegister, UpdateTTL, BeatEnds, Expire, Signal, ServeReturns,
     UnRegister, Crash
<1>2. trouble' \in 0..MaxTrouble
  BY <1>1, FailsTyped
<1>3. CASE ServiceRegister(s)
  BY <1>2, <1>3 DEF ServiceRegister
<1>4. CASE CheckRegister(s)
  BY <1>2, <1>4 DEF CheckRegister
<1>5. CASE UpdateTTL(s)
  BY <1>2, <1>5 DEF UpdateTTL
<1>6. CASE BeatEnds(s)
  BY <1>2, <1>6 DEF BeatEnds
<1>7. CASE Expire(s)
  BY <1>2, <1>7 DEF Expire
<1>8. CASE Signal(s)
  BY <1>2, <1>8 DEF Signal
<1>9. CASE ServeReturns(s)
  BY <1>2, <1>9 DEF ServeReturns
<1>10. CASE UnRegister(s)
  BY <1>2, <1>10 DEF UnRegister
<1>11. CASE Crash(s)
  BY <1>2, <1>11 DEF Crash
<1> QED
  BY <1>3, <1>4, <1>5, <1>6, <1>7, <1>8, <1>9, <1>10, <1>11 DEF RegistryStep

\* A step of the registry leaves the resolver as it is, but for its news.
LEMMA RegistryFollowed ==
  ASSUME DiscoveryTypeOK, Follows, UNCHANGED <<cacheVars, watch, addresses, fetched>>
  PROVE  DiscoveryTypeOK'
BY DEF DiscoveryTypeOK, Follows, cacheVars

\* A step that may fail but touches no server.
LEMMA ServersKept ==
  ASSUME RegistryTypeOK, UNCHANGED serverVars, Fails \/ UNCHANGED trouble
  PROVE  RegistryTypeOK'
BY FailsTyped DEF RegistryTypeOK, serverVars

LEMMA WatchTyped ==
  ASSUME RegistryTypeOK, DiscoveryTypeOK, WatchStep
  PROVE  RegistryTypeOK' /\ DiscoveryTypeOK'
<1>1. Listed \in SUBSET Servers
  BY DEF Listed, RegistryTypeOK
<1>2. CASE Query
  <2>1. fetched' \in Seq(Servers)
    BY <1>1, <1>2, OrdersTyped DEF Query, DiscoveryTypeOK
  <2>2. RegistryTypeOK'
    BY <1>2, ServersKept DEF Query
  <2> QED BY <1>2, <2>1, <2>2 DEF Query, DiscoveryTypeOK, cacheVars
<1>3. CASE Store
  BY <1>3, ServersKept DEF Store, DiscoveryTypeOK, cacheVars, registryVars
<1>4. CASE CheckDone
  BY <1>4, ServersKept DEF CheckDone, DiscoveryTypeOK, cacheVars, registryVars
<1> QED BY <1>2, <1>3, <1>4 DEF WatchStep

LEMMA UserTyped ==
  ASSUME RegistryTypeOK, DiscoveryTypeOK, NEW u \in Users, UserStep(u)
  PROVE  RegistryTypeOK' /\ DiscoveryTypeOK'
<1> USE DEF DiscoveryTypeOK, resolverVars
<1>1. Listed \in SUBSET Servers
  BY DEF Listed, RegistryTypeOK
<1>2. CASE Look(u)
  BY <1>2, ServersKept DEF Look, registryVars
<1>3. CASE LookAgain(u)
  BY <1>3, ServersKept DEF LookAgain, registryVars
<1>4. CASE Create(u)
  <2>1. addresses' \in Seq(Servers)
    BY <1>1, <1>4, OrdersTyped DEF Create
  <2>2. RegistryTypeOK'
    BY <1>4, ServersKept DEF Create
  <2> QED BY <1>4, <2>1, <2>2 DEF Create
<1>5. CASE Close(u)
  BY <1>5, ServersKept DEF Close, registryVars
<1>6. CASE CloseReturns(u)
  BY <1>6, ServersKept DEF CloseReturns, registryVars
<1> QED BY <1>2, <1>3, <1>4, <1>5, <1>6 DEF UserStep

-----------------------------------------------------------------------------
(* The calls.                                                              *)

LEMMA NewJobTyped == \A c : NewJob(c) \in Jobs
BY ConstantsTyped DEF NewJob, Jobs, Bodies

\* What a caller reads of a slice is an address of it, or what lies beyond.
LEMMA AtTyped ==
  ASSUME DiscoveryTypeOK, lbIndex \in Nat, NEW view \in Views, view[2] # 0,
         At(view, IF view[2] = 1 THEN 1 ELSE (lbIndex % view[2]) + 1) # Torn
  PROVE  At(view, IF view[2] = 1 THEN 1 ELSE (lbIndex % view[2]) + 1) \in Servers
<1>1. PICK a \in Seq(Servers), n \in Nat : view = <<a, n>>
  BY DEF Views, DiscoveryTypeOK
<1>2. view[1] = a /\ view[2] = n /\ n # 0
  BY <1>1
<1>3. lbIndex % n \in Nat
  BY <1>2
<1> DEFINE i == IF n = 1 THEN 1 ELSE (lbIndex % n) + 1
<1>4. i \in Nat /\ i >= 1
  BY <1>3
<1>5. At(view, i) # Torn
  BY <1>2
<1> HIDE DEF i
<1>6. i <= Len(a) /\ At(view, i) = a[i]
  BY <1>2, <1>5 DEF At
<1>7. a[i] \in Servers
  BY <1>1, <1>4, <1>6
<1> QED BY <1>2, <1>6, <1>7 DEF i

LEMMA ReturnTyped ==
  ASSUME CallsTyped, NEW c \in Callers, ReturnError(c)
  PROVE  /\ pc' \in [Callers -> Labels] /\ job' \in [Callers -> Jobs]
         /\ ctx' \in [Callers -> {"none", "live", "canceled"}]
BY NewJobTyped DEF CallsTyped, ReturnError, Labels

LEMMA CallTyped ==
  ASSUME DiscoveryTypeOK, CallsTyped, CallInv, NEW c \in Callers, CallStep(c)
  PROVE  CallsTyped'
<1> USE DEF CallsTyped, Labels, Flights, inputs, Goto
<1>1. job[c] \in Jobs /\ Phase(c)
  BY DEF CallInv
<1>2. CASE Begin(c)
  BY <1>2 DEF Begin
<1>3. CASE Loop(c)
  BY <1>3, ReturnTyped DEF Loop
<1>4. CASE GetAddress(c)
  <2>1. PICK view \in Views :
          LET n == view[2]
              a == At(view, IF n = 1 THEN 1 ELSE (lbIndex % n) + 1)
          IN IF n = 0 \/ a = Torn
             THEN ReturnError(c)
             ELSE /\ job' = [job EXCEPT ![c].addr = a]
                  /\ Goto(c, IF n = 1 THEN "request" ELSE "advance")
                  /\ UNCHANGED ctx
    BY <1>4 DEF GetAddress
  <2> DEFINE a == At(view, IF view[2] = 1 THEN 1 ELSE (lbIndex % view[2]) + 1)
  <2>2. CASE view[2] = 0 \/ a = Torn
    BY <1>4, <2>1, <2>2, ReturnTyped DEF GetAddress
  <2>3. CASE ~(view[2] = 0 \/ a = Torn)
    <3>1. a \in Servers
      BY <2>3, AtTyped
    <3>2. job' = [job EXCEPT ![c].addr = a] /\ Goto(c, IF view[2] = 1 THEN "request" ELSE "advance") /\ UNCHANGED ctx
      BY <2>1, <2>3
    <3> HIDE DEF a
    <3>3. job' \in [Callers -> Jobs]
      BY <1>1, <3>1, <3>2 DEF Jobs
    <3> QED BY <1>4, <3>2, <3>3 DEF GetAddress
  <2> QED BY <2>2, <2>3
<1>5. CASE Advance(c)
  BY <1>5 DEF Advance
<1>6. CASE Request(c)
  <2>1. job[c].try \in 0..2 /\ job[c].reader \in {"unset"} \cup Bodies
    BY <1>1, <1>6 DEF Request, Phase, Jobs
  <2>2. job' \in [Callers -> Jobs]
    BY <1>1, <1>6, <2>1 DEF Request, Jobs, Bodies
  <2> QED BY <1>6, <2>2 DEF Request
<1>7. CASE Send(c)
  <2>1. job' \in [Callers -> Jobs]
    BY <1>1, <1>7 DEF Send, Jobs, Bodies, Leftovers
  <2> QED BY <1>7, <2>1 DEF Send
<1>8. CASE Handle(c)
  BY <1>8 DEF Handle
<1>9. CASE Answer(c)
  BY <1>9 DEF Answer
<1>10. CASE Break(c)
  BY <1>10 DEF Break
<1>11. CASE GiveUp(c)
  BY <1>11 DEF GiveUp
<1>12. CASE Failed(c)
  BY <1>12 DEF Failed
<1>13. CASE Answered(c)
  BY <1>13 DEF Answered
<1>14. CASE Read(c)
  BY <1>14, NewJobTyped DEF Read
<1>15. CASE Leave(c)
  BY <1>15 DEF Leave
<1> QED
  BY <1>2, <1>3, <1>4, <1>5, <1>6, <1>7, <1>8, <1>9, <1>10, <1>11, <1>12, <1>13, <1>14, <1>15
  DEF CallStep, NetStep

\* The part of a call that may fail.
LEMMA CallServersKept ==
  ASSUME RegistryTypeOK, DiscoveryTypeOK, NEW c \in Callers, CallStep(c)
  PROVE  RegistryTypeOK' /\ DiscoveryTypeOK'
<1>1. Fails \/ UNCHANGED trouble
  BY DEF CallStep, NetStep, Send, Break, Failed, NoResponse, Leave
<1>2. UNCHANGED serverVars /\ UNCHANGED discoveryVars
  BY DEF CallStep
<1>3. RegistryTypeOK'
  BY <1>1, <1>2, ServersKept
<1> QED BY <1>2, <1>3 DEF DiscoveryTypeOK, discoveryVars, cacheVars, resolverVars

-----------------------------------------------------------------------------
(* Phase, Spent and Scoped.                                                *)

\* What the invariant says of a caller.
CallerInv(c) == Phase(c) /\ Spent(c) /\ Scoped(c)

\* A caller that nothing happens to, but that contexts may be cancelled.
LEMMA OtherKept ==
  ASSUME NEW d, CallerInv(d), gone \subseteq gone',
         UNCHANGED <<inputs, pc[d], job[d], flight[d], ctx[d], acts[d]>>
  PROVE  CallerInv(d)'
BY DEF CallerInv, Phase, Spent, Scoped, inputs

\* A step of a call leaves the other callers alone.
LEMMA CallLocal ==
  ASSUME CallsTyped, NEW c \in Callers, CallStep(c)
  PROVE  /\ gone \subseteq gone' /\ UNCHANGED inputs
         /\ \A d \in Callers \ {c} : UNCHANGED <<pc[d], job[d], flight[d], ctx[d], acts[d]>>
<1> USE DEF CallsTyped, inputs, Goto
<1>1. CASE Begin(c) \/ Loop(c) \/ Advance(c) \/ Request(c)
  BY <1>1 DEF Begin, Loop, Advance, Request, ReturnError
<1>2. CASE GetAddress(c)
  BY <1>2 DEF GetAddress, ReturnError
<1>3. CASE Send(c) \/ Handle(c) \/ Answer(c) \/ Break(c)
  BY <1>3 DEF Send, Handle, Answer, Break
<1>4. CASE GiveUp(c) \/ Failed(c) \/ Answered(c)
  BY <1>4 DEF GiveUp, Failed, Answered
<1>5. CASE Read(c) \/ Leave(c)
  BY <1>5 DEF Read, Leave
<1> QED BY <1>1, <1>2, <1>3, <1>4, <1>5 DEF CallStep, NetStep

\* The end of a call without a response: a Call, or a Download whose context
\* is already cancelled or whose request cannot be made.
LEMMA ReturnKeeps ==
  ASSUME CallsTyped, NEW c \in Callers, CallerInv(c), ReturnError(c), UNCHANGED <<inputs, flight, gone, acts>>,
         pc[c] \in {"loop", "address"},
         c \notin downloads \/ ctx[c] # "live" \/ c \in gone \/ c \in bad
  PROVE  CallerInv(c)'
BY DEF CallsTyped, ReturnError, CallerInv, Phase, Spent, Scoped, inputs

LEMMA CallerKept ==
  ASSUME CallsTyped, NEW c \in Callers, CallerInv(c), CallStep(c)
  PROVE  CallerInv(c)'
<1> USE DEF CallsTyped, CallerInv, inputs, Goto
<1>0. job[c] \in Jobs /\ acts[c] \in Nat
  OBVIOUS
<1>1. CASE Begin(c)
  BY <1>1 DEF Begin, Phase, Spent, Scoped
<1>2. CASE Loop(c)
  <2>1. CASE job[c].try = 3 \/ c \in gone
    <3>1. ReturnError(c) /\ UNCHANGED <<inputs, flight, gone, acts>> /\ pc[c] = "loop"
      BY <1>2, <2>1 DEF Loop
    <3>2. ctx[c] # "live" \/ c \in gone \/ c \in bad
      BY <2>1, <3>1 DEF Scoped
    <3> QED BY <3>1, <3>2, ReturnKeeps
  <2>2. CASE ~(job[c].try = 3 \/ c \in gone)
    <3>1. job[c].try < 3
      BY <1>0, <2>2 DEF Jobs
    <3> QED BY <1>2, <2>2, <3>1 DEF Loop, Phase, Spent, Scoped
  <2> QED BY <2>1, <2>2
<1>3. CASE GetAddress(c)
  <2>1. UNCHANGED <<inputs, flight, gone, acts>> /\ pc[c] = "address"
    BY <1>3 DEF GetAddress
  <2>2. CASE ReturnError(c)
    BY <2>1, <2>2, ReturnKeeps DEF Phase
  <2>3. CASE ~ReturnError(c)
    <3>0. PICK view \in Views :
            LET n == view[2]
                a == At(view, IF n = 1 THEN 1 ELSE (lbIndex % n) + 1)
            IN IF n = 0 \/ a = Torn
               THEN ReturnError(c)
               ELSE /\ job' = [job EXCEPT ![c].addr = a]
                    /\ Goto(c, IF n = 1 THEN "request" ELSE "advance")
                    /\ UNCHANGED ctx
      BY <1>3 DEF GetAddress
    <3> DEFINE a == At(view, IF view[2] = 1 THEN 1 ELSE (lbIndex % view[2]) + 1)
    <3>a. job' = [job EXCEPT ![c].addr = a] /\ Goto(c, IF view[2] = 1 THEN "request" ELSE "advance") /\ UNCHANGED ctx
      BY <2>3, <3>0
    <3> HIDE DEF a
    <3>1. job' = [job EXCEPT ![c].addr = a] /\ pc'[c] \in {"request", "advance"} /\ UNCHANGED ctx
      BY <3>a
    <3>2. job'[c].try = job[c].try /\ job'[c].reader = job[c].reader /\ job'[c].body = job[c].body
      BY <1>0, <3>1 DEF Jobs
    <3> QED BY <2>1, <3>1, <3>2 DEF Phase, Spent, Scoped
  <2> QED BY <2>2, <2>3
<1>4. CASE Advance(c)
  BY <1>4 DEF Advance, Phase, Spent, Scoped
<1>5. CASE Request(c)
  <2>1. CASE c \in bad
    <3>1. job'[c].try = job[c].try + 1 /\ job'[c].reader = job[c].reader /\ job'[c].body = job[c].body
      BY <1>0, <1>5, <2>1 DEF Request, Jobs
    <3> QED BY <1>5, <2>1, <3>1 DEF Request, Phase, Spent, Scoped
  <2>2. CASE c \notin bad
    <3>1. job'[c].reader = job'[c].body /\ (job'[c].body = "whole" => job[c].reader \in {"unset", "whole"})
          /\ job'[c].reader # "unset"
      BY <1>0, <1>5, <2>2 DEF Request, Jobs
    <3> QED BY <1>5, <2>2, <3>1 DEF Request, Phase, Spent, Scoped
  <2> QED BY <2>1, <2>2
<1>6. CASE Send(c)
  <2>1. /\ job'[c].try = job[c].try /\ job'[c].body = job[c].body
        /\ job'[c].reader \in {"unset", "whole"} => job[c].reader \in {"unset", "whole"}
        /\ flight'[c] = "sent" => job'[c].reader = "none"
        /\ flight'[c] \in {"sent", "failed"}
    BY <1>0, <1>6 DEF Send, Jobs, Bodies, Leftovers
  <2> QED BY <1>6, <2>1 DEF Send, Phase, Spent, Scoped
<1>7. CASE Handle(c)
  BY <1>0, <1>7 DEF Handle, Phase, Spent, Scoped
<1>8. CASE Answer(c)
  BY <1>8 DEF Answer, Phase, Spent, Scoped
<1>9. CASE Break(c)
  BY <1>9 DEF Break, Phase, Spent, Scoped
<1>10. CASE GiveUp(c)
  BY <1>10 DEF GiveUp, Phase, Spent, Scoped
<1>11. CASE Failed(c)
  BY <1>11 DEF Failed, NoResponse, Phase, Spent, Scoped
<1>12. CASE Answered(c)
  BY <1>12 DEF Answered, Phase, Spent, Scoped
<1>13. CASE Read(c)
  BY <1>13 DEF Read, Phase, Spent, Scoped
<1>14. CASE Leave(c)
  BY <1>14 DEF Leave, Phase, Spent, Scoped
<1> QED
  BY <1>1, <1>2, <1>3, <1>4, <1>5, <1>6, <1>7, <1>8, <1>9, <1>10, <1>11, <1>12, <1>13, <1>14
  DEF CallStep, NetStep

-----------------------------------------------------------------------------
(* The theorems.                                                           *)

LEMMA InitIInv == Init => IInv
<1> SUFFICES ASSUME Init PROVE IInv
  OBVIOUS
<1>1. RegistryTypeOK
  BY ConstantsTyped DEF Init, RegistryInit, RegistryTypeOK
<1>2. DiscoveryTypeOK
  <2>1. addresses \in Seq(Servers) /\ fetched \in Seq(Servers)
    BY DEF Init, DiscoveryInit
  <2>2. cached \in BOOLEAN /\ canceled \in BOOLEAN /\ news \in BOOLEAN
    BY DEF Init, DiscoveryInit
  <2> QED BY <2>1, <2>2 DEF Init, DiscoveryInit, DiscoveryTypeOK
<1>3. CallsTyped
  BY NewJobTyped DEF Init, CallsTyped, Labels, Flights
<1>4. CallInv
  BY DEF Init, CallInv, Phase, Spent, Scoped, NewJob
<1> QED BY <1>1, <1>2, <1>3, <1>4, TypeOKParts DEF IInv

LEMMA NextIInv == IInv /\ [Next]_vars => IInv'
<1> SUFFICES ASSUME IInv, [Next]_vars PROVE IInv'
  OBVIOUS
<1>1. RegistryTypeOK /\ DiscoveryTypeOK /\ CallsTyped /\ CallInv
  BY TypeOKParts DEF IInv
<1> USE <1>1
<1>2. ASSUME UNCHANGED callVars PROVE CallsTyped' /\ CallInv'
  BY <1>2 DEF CallsTyped, CallInv, Phase, Spent, Scoped, callVars, inputs
<1>3. ASSUME NEW s \in Servers, RegistryStep(s), Follows, UNCHANGED <<cacheVars, watch, addresses, fetched, callVars>>
      PROVE  IInv'
  BY <1>2, <1>3, RegistryTyped, RegistryFollowed, TypeOKNext DEF IInv
<1>4. ASSUME WatchStep, UNCHANGED callVars PROVE IInv'
  BY <1>2, <1>4, WatchTyped, TypeOKNext DEF IInv
<1>5. ASSUME NEW u \in Users, UserStep(u), UNCHANGED callVars PROVE IInv'
  BY <1>2, <1>5, UserTyped, TypeOKNext DEF IInv
<1>6. ASSUME NEW c \in Callers, CallStep(c) PROVE IInv'
  <2>1. \A d \in Callers \ {c} : CallerInv(d)'
    BY <1>6, CallLocal, OtherKept DEF CallInv, CallerInv
  <2>2. CallerInv(c)'
    BY <1>6, CallerKept DEF CallInv, CallerInv
  <2>3. CallInv'
    BY <2>1, <2>2 DEF CallInv, CallerInv
  <2> QED BY <1>6, <2>3, CallTyped, CallServersKept, TypeOKNext DEF IInv
<1>7. CASE UNCHANGED vars
  <2>1. RegistryTypeOK' /\ DiscoveryTypeOK'
    BY <1>7 DEF vars, registryVars, serverVars, discoveryVars, cacheVars, resolverVars, RegistryTypeOK, DiscoveryTypeOK
  <2> QED BY <1>2, <1>7, <2>1, TypeOKNext DEF IInv, vars
<1> QED BY <1>3, <1>4, <1>5, <1>6, <1>7 DEF Next

LEMMA SpecIInv == Spec => []IInv
BY InitIInv, NextIInv, PTL DEF Spec

\* The state of servers, resolver and calls keeps its type; a call makes at most
\* three attempts and calls only servers that were listed once.
THEOREM TypeCorrect == Spec => []TypeOK
BY SpecIInv, PTL DEF IInv

\* Retries of Call and Download never make the servers handle the parameters
\* twice, because the reader over PostBytes is kept between attempts.
THEOREM HandledOnce == Spec => []ActsOnce
<1>1. IInv => ActsOnce
  BY DEF IInv, CallInv, Spent, ActsOnce
<1> QED BY SpecIInv, <1>1, PTL

\* Request leaves the context of a response that is still read alone.
THEOREM ReadsLive == Spec => []ReadableUntilClose
<1>1. IInv => ReadableUntilClose
  BY DEF IInv, CallInv, Scoped, ReadableUntilClose
<1> QED BY SpecIInv, <1>1, PTL

\* No returned call leaves a live context behind, but a Download whose request
\* could not be made.
THEOREM ReleasesContexts == Spec => []ContextsReleased
<1>1. IInv => ContextsReleased
  BY DEF IInv, CallInv, Scoped, ContextsReleased, Live
<1> QED BY SpecIInv, <1>1, PTL

\* A caller that gave up waits only for a request that its context interrupts.
THEOREM WaitsInterruptibly == Spec => []WaitIsInterruptible
<1>1. IInv => WaitIsInterruptible
  BY DEF IInv, CallInv, Scoped, WaitIsInterruptible, Live
<1> QED BY SpecIInv, <1>1, PTL

\* The context of an attempt is live while its response is awaited or read and
\* dead after the caller gave up or the call is over (Curl.Request,
\* Response.Close, Call).
THEOREM ContextsScoped == Spec => []ContextFollowsResponse
BY ReadsLive, ReleasesContexts, WaitsInterruptibly, PTL DEF ContextFollowsResponse

-----------------------------------------------------------------------------
(* The resolver follows the registry.                                      *)

\* Only the writer of consulRwLock creates, and there is a goroutine exactly when
\* there is a resolver.
FollowInv == ResolverFollows /\ (watch # "none" => cached)

\* What neither lists other servers nor moves the resolver.
LEMMA FollowKept ==
  ASSUME FollowInv, UNCHANGED <<entry, check, cached, lock, resolverVars>>, canceled => canceled',
         \A u \in Users : user'[u] = "creating" => user[u] = "creating"
  PROVE  FollowInv'
BY DEF FollowInv, ResolverFollows, Listed, Orders, resolverVars

LEMMA FollowRegistry ==
  ASSUME FollowInv, Follows, UNCHANGED <<cacheVars, watch, addresses, fetched>>
  PROVE  FollowInv'
<1>1. ~news' => ~news /\ Listed' = Listed
  BY DEF Follows
<1>2. watch # "none" /\ ~news' => (IF watch = "store" THEN fetched ELSE addresses) \in Orders(Listed')
  BY <1>1 DEF FollowInv, ResolverFollows
<1> QED BY <1>2 DEF FollowInv, ResolverFollows, Orders, cacheVars

LEMMA FollowWatch == ASSUME FollowInv, WatchStep PROVE FollowInv'
<1> USE DEF FollowInv, ResolverFollows, cacheVars
<1>1. Listed' = Listed
  BY DEF WatchStep, Query, Store, CheckDone, Listed, serverVars, registryVars
<1>2. CASE Query
  BY <1>1, <1>2 DEF Query, Orders
<1>3. CASE Store
  BY <1>1, <1>3 DEF Store, Orders
<1>4. CASE CheckDone
  BY <1>1, <1>4 DEF CheckDone, Orders
<1> QED BY <1>2, <1>3, <1>4 DEF WatchStep

LEMMA FollowUser == ASSUME DiscoveryTypeOK, FollowInv, NEW u \in Users, UserStep(u) PROVE FollowInv'
<1> USE DEF DiscoveryTypeOK
<1>1. CASE Look(u)
  BY <1>1, FollowKept DEF Look, registryVars, serverVars
<1>2. CASE LookAgain(u) /\ cached
  BY <1>2, FollowKept DEF LookAgain, registryVars, serverVars
<1>3. CASE LookAgain(u) /\ ~cached
  <2>1. /\ lock = "free" /\ lock' = u /\ user' = [user EXCEPT ![u] = "creating"]
        /\ UNCHANGED <<cached, canceled, watch, news, addresses, fetched>> /\ Listed' = Listed
    BY <1>3 DEF LookAgain, registryVars, serverVars, resolverVars, Listed
  <2>2. \A v \in Users \ {u} : user'[v] # "creating"
    BY <2>1, StdCallAssumption DEF StdCallAssumption, FollowInv, ResolverFollows
  <2> QED BY <1>3, <2>1, <2>2 DEF FollowInv, ResolverFollows, Orders
<1>4. CASE Create(u)
  <2>1. /\ user[u] = "creating" /\ lock = u /\ ~cached /\ watch = "none"
        /\ lock' = "free" /\ UNCHANGED canceled /\ Listed' = Listed
        /\ \/ /\ user' = [user EXCEPT ![u] = "has"] /\ cached' /\ watch' = "query"
              /\ addresses' \in Orders(Listed)
           \/ user' = [user EXCEPT ![u] = "refused"] /\ UNCHANGED <<cached, watch, news, addresses>>
    BY <1>4 DEF Create, FollowInv, ResolverFollows, serverVars, Listed
  <2>2. \A v \in Users : user'[v] # "creating"
    <3>1. \A v \in Users \ {u} : user[v] # "creating"
      BY <2>1 DEF FollowInv, ResolverFollows
    <3>2. user' \in {[user EXCEPT ![u] = "has"], [user EXCEPT ![u] = "refused"]}
      BY <2>1
    <3> QED BY <3>1, <3>2
  <2> QED BY <2>1, <2>2 DEF FollowInv, ResolverFollows, Orders
<1>5. CASE Close(u)
  BY <1>5, FollowKept DEF Close, registryVars, serverVars
<1>6. CASE CloseReturns(u)
  BY <1>6, FollowKept DEF CloseReturns, registryVars, serverVars
<1> QED BY <1>1, <1>2, <1>3, <1>4, <1>5, <1>6 DEF UserStep

LEMMA FollowNext == ASSUME IInv, FollowInv, [Next]_vars PROVE FollowInv'
<1>1. DiscoveryTypeOK
  BY TypeOKParts DEF IInv
<1>2. ASSUME NEW c \in Callers, CallStep(c) PROVE FollowInv'
  BY <1>2, FollowKept DEF CallStep, serverVars, discoveryVars, cacheVars
<1>3. CASE UNCHANGED vars
  BY <1>3, FollowKept DEF vars, registryVars, serverVars, discoveryVars, cacheVars
<1> QED BY <1>1, <1>2, <1>3, FollowRegistry, FollowWatch, FollowUser DEF Next

LEMMA FollowInit == Init => FollowInv
BY DEF Init, DiscoveryInit, FollowInv, ResolverFollows

\* A resolver misses no change of the registry between two queries, is created by
\* one user only, and is followed until Close (NewConsulResolver, resolve, watch).
THEOREM FollowsRegistry == Spec => []ResolverFollows
<1>1. IInv /\ FollowInv /\ [Next]_vars => FollowInv'
  BY FollowNext
<1>2. FollowInv => ResolverFollows
  BY DEF FollowInv
<1> QED BY SpecIInv, FollowInit, <1>1, <1>2, PTL DEF Spec
=============================================================================
