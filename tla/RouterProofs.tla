---------------------------- MODULE RouterProofs ----------------------------
(***************************************************************************)
(* Theorems about Router, for any finite set of requests and any limit.    *)
(***************************************************************************)
EXTENDS Router, FiniteSetTheorems, SequenceTheorems, TLAPS

Pcs == {"new", "check", "init", "before", "method", "dispatch", "dispatched", "handler", "unwind", "over"}

\* The deferred calls of the application's hooks.
Application == {"Finish", "recoverPanic", "After"}

\* A defer stack: Cancel outermost, then the decrement, then the hooks.
Stack(d) ==
  /\ Len(d) >= 1 => d[Len(d)] = "Cancel"
  /\ Len(d) >= 2 => d[Len(d) - 1] = "online"
  /\ \A i \in 1..Len(d) - 2 : d[i] \in Application

\* What is deferred at least where the body of a request stands; nothing of the
\* application runs or is deferred in a request beyond the limit.
Depth(r) ==
  /\ pc[r] \in {"new", "over"} => Len(defers[r]) = 0
  /\ pc[r] = "check" => Len(defers[r]) = 2
  /\ pc[r] \in {"init", "handler"} => Len(defers[r]) >= 2 /\ ~TooMany(r)
  /\ pc[r] = "before" => Len(defers[r]) >= 4
  /\ pc[r] = "method" => Len(defers[r]) >= 5
  /\ pc[r] \in {"dispatch", "dispatched"} => Len(defers[r]) >= 6
  /\ Len(defers[r]) >= 3 => ~TooMany(r)

Typed ==
  /\ online \in Int
  /\ pc \in [Requests -> Pcs]
  /\ seen \in [Requests -> Int]
  /\ defers \in [Requests -> Seq(Deferred)]

Stacked == Typed /\ \A r \in Requests : Stack(defers[r]) /\ Depth(r)

LEMMA StackLength ==
  ASSUME NEW d \in Seq(Deferred), Stack(d)
  PROVE  /\ Len(d) \in Nat
         /\ d # <<>> <=> Len(d) >= 1
         /\ d # <<>> => /\ Head(d) = "Cancel" <=> Len(d) = 1
                        /\ Head(d) = "online" <=> Len(d) = 2
                        /\ Head(d) \in Application <=> Len(d) >= 3
         /\ (\E i \in DOMAIN d : d[i] = "online") <=> Len(d) >= 2
<1>1. Len(d) \in Nat /\ DOMAIN d = 1..Len(d) /\ (d # <<>> <=> Len(d) >= 1)
  BY LenProperties, EmptySeq
<1>2. d # <<>> => Head(d) = d[1]
  BY <1>1
<1>3. ASSUME Len(d) >= 1 PROVE d[Len(d)] = "Cancel" /\ d[Len(d)] # "online" /\ d[Len(d)] \notin Application
  BY <1>3 DEF Stack, Application
<1>4. ASSUME Len(d) >= 2
      PROVE  d[Len(d) - 1] = "online" /\ d[Len(d) - 1] # "Cancel" /\ d[Len(d) - 1] \notin Application
  BY <1>4 DEF Stack, Application
<1>5. ASSUME NEW i \in 1..Len(d) - 2 PROVE d[i] \in Application /\ d[i] # "online" /\ d[i] # "Cancel"
  <2>1. d[i] \in Application
    BY DEF Stack
  <2> QED BY <2>1 DEF Application
<1>6. Len(d) = 0 \/ Len(d) = 1 \/ Len(d) = 2 \/ Len(d) >= 3
  BY <1>1
<1>7. d # <<>> => /\ Head(d) = "Cancel" <=> Len(d) = 1
                  /\ Head(d) = "online" <=> Len(d) = 2
                  /\ Head(d) \in Application <=> Len(d) >= 3
  <2>1. CASE Len(d) = 1
    BY <1>1, <1>2, <1>3, <2>1
  <2>2. CASE Len(d) = 2
    BY <1>1, <1>2, <1>4, <2>2
  <2>3. CASE Len(d) >= 3
    <3>1. 1 \in 1..Len(d) - 2
      BY <1>1, <2>3
    <3>2. d[1] \in Application /\ d[1] # "online" /\ d[1] # "Cancel"
      BY <1>5, <3>1
    <3> QED BY <1>1, <1>2, <2>3, <3>2
  <2> QED BY <1>1, <1>6, <2>1, <2>2, <2>3
<1>8. (\E i \in DOMAIN d : d[i] = "online") <=> Len(d) >= 2
  <2>1. Len(d) >= 2 => Len(d) - 1 \in DOMAIN d /\ d[Len(d) - 1] = "online"
    BY <1>1 DEF Stack
  <2>2. ASSUME NEW i \in DOMAIN d, d[i] = "online", ~(Len(d) >= 2) PROVE FALSE
    <3>1. i = Len(d) /\ Len(d) >= 1
      BY <1>1, <2>2
    <3> QED BY <1>3, <2>2, <3>1
  <2> QED BY <2>1, <2>2
<1> QED BY <1>1, <1>7, <1>8

LEMMA Pop ==
  ASSUME NEW d \in Seq(Deferred), Stack(d), d # <<>>
  PROVE  Tail(d) \in Seq(Deferred) /\ Stack(Tail(d)) /\ Len(Tail(d)) = Len(d) - 1
<1>1. Len(d) \in Nat /\ Len(d) >= 1
  BY StackLength
<1>2. /\ Tail(d) \in Seq(Deferred) /\ Len(Tail(d)) = Len(d) - 1
      /\ \A i \in 1..Len(d) - 1 : Tail(d)[i] = d[i + 1]
  BY <1>1
<1> QED BY <1>1, <1>2 DEF Stack

LEMMA Push ==
  ASSUME NEW d \in Seq(Deferred), Stack(d), Len(d) >= 2, NEW ds \in Seq(Application)
  PROVE  ds \o d \in Seq(Deferred) /\ Stack(ds \o d) /\ Len(ds \o d) = Len(ds) + Len(d)
<1>1. Len(d) \in Nat /\ Len(ds) \in Nat /\ ds \in Seq(Deferred)
  BY DEF Application, Deferred
<1>2. /\ ds \o d \in Seq(Deferred) /\ Len(ds \o d) = Len(ds) + Len(d)
      /\ \A i \in 1..Len(ds) + Len(d) : (ds \o d)[i] = IF i <= Len(ds) THEN ds[i] ELSE d[i - Len(ds)]
  BY <1>1, ConcatProperties
<1>3. \A i \in 1..Len(ds) : ds[i] \in Application
  BY ElementOfSeq
<1>4. ASSUME NEW i \in 1..Len(ds) + Len(d) - 2 PROVE (ds \o d)[i] \in Application
  <2>1. CASE i <= Len(ds)
    BY <1>1, <1>2, <1>3, <2>1
  <2>2. CASE i > Len(ds)
    BY <1>1, <1>2, <2>2 DEF Stack
  <2> QED BY <1>1, <2>1, <2>2
<1>5. (ds \o d)[Len(ds) + Len(d)] = "Cancel" /\ (ds \o d)[Len(ds) + Len(d) - 1] = "online"
  BY <1>1, <1>2 DEF Stack
<1> QED BY <1>1, <1>2, <1>4, <1>5 DEF Stack

-----------------------------------------------------------------------------
(* Every request's defer stack fits where it stands.                       *)

LEMMA StackedInit == Init => Stacked
<1> SUFFICES ASSUME Init PROVE Stacked
  OBVIOUS
<1>1. Typed
  BY DEF Init, Typed, Pcs
<1>2. ASSUME NEW r \in Requests PROVE Stack(defers[r]) /\ Depth(r)
  <2>1. defers[r] = <<>> /\ Len(defers[r]) = 0 /\ pc[r] = "new"
    BY DEF Init
  <2> QED BY <2>1 DEF Stack, Depth
<1> QED BY <1>1, <1>2 DEF Stacked

LEMMA RequestTyped ==
  ASSUME Stacked, NEW r \in Requests
  PROVE  /\ pc[r] \in Pcs /\ seen[r] \in Int /\ defers[r] \in Seq(Deferred)
         /\ Stack(defers[r]) /\ Depth(r) /\ Len(defers[r]) \in Nat
BY StackLength DEF Stacked, Typed

\* Request r may stand at x with the stack d.
Fits(r, x, d) ==
  /\ d \in Seq(Deferred) /\ Stack(d) /\ x \in Pcs \ {"check"}
  /\ x \in {"new", "over"} => Len(d) = 0
  /\ x \in {"init", "handler"} => Len(d) >= 2 /\ ~TooMany(r)
  /\ x = "before" => Len(d) >= 4
  /\ x = "method" => Len(d) >= 5
  /\ x \in {"dispatch", "dispatched"} => Len(d) >= 6
  /\ Len(d) >= 3 => ~TooMany(r)

\* One request moves; seen decides about the limit and stays.
LEMMA OneMoves ==
  ASSUME Stacked, NEW r \in Requests, NEW x, NEW d, Fits(r, x, d),
         pc' = [pc EXCEPT ![r] = x], defers' = [defers EXCEPT ![r] = d],
         online' \in Int, seen' = seen
  PROVE  Stacked'
<1> USE DEF Fits
<1>1. Typed'
  BY DEF Stacked, Typed
<1>2. ASSUME NEW q \in Requests PROVE Stack(defers[q])' /\ Depth(q)'
  <2>1. TooMany(q)' <=> TooMany(q)
    BY DEF TooMany
  <2>2. CASE q = r
    <3>1. pc'[q] = x /\ defers'[q] = d
      BY <2>2 DEF Stacked, Typed
    <3> QED BY <2>1, <2>2, <3>1 DEF Depth
  <2>3. CASE q # r
    <3>1. pc'[q] = pc[q] /\ defers'[q] = defers[q]
      BY <2>3 DEF Stacked, Typed
    <3> QED BY <2>1, <3>1, RequestTyped DEF Depth
  <2> QED BY <2>2, <2>3
<1> QED BY <1>1, <1>2 DEF Stacked

\* Where application code may run.
Body == {"init", "before", "method", "dispatch", "dispatched", "handler"}

LEMMA BodyDeep ==
  ASSUME Stacked, NEW r \in Requests, pc[r] \in Body
  PROVE  Len(defers[r]) >= 2 /\ ~TooMany(r)
BY RequestTyped DEF Depth, Body

LEMMA RunCodeStacked ==
  ASSUME Stacked, NEW r \in Requests, pc[r] \in Body, NEW es, NEW o \in Outcomes,
         NEW x \in Body \cup {"unwind"}, NEW ds \in Seq(Application), RunCode(r, es, o, x, ds),
         x = "before" => Len(ds) + Len(defers[r]) >= 4,
         x = "method" => Len(ds) + Len(defers[r]) >= 5,
         x \in {"dispatch", "dispatched"} => Len(ds) + Len(defers[r]) >= 6
  PROVE  Stacked'
<1>1. Len(defers[r]) >= 2 /\ ~TooMany(r) /\ Len(ds) \in Nat /\ Len(defers[r]) \in Nat
  BY BodyDeep, RequestTyped
<1>2. UNCHANGED <<online, seen>> /\ online \in Int
  BY DEF RunCode, Stacked, Typed
<1>3. CASE o = "returns"
  <2>1. /\ ds \o defers[r] \in Seq(Deferred) /\ Stack(ds \o defers[r])
        /\ Len(ds \o defers[r]) = Len(ds) + Len(defers[r])
    BY <1>1, RequestTyped, Push
  <2>2. pc' = [pc EXCEPT ![r] = x] /\ defers' = [defers EXCEPT ![r] = ds \o defers[r]]
    BY <1>3 DEF RunCode
  <2>3. Fits(r, x, ds \o defers[r])
    BY <1>1, <2>1 DEF Fits, Body, Pcs
  <2> QED BY <1>2, <2>2, <2>3, OneMoves
<1>4. CASE o # "returns"
  <2>1. pc' = [pc EXCEPT ![r] = "unwind"] /\ defers' = [defers EXCEPT ![r] = defers[r]]
    BY <1>4 DEF RunCode
  <2>2. Fits(r, "unwind", defers[r])
    BY <1>1, RequestTyped DEF Fits, Pcs
  <2> QED BY <1>2, <2>1, <2>2, OneMoves
<1> QED BY <1>3, <1>4

LEMMA HooksTyped ==
  /\ <<"recoverPanic", "Finish">> \in Seq(Application) /\ Len(<<"recoverPanic", "Finish">>) = 2
  /\ <<"After">> \in Seq(Application) /\ Len(<<"After">>) = 1
  /\ <<>> \in Seq(Application) /\ Len(<<>>) = 0
BY DEF Application

LEMMA BodyStacked ==
  ASSUME Stacked, NEW r \in Requests, NEW o \in Outcomes, NEW found \in BOOLEAN,
         \/ RunHandler(r, o) \/ RunInit(r, o) \/ RunBefore(r, o) \/ RunMethod(r, o, found)
         \/ DispatchBefore(r, o) \/ DispatchMethod(r, o, found) \/ DispatchAfter(r, o)
  PROVE  Stacked'
<1> USE HooksTyped, RequestTyped DEF Body, Depth
<1>1. CASE RunHandler(r, o)
  <2>1. RunCode(r, <<>>, o, "unwind", <<>>) /\ pc[r] \in Body
    BY <1>1 DEF RunHandler
  <2>2. Len(<<>>) + Len(defers[r]) >= 0
    BY <1>1 DEF RunHandler
  <2> HIDE DEF Depth
  <2> QED BY <2>1, <2>2, RunCodeStacked
<1>2. CASE RunInit(r, o)
  <2>1. RunCode(r, <<"Init">>, o, "before", <<"recoverPanic", "Finish">>) /\ pc[r] \in Body
    BY <1>2 DEF RunInit
  <2>2. Len(<<"recoverPanic", "Finish">>) + Len(defers[r]) >= 4
    BY <1>2 DEF RunInit
  <2> HIDE DEF Depth
  <2> QED BY <2>1, <2>2, RunCodeStacked
<1>3. CASE RunBefore(r, o)
  <2>1. RunCode(r, <<"Before">>, o, "method", <<"After">>) /\ pc[r] \in Body
    BY <1>3 DEF RunBefore
  <2>2. Len(<<"After">>) + Len(defers[r]) >= 5
    BY <1>3 DEF RunBefore
  <2> HIDE DEF Depth
  <2> QED BY <2>1, <2>2, RunCodeStacked
<1>4. CASE RunMethod(r, o, found)
  <2>1. RunCode(r, <<>>, o, "unwind", <<>>) /\ pc[r] \in Body
    BY <1>4 DEF RunMethod
  <2>2. Len(<<>>) + Len(defers[r]) >= 0
    BY <1>4 DEF RunMethod
  <2> HIDE DEF Depth
  <2> QED BY <2>1, <2>2, RunCodeStacked
<1>5. CASE DispatchBefore(r, o)
  <2>1. RunCode(r, <<"Before">>, o, "dispatch", <<"After">>) /\ pc[r] \in Body
    BY <1>5 DEF DispatchBefore
  <2>2. Len(<<"After">>) + Len(defers[r]) >= 6
    BY <1>5 DEF DispatchBefore
  <2> HIDE DEF Depth
  <2> QED BY <2>1, <2>2, RunCodeStacked
<1>6. CASE DispatchMethod(r, o, found)
  <2>1. RunCode(r, <<>>, o, "dispatched", <<>>) /\ pc[r] \in Body
    BY <1>6 DEF DispatchMethod
  <2>2. Len(<<>>) + Len(defers[r]) >= 6
    BY <1>6 DEF DispatchMethod
  <2> HIDE DEF Depth
  <2> QED BY <2>1, <2>2, RunCodeStacked
<1>7. CASE DispatchAfter(r, o)
  <2>1. Len(defers[r]) >= 6 /\ ~TooMany(r) /\ defers[r] # <<>>
    BY <1>7, StackLength, BodyDeep DEF DispatchAfter
  <2>2. Tail(defers[r]) \in Seq(Deferred) /\ Stack(Tail(defers[r])) /\ Len(Tail(defers[r])) = Len(defers[r]) - 1
    BY <2>1, Pop
  <2>3. PICK x \in {"method", "unwind"} : pc' = [pc EXCEPT ![r] = x]
    BY <1>7 DEF DispatchAfter
  <2>4. defers' = [defers EXCEPT ![r] = Tail(defers[r])] /\ UNCHANGED <<online, seen>> /\ online \in Int
    BY <1>7 DEF DispatchAfter, Stacked, Typed
  <2>5. Fits(r, x, Tail(defers[r]))
    BY <2>1, <2>2, RequestTyped DEF Fits, Pcs
  <2> QED BY <2>3, <2>4, <2>5, OneMoves
<1> QED BY <1>1, <1>2, <1>3, <1>4, <1>5, <1>6, <1>7

LEMMA CheckStacked ==
  ASSUME Stacked, NEW r \in Requests, Reject(r) \/ NoRoutes(r) \/ Admit(r)
  PROVE  Stacked'
<1>1. /\ pc[r] = "check" /\ Len(defers[r]) = 2 /\ UNCHANGED <<online, seen>> /\ online \in Int
      /\ defers' = [defers EXCEPT ![r] = defers[r]]
  BY RequestTyped DEF Reject, NoRoutes, Admit, Depth, Stacked, Typed
<1>2. \/ pc' = [pc EXCEPT ![r] = "unwind"]
      \/ ~TooMany(r) /\ \E x \in {"init", "handler"} : pc' = [pc EXCEPT ![r] = x]
  BY DEF Reject, NoRoutes, Admit
<1>3. Fits(r, "unwind", defers[r]) /\ (~TooMany(r) => \A x \in {"init", "handler"} : Fits(r, x, defers[r]))
  BY <1>1, RequestTyped DEF Fits, Pcs
<1> QED BY <1>1, <1>2, <1>3, OneMoves

LEMMA UnwindStacked ==
  ASSUME Stacked, NEW r \in Requests, NEW f, Unwinds(r, f), online' \in Int
  PROVE  Stacked'
<1>1. /\ defers[r] # <<>> /\ pc[r] = "unwind" /\ UNCHANGED <<pc, seen>>
      /\ defers' = [defers EXCEPT ![r] = Tail(defers[r])] /\ pc' = [pc EXCEPT ![r] = "unwind"]
  BY DEF Unwinds, Stacked, Typed
<1>2. Tail(defers[r]) \in Seq(Deferred) /\ Stack(Tail(defers[r])) /\ Len(Tail(defers[r])) = Len(defers[r]) - 1
  BY <1>1, RequestTyped, Pop
<1>3. Len(defers[r]) - 1 >= 3 => ~TooMany(r)
  BY RequestTyped DEF Depth
<1>4. Fits(r, "unwind", Tail(defers[r]))
  BY <1>2, <1>3 DEF Fits, Pcs
<1> QED BY <1>1, <1>4, <1>2, OneMoves

LEMMA EnterStacked == ASSUME Stacked, NEW r \in Requests, Enter(r) PROVE Stacked'
<1> DEFINE d == <<"online", "Cancel">>
<1>1. d \in Seq(Deferred) /\ Len(d) = 2 /\ d[1] = "online" /\ d[2] = "Cancel"
  BY DEF Deferred
<1>2. Stack(d)
  BY <1>1 DEF Stack
<1>3. /\ pc' = [pc EXCEPT ![r] = "check"] /\ defers' = [defers EXCEPT ![r] = d]
      /\ seen' = [seen EXCEPT ![r] = online + 1] /\ online' = online + 1
  BY DEF Enter
<1> HIDE DEF d
<1>4. Typed'
  BY <1>1, <1>3 DEF Stacked, Typed, Pcs
<1>5. ASSUME NEW q \in Requests PROVE Stack(defers[q])' /\ Depth(q)'
  <2>1. CASE q = r
    <3>1. pc'[q] = "check" /\ defers'[q] = d
      BY <1>3, <2>1 DEF Stacked, Typed
    <3>2. Stack(defers[q])'
      BY <1>2, <3>1
    <3>3. Len(defers'[q]) = 2
      BY <1>1, <3>1
    <3>4. Depth(q)'
      BY <3>1, <3>3 DEF Depth
    <3> QED BY <3>2, <3>4
  <2>2. CASE q # r
    <3>1. pc'[q] = pc[q] /\ defers'[q] = defers[q] /\ seen'[q] = seen[q]
      BY <1>3, <2>2 DEF Stacked, Typed
    <3> QED BY <3>1, RequestTyped DEF Depth, TooMany
  <2> QED BY <2>1, <2>2
<1> QED BY <1>4, <1>5 DEF Stacked

LEMMA LeaveStacked == ASSUME Stacked, NEW r \in Requests, Leave(r) PROVE Stacked'
<1>1. <<>> \in Seq(Deferred) /\ Len(<<>>) = 0 /\ Stack(<<>>)
  BY DEF Stack
<1>2. /\ pc' = [pc EXCEPT ![r] = "over"] /\ defers' = [defers EXCEPT ![r] = <<>>]
      /\ UNCHANGED <<seen, online>> /\ online \in Int
  BY DEF Leave, Stacked, Typed
<1>3. Fits(r, "over", <<>>)
  BY <1>1 DEF Fits, Pcs
<1> QED BY <1>2, <1>3, OneMoves

LEMMA StackedStep == Stacked /\ [Next]_vars => Stacked'
<1> SUFFICES ASSUME Stacked, [Next]_vars PROVE Stacked'
  OBVIOUS
<1>1. CASE UNCHANGED vars
  BY <1>1 DEF vars, Stacked, Typed, Depth, TooMany
<1>2. ASSUME NEW r \in Requests, Step(r) PROVE Stacked'
  <2>1. CASE Decrement(r)
    <3>1. online' \in Int
      BY <2>1 DEF Decrement, Stacked, Typed
    <3> QED BY <2>1, <3>1, UnwindStacked DEF Decrement
  <2> QED BY <1>2, <2>1, EnterStacked, CheckStacked, LeaveStacked, BodyStacked DEF Step
<1>3. ASSUME NEW r \in Routed, RoutedStep(r) PROVE Stacked'
  <2>1. r \in Requests
    BY DEF Requests
  <2>2. ASSUME NEW o \in Outcomes, DeferredAfter(r, o) \/ RecoverPanic(r, o) \/ DeferredFinish(r, o)
        PROVE  Stacked'
    <3>1. /\ online' \in Int /\ \E f : Unwinds(r, f)
      BY <2>2 DEF DeferredAfter, RecoverPanic, DeferredFinish, RunDeferred, Stacked, Typed
    <3> QED BY <2>1, <3>1, UnwindStacked
  <2> QED BY <1>3, <2>1, <2>2, CheckStacked, BodyStacked DEF RoutedStep
<1> QED BY <1>1, <1>2, <1>3 DEF Next

-----------------------------------------------------------------------------
(* The counter.                                                            *)

\* A request is counted while its decrement is deferred.
Deep == {r \in Requests : Len(defers[r]) >= 2}

LEMMA CountedDeep == Stacked => Counted = Deep
BY RequestTyped, StackLength DEF Counted, Deep

LEMMA CountedDeepNext == Stacked' => (Counted = Deep)'
BY CountedDeep, PTL

LEMMA SubsetsFinite ==
  ASSUME NEW S \in SUBSET Requests
  PROVE  IsFiniteSet(S) /\ Cardinality(S) \in 0..Cardinality(Requests) /\ Cardinality(Requests) \in Nat
<1>1. IsFiniteSet(Requests)
  BY RequestsAssumption
<1>2. IsFiniteSet(S) /\ Cardinality(S) <= Cardinality(Requests)
  BY <1>1, FS_Subset
<1> QED BY <1>1, <1>2, FS_CardinalityType

\* Only Enter and Decrement move the counter and change who is counted.
Arrives(r) ==
  /\ r \notin Counted /\ Counted' = Counted \cup {r}
  /\ online' = online + 1 /\ seen' = [seen EXCEPT ![r] = online + 1]
Departs(r) == r \in Counted /\ Counted' = Counted \ {r} /\ online' = online - 1 /\ seen' = seen
Rests == Counted' = Counted /\ online' = online /\ seen' = seen

Replaces(r, d) == defers' = [defers EXCEPT ![r] = d] /\ (Len(d) >= 2 <=> Len(defers[r]) >= 2)

LEMMA SameDepth ==
  ASSUME Stacked, Stacked', NEW r \in Requests, NEW d, Replaces(r, d)
  PROVE  Counted' = Counted
<1>1. ASSUME NEW q \in Requests PROVE Len(defers'[q]) >= 2 <=> Len(defers[q]) >= 2
  BY DEF Stacked, Typed, Replaces
<1> QED BY <1>1, CountedDeep, CountedDeepNext DEF Deep

LEMMA EnterArrives == ASSUME Stacked, Stacked', NEW r \in Requests, Enter(r) PROVE Arrives(r)
<1> DEFINE d == <<"online", "Cancel">>
<1>1. Len(d) = 2 /\ pc[r] = "new" /\ defers' = [defers EXCEPT ![r] = d]
      /\ online' = online + 1 /\ seen' = [seen EXCEPT ![r] = online + 1]
  BY DEF Enter
<1> HIDE DEF d
<1>2. Len(defers[r]) = 0
  BY <1>1, RequestTyped DEF Depth
<1>3. Counted = Deep /\ Counted' = Deep'
  BY CountedDeep, CountedDeepNext
<1>4. ASSUME NEW q \in Requests PROVE Len(defers'[q]) >= 2 <=> q = r \/ Len(defers[q]) >= 2
  <2>1. defers'[q] = IF q = r THEN d ELSE defers[q]
    BY <1>1 DEF Stacked, Typed
  <2> QED BY <1>1, <2>1
<1> QED BY <1>1, <1>2, <1>3, <1>4 DEF Arrives, Deep

LEMMA DecrementDeparts == ASSUME Stacked, Stacked', NEW r \in Requests, Decrement(r) PROVE Departs(r)
<1>1. /\ defers[r] # <<>> /\ Head(defers[r]) = "online" /\ defers' = [defers EXCEPT ![r] = Tail(defers[r])]
      /\ online' = online - 1 /\ seen' = seen
  BY DEF Decrement, Unwinds
<1>2. Len(defers[r]) = 2 /\ Len(Tail(defers[r])) = 1
  BY <1>1, RequestTyped, StackLength, Pop
<1>3. Counted = Deep /\ Counted' = Deep'
  BY CountedDeep, CountedDeepNext
<1>4. ASSUME NEW q \in Requests PROVE Len(defers'[q]) >= 2 <=> q # r /\ Len(defers[q]) >= 2
  <2>1. defers'[q] = IF q = r THEN Tail(defers[r]) ELSE defers[q]
    BY <1>1 DEF Stacked, Typed
  <2> QED BY <1>2, <2>1
<1>5. Deep' = Deep \ {r} /\ r \in Deep
  BY <1>2, <1>4 DEF Deep
<1> QED BY <1>1, <1>3, <1>5 DEF Departs

LEMMA BodyRests ==
  ASSUME Stacked, Stacked', NEW r \in Requests, NEW o \in Outcomes, NEW found \in BOOLEAN,
         \/ RunHandler(r, o) \/ RunInit(r, o) \/ RunBefore(r, o) \/ RunMethod(r, o, found)
         \/ DispatchBefore(r, o) \/ DispatchMethod(r, o, found) \/ DispatchAfter(r, o)
  PROVE  Rests
<1>1. UNCHANGED <<online, seen>>
  BY DEF RunHandler, RunInit, RunBefore, RunMethod, DispatchBefore, DispatchMethod, DispatchAfter, RunCode
<1>2. PICK ds \in Seq(Application) :
        defers' = [defers EXCEPT ![r] = ds \o @] \/ defers' = [defers EXCEPT ![r] = defers[r]]
          \/ (DispatchAfter(r, o) /\ defers' = [defers EXCEPT ![r] = Tail(@)])
  BY HooksTyped DEF RunHandler, RunInit, RunBefore, RunMethod, DispatchBefore, DispatchMethod, DispatchAfter, RunCode
<1>3. pc[r] \in Body /\ (DispatchAfter(r, o) => pc[r] = "dispatched")
  BY DEF RunHandler, RunInit, RunBefore, RunMethod, DispatchBefore, DispatchMethod, DispatchAfter, Body
<1>4. Len(defers[r]) >= 2 /\ Len(defers[r]) \in Nat
  BY <1>3, BodyDeep, RequestTyped
<1>5. CASE defers' = [defers EXCEPT ![r] = ds \o defers[r]]
  <2>1. Len(ds \o defers[r]) = Len(ds) + Len(defers[r]) /\ Len(ds) \in Nat
    BY <1>4, RequestTyped, Push
  <2>2. Replaces(r, ds \o defers[r])
    BY <1>4, <1>5, <2>1 DEF Replaces
  <2> QED BY <1>1, <2>2, SameDepth DEF Rests
<1>6. CASE defers' = [defers EXCEPT ![r] = defers[r]]
  <2>1. Replaces(r, defers[r])
    BY <1>6 DEF Replaces
  <2> QED BY <1>1, <2>1, SameDepth DEF Rests
<1>7. CASE DispatchAfter(r, o) /\ defers' = [defers EXCEPT ![r] = Tail(defers[r])]
  <2>1. Len(defers[r]) >= 6 /\ defers[r] # <<>>
    BY <1>3, <1>7, RequestTyped, StackLength DEF Depth
  <2>2. Len(Tail(defers[r])) = Len(defers[r]) - 1
    BY <2>1, RequestTyped, Pop
  <2>3. Replaces(r, Tail(defers[r]))
    BY <1>4, <1>7, <2>1, <2>2 DEF Replaces
  <2> QED BY <1>1, <2>3, SameDepth DEF Rests
<1> QED BY <1>2, <1>5, <1>6, <1>7

LEMMA HookRests ==
  ASSUME Stacked, Stacked', NEW r \in Requests, NEW o,
         DeferredAfter(r, o) \/ RecoverPanic(r, o) \/ DeferredFinish(r, o)
  PROVE  Rests
<1>1. PICK f \in Application : Unwinds(r, f) /\ online' = online
  BY DEF DeferredAfter, RecoverPanic, DeferredFinish, RunDeferred, Application
<1>2. /\ defers[r] # <<>> /\ Head(defers[r]) \in Application /\ seen' = seen
      /\ defers' = [defers EXCEPT ![r] = Tail(defers[r])]
  BY <1>1 DEF Unwinds
<1>3. Len(defers[r]) >= 3 /\ Len(Tail(defers[r])) = Len(defers[r]) - 1 /\ Len(defers[r]) \in Nat
  BY <1>2, RequestTyped, StackLength, Pop
<1>4. Replaces(r, Tail(defers[r]))
  BY <1>2, <1>3 DEF Replaces
<1> QED BY <1>1, <1>2, <1>4, SameDepth DEF Rests

LEMMA OthersRest ==
  ASSUME Stacked, Stacked', NEW r \in Requests, Reject(r) \/ NoRoutes(r) \/ Admit(r) \/ Leave(r)
  PROVE  Rests
<1>1. UNCHANGED <<online, seen>>
  BY DEF Reject, NoRoutes, Admit, Leave
<1>2. CASE Leave(r)
  <2>1. defers[r] = <<"Cancel">> /\ defers' = [defers EXCEPT ![r] = <<>>]
    BY <1>2 DEF Leave
  <2>2. Len(defers[r]) = 1 /\ Len(<<>>) = 0
    BY <2>1
  <2>3. Replaces(r, <<>>)
    BY <2>1, <2>2 DEF Replaces
  <2> QED BY <1>1, <2>3, SameDepth DEF Rests
<1>3. CASE Reject(r) \/ NoRoutes(r) \/ Admit(r)
  <2>1. defers' = defers
    BY <1>3 DEF Reject, NoRoutes, Admit
  <2> QED BY <1>1, <2>1 DEF Rests, Counted
<1> QED BY <1>2, <1>3

LEMMA CounterMoves ==
  Stacked /\ [Next]_vars => Rests \/ \E r \in Requests : Arrives(r) \/ Departs(r)
<1> SUFFICES ASSUME Stacked, [Next]_vars PROVE Rests \/ \E r \in Requests : Arrives(r) \/ Departs(r)
  OBVIOUS
<1>1. Stacked'
  BY StackedStep
<1>2. CASE UNCHANGED vars
  BY <1>2 DEF vars, Rests, Counted
<1>3. ASSUME NEW r \in Requests, Step(r) PROVE Rests \/ Arrives(r) \/ Departs(r)
  BY <1>1, <1>3, EnterArrives, DecrementDeparts, OthersRest, BodyRests DEF Step
<1>4. ASSUME NEW r \in Routed, RoutedStep(r) PROVE Rests
  <2>1. r \in Requests
    BY DEF Requests
  <2> QED BY <1>1, <1>4, <2>1, OthersRest, BodyRests, HookRests DEF RoutedStep
<1> QED BY <1>2, <1>3, <1>4 DEF Next

LEMMA CountInit == Init => OnlineCounts
<1> SUFFICES ASSUME Init PROVE OnlineCounts
  OBVIOUS
<1>1. \A r \in Requests : defers[r] = <<>>
  BY DEF Init
<1>2. Counted = {}
  BY <1>1 DEF Counted
<1> QED BY <1>2, FS_EmptySet DEF Init, OnlineCounts

LEMMA CountStep == Stacked /\ OnlineCounts /\ [Next]_vars => OnlineCounts'
<1> SUFFICES ASSUME Stacked, OnlineCounts, [Next]_vars PROVE OnlineCounts'
  OBVIOUS
<1>1. IsFiniteSet(Counted) /\ Cardinality(Counted) \in Nat
  BY SubsetsFinite DEF Counted
<1>2. CASE Rests
  BY <1>2 DEF Rests, OnlineCounts
<1>3. ASSUME NEW r \in Requests, Arrives(r) PROVE OnlineCounts'
  BY <1>1, <1>3, FS_AddElement DEF Arrives, OnlineCounts
<1>4. ASSUME NEW r \in Requests, Departs(r) PROVE OnlineCounts'
  BY <1>1, <1>4, FS_RemoveElement DEF Departs, OnlineCounts
<1> QED BY <1>2, <1>3, <1>4, CounterMoves

\* Whatever panics, and wherever, the counter is what is in flight (Router,
\* HandlerFunc and the gRPC interceptors).
THEOREM CounterExact == Spec => []OnlineCounts
<1>1. Spec => [](Stacked /\ OnlineCounts)
  BY StackedInit, StackedStep, CountInit, CountStep, PTL DEF Spec
<1> QED BY <1>1, PTL

-----------------------------------------------------------------------------
(* The limit.                                                              *)

\* The counted requests that passed the check, or will.
Admitted == {r \in Counted : ~TooMany(r)}

\* Whoever saw the counter within the limit when it was counted is one of at
\* most so many.
LimitHolds == Concurrence > 0 => Cardinality(Admitted) <= Concurrence

LEMMA LimitInit == Init => LimitHolds
<1> SUFFICES ASSUME Init PROVE LimitHolds
  OBVIOUS
<1>1. \A r \in Requests : defers[r] = <<>>
  BY DEF Init
<1>2. Admitted = {}
  BY <1>1 DEF Counted, Admitted
<1> QED BY <1>2, FS_EmptySet, ConcurrenceAssumption DEF LimitHolds

LEMMA LimitStep == Stacked /\ OnlineCounts /\ LimitHolds /\ [Next]_vars => LimitHolds'
<1> SUFFICES ASSUME Stacked, OnlineCounts, LimitHolds, [Next]_vars, Concurrence > 0
             PROVE  Cardinality(Admitted') <= Concurrence
  BY DEF LimitHolds
<1>1. Concurrence \in Nat /\ Cardinality(Admitted) <= Concurrence
  BY ConcurrenceAssumption DEF LimitHolds
<1>2. Counted \subseteq Requests /\ Counted' \subseteq Requests
  BY DEF Counted
<1>3. /\ IsFiniteSet(Counted) /\ Cardinality(Counted) \in Nat
      /\ IsFiniteSet(Counted') /\ Cardinality(Counted') \in Nat
      /\ IsFiniteSet(Admitted) /\ Cardinality(Admitted) \in Nat
  BY <1>2, SubsetsFinite DEF Admitted
<1>4. CASE Rests
  <2>1. Admitted' = Admitted
    BY <1>4 DEF Rests, Admitted, TooMany
  <2> QED BY <1>1, <2>1
<1>5. ASSUME NEW r \in Requests, Departs(r) PROVE Cardinality(Admitted') <= Concurrence
  <2>1. Admitted' \subseteq Admitted
    BY <1>5 DEF Departs, Admitted, TooMany
  <2>2. Cardinality(Admitted') <= Cardinality(Admitted) /\ Cardinality(Admitted') \in Nat
    BY <1>3, <2>1, FS_Subset, FS_CardinalityType
  <2> QED BY <1>1, <1>3, <2>2
<1>6. ASSUME NEW r \in Requests, Arrives(r) PROVE Cardinality(Admitted') <= Concurrence
  <2>1. seen'[r] = online + 1 /\ \A q \in Requests \ {r} : seen'[q] = seen[q]
    BY <1>6 DEF Arrives, Stacked, Typed
  <2>2. CASE online + 1 > Concurrence
    <3>1. Admitted' = Admitted
      BY <1>2, <1>6, <2>1, <2>2 DEF Arrives, Admitted, TooMany
    <3> QED BY <1>1, <3>1
  <2>3. CASE ~(online + 1 > Concurrence)
    <3>1. Cardinality(Counted') = online + 1
      BY <1>3, <1>6, FS_AddElement DEF Arrives, OnlineCounts
    <3>2. Admitted' \subseteq Counted'
      BY DEF Admitted
    <3>3. Cardinality(Admitted') <= Cardinality(Counted') /\ Cardinality(Admitted') \in Nat
      BY <1>3, <3>2, FS_Subset, FS_CardinalityType
    <3> QED BY <1>1, <1>3, <2>3, <3>1, <3>3
  <2> QED BY <2>2, <2>3
<1> QED BY <1>4, <1>5, <1>6, CounterMoves

LEMMA BusyAdmitted == Stacked => Busy \subseteq Admitted
<1> SUFFICES ASSUME Stacked, NEW r \in Busy PROVE r \in Admitted
  OBVIOUS
<1>1. r \in Requests /\ Counted = Deep
  BY CountedDeep DEF Busy
<1>2. CASE pc[r] \in Body
  BY <1>1, <1>2, BodyDeep DEF Admitted, Deep
<1>3. CASE pc[r] \notin Body
  <2>1. defers[r] # <<>> /\ Head(defers[r]) \in Application
    BY <1>3 DEF Busy, Body, Application
  <2>2. Len(defers[r]) >= 3 /\ Len(defers[r]) \in Nat
    BY <1>1, <2>1, RequestTyped, StackLength
  <2>3. ~TooMany(r)
    BY <1>1, <2>2, RequestTyped DEF Depth
  <2> QED BY <1>1, <2>2, <2>3 DEF Admitted, Deep
<1> QED BY <1>2, <1>3

LEMMA LimitBusy == Stacked /\ LimitHolds => ConcurrenceLimit
<1> SUFFICES ASSUME Stacked, LimitHolds, Concurrence > 0 PROVE Cardinality(Busy) <= Concurrence
  BY DEF ConcurrenceLimit
<1>1. Admitted \subseteq Requests /\ Busy \subseteq Admitted
  BY BusyAdmitted DEF Admitted, Counted
<1>2. /\ IsFiniteSet(Admitted) /\ Cardinality(Admitted) \in Nat
      /\ Cardinality(Busy) <= Cardinality(Admitted) /\ Cardinality(Busy) \in Nat
  BY <1>1, SubsetsFinite, FS_Subset, FS_CardinalityType
<1> QED BY <1>2, ConcurrenceAssumption DEF LimitHolds

\* However the increments, checks and decrements of the requests mix, no more
\* than Concurrence of them are inside application code (checkConcurrence).
THEOREM LimitRespected == Spec => []ConcurrenceLimit
<1>1. Spec => [](Stacked /\ OnlineCounts /\ LimitHolds)
  BY StackedInit, StackedStep, CountInit, CountStep, LimitInit, LimitStep, PTL DEF Spec
<1> QED BY <1>1, LimitBusy, PTL

-----------------------------------------------------------------------------
(* Types.                                                                  *)

Events == Hooks \cup {"stops", "panics"}

Data ==
  /\ hasRoutes \in BOOLEAN
  /\ panic \in [Requests -> {"none", "stops", "panics"}]
  /\ status \in [Requests -> Statuses]
  /\ sent \in [Requests -> Statuses \cup {"nothing"}]
  /\ log \in [Requests -> Seq(Events)]

SeenInRange == seen \in [Requests -> 0..Cardinality(Requests)]

\* What a step writes to the log and to the panic is of their types.
LEMMA Logged ==
  ASSUME Data, NEW r \in Requests, NEW es \in Seq(Events), NEW o \in Outcomes
  PROVE  /\ log[r] \o es \o Raised(o) \in Seq(Events)
         /\ o # "returns" => o \in {"none", "stops", "panics"}
<1>1. Raised(o) \in Seq(Events)
  <2>1. o # "returns" => o \in Events
    BY DEF Outcomes, Events
  <2> QED BY <2>1 DEF Raised
<1>2. log[r] \in Seq(Events)
  BY DEF Data
<1> QED BY <1>1, <1>2 DEF Outcomes

LEMMA RunCodeData ==
  ASSUME Data, NEW r \in Requests, NEW es \in Seq(Events), NEW o \in Outcomes, NEW x, NEW ds,
         RunCode(r, es, o, x, ds), status' \in [Requests -> Statuses]
  PROVE  Data'
<1>1. log' = [log EXCEPT ![r] = log[r] \o es \o Raised(o)]
  BY DEF RunCode
<1>2. log' \in [Requests -> Seq(Events)]
  BY <1>1, Logged DEF Data
<1>3. panic' \in [Requests -> {"none", "stops", "panics"}]
  BY Logged DEF Data, RunCode
<1> QED BY <1>2, <1>3 DEF Data, RunCode

LEMMA EventsTyped ==
  /\ <<>> \in Seq(Events)
  /\ \A hook \in Hooks : <<hook>> \in Seq(Events)
  /\ {"Init", "Before", "After", "ServerError", "Finish"} \subseteq Hooks
BY DEF Events, Hooks

LEMMA BodyData ==
  ASSUME Data, NEW r \in Requests, NEW o \in Outcomes, NEW found \in BOOLEAN,
         \/ RunHandler(r, o) \/ RunInit(r, o) \/ RunBefore(r, o) \/ RunMethod(r, o, found)
         \/ DispatchBefore(r, o) \/ DispatchMethod(r, o, found) \/ DispatchAfter(r, o)
  PROVE  Data'
<1>1. CASE ~DispatchAfter(r, o)
  <2>1. PICK es \in {<<>>, <<"Init">>, <<"Before">>} : \E x, ds : RunCode(r, es, o, x, ds)
    BY <1>1 DEF RunHandler, RunInit, RunBefore, RunMethod, DispatchBefore, DispatchMethod
  <2>2. status' \in [Requests -> Statuses]
    BY <1>1 DEF RunHandler, RunInit, RunBefore, RunMethod, DispatchBefore, DispatchMethod, StatusOf, Data, Statuses
  <2>3. es \in Seq(Events)
    BY <2>1, EventsTyped
  <2> QED BY <2>1, <2>2, <2>3, RunCodeData
<1>2. CASE DispatchAfter(r, o)
  <2>1. log' = [log EXCEPT ![r] = log[r] \o <<"After">> \o Raised(o)]
    BY <1>2 DEF DispatchAfter
  <2>2. <<"After">> \in Seq(Events)
    BY EventsTyped
  <2>3. log' \in [Requests -> Seq(Events)]
    BY <2>1, <2>2, Logged DEF Data
  <2>4. panic' \in [Requests -> {"none", "stops", "panics"}]
    BY <1>2, <2>2, Logged DEF DispatchAfter, Data
  <2> QED BY <1>2, <2>3, <2>4 DEF DispatchAfter, Data
<1> QED BY <1>1, <1>2

LEMMA HookData ==
  ASSUME Data, NEW r \in Requests, NEW o \in Outcomes,
         DeferredAfter(r, o) \/ RecoverPanic(r, o) \/ DeferredFinish(r, o)
  PROVE  Data'
<1>1. hasRoutes' = hasRoutes
  BY DEF DeferredAfter, RecoverPanic, DeferredFinish, RunDeferred, Unwinds
<1>2. PICK hook \in Hooks :
        log' = log \/ log' = [log EXCEPT ![r] = log[r] \o <<hook>> \o Raised(o)]
  BY EventsTyped DEF DeferredAfter, RecoverPanic, DeferredFinish, RunDeferred
<1>3. <<hook>> \in Seq(Events)
  BY EventsTyped
<1>4. log' \in [Requests -> Seq(Events)]
  <2>1. log[r] \o <<hook>> \o Raised(o) \in Seq(Events)
    BY <1>3, Logged
  <2> HIDE DEF Hooks
  <2> QED BY <1>2, <2>1 DEF Data
<1>5. panic' \in [Requests -> {"none", "stops", "panics"}]
  <2>1. \E v \in {panic[r], "none", o} : (o = "returns" => v # o) /\ panic' = [panic EXCEPT ![r] = v]
    BY DEF DeferredAfter, RecoverPanic, DeferredFinish, RunDeferred, Data
  <2>2. panic[r] \in {"none", "stops", "panics"} /\ (o # "returns" => o \in {"none", "stops", "panics"})
    BY DEF Data, Outcomes
  <2> QED BY <2>1, <2>2 DEF Data
<1>6. status' \in [Requests -> Statuses]
  BY DEF DeferredAfter, RecoverPanic, DeferredFinish, RunDeferred, Data, Statuses
<1>7. sent' \in [Requests -> Statuses \cup {"nothing"}]
  BY DEF DeferredAfter, RecoverPanic, DeferredFinish, RunDeferred, Data
<1> QED BY <1>1, <1>4, <1>5, <1>6, <1>7 DEF Data

LEMMA OtherData ==
  ASSUME Data, NEW r \in Requests,
         Enter(r) \/ Reject(r) \/ NoRoutes(r) \/ Admit(r) \/ Decrement(r) \/ Leave(r)
  PROVE  Data'
<1>1. hasRoutes' = hasRoutes /\ log' = log
  BY DEF Enter, Reject, NoRoutes, Admit, Decrement, Leave, Unwinds
<1>2. panic' \in [Requests -> {"none", "stops", "panics"}]
  BY DEF Enter, Reject, NoRoutes, Admit, Decrement, Leave, RecoverPlain, Data
<1>3. status' \in [Requests -> Statuses]
  BY DEF Enter, Reject, NoRoutes, Admit, Decrement, Leave, Data, Statuses
<1>4. sent' \in [Requests -> Statuses \cup {"nothing"}]
  BY DEF Enter, Reject, NoRoutes, Admit, Decrement, Leave, RecoverPlain, Data, Statuses
<1> QED BY <1>1, <1>2, <1>3, <1>4 DEF Data

LEMMA DataInit == Init => Data
BY DEF Init, Data, Statuses

LEMMA DataStep == Data /\ [Next]_vars => Data'
<1> SUFFICES ASSUME Data, [Next]_vars PROVE Data'
  OBVIOUS
<1>1. CASE UNCHANGED vars
  BY <1>1 DEF vars, Data
<1>2. ASSUME NEW r \in Requests, Step(r) PROVE Data'
  BY <1>2, OtherData, BodyData DEF Step
<1>3. ASSUME NEW r \in Routed, RoutedStep(r) PROVE Data'
  <2>1. r \in Requests
    BY DEF Requests
  <2> QED BY <1>3, <2>1, OtherData, BodyData, HookData DEF RoutedStep
<1> QED BY <1>1, <1>2, <1>3 DEF Next

LEMMA SeenStep == Stacked /\ OnlineCounts /\ SeenInRange /\ [Next]_vars => SeenInRange'
<1> SUFFICES ASSUME Stacked, OnlineCounts, SeenInRange, [Next]_vars PROVE SeenInRange'
  OBVIOUS
<1>1. CASE seen' = seen
  BY <1>1 DEF SeenInRange
<1>2. ASSUME NEW r \in Requests, Arrives(r) PROVE SeenInRange'
  <2>1. OnlineCounts'
    BY CountStep
  <2>2. Counted' \in SUBSET Requests
    BY DEF Counted
  <2>3. online' \in 0..Cardinality(Requests)
    BY <2>1, <2>2, SubsetsFinite DEF OnlineCounts
  <2> QED BY <1>2, <2>3 DEF Arrives, SeenInRange
<1> QED BY <1>1, <1>2, CounterMoves DEF Rests, Departs

LEMMA TypesHold == Stacked /\ OnlineCounts /\ SeenInRange /\ Data => TypeOK
<1> SUFFICES ASSUME Stacked, OnlineCounts, SeenInRange, Data PROVE TypeOK
  OBVIOUS
<1>1. online \in 0..Cardinality(Requests)
  BY SubsetsFinite DEF OnlineCounts, Counted
<1> QED BY <1>1 DEF TypeOK, Stacked, Typed, SeenInRange, Data, Events, Pcs

\* The types of the state; the counter never goes below zero nor above the
\* number of requests, so AddUint32(&online, ^uint32(0)) does not wrap.
THEOREM TypeCorrect == Spec => []TypeOK
<1>1. Init => SeenInRange
  <2>1. 0 \in 0..Cardinality(Requests)
    BY SubsetsFinite
  <2> QED BY <2>1 DEF Init, SeenInRange
<1>2. Spec => [](Stacked /\ OnlineCounts /\ SeenInRange /\ Data)
  BY <1>1, StackedInit, StackedStep, CountInit, CountStep, SeenStep, DataInit, DataStep, PTL DEF Spec
<1> QED BY <1>2, TypesHold, PTL

-----------------------------------------------------------------------------
(* The hook protocol.                                                      *)

\* The hooks of a defer stack: Finish, on it recoverPanic, on it the Afters.
Ordered(d) ==
  /\ Len(d) >= 3 => d[Len(d) - 2] = "Finish"
  /\ Len(d) >= 4 => d[Len(d) - 3] = "recoverPanic"
  /\ \A i \in 1..Len(d) - 4 : d[i] = "After"

\* While Finish is deferred it has not run; afterwards it has, if Before has.
FinishTold(r) ==
  IF Len(defers[r]) >= 3
    THEN ~Has(log[r], "Finish") /\ (Has(log[r], "Before") \/ pc[r] = "before")
    ELSE IF Has(log[r], "Before") THEN Closed(log[r]) ELSE ~Has(log[r], "Finish")

\* A panic is known until recoverPanic has run, has been made a status then, and
\* Finish, which sends it, leaves nothing to be sent afterwards.
PanicTold(r) ==
  /\ Len(defers[r]) >= 3 => sent[r] = "nothing"
  /\ Len(defers[r]) >= 4 => Hushed(log[r]) \/ panic[r] = "panics"
  /\ Len(defers[r]) = 3 => Hushed(log[r]) \/ status[r] = "500"
  /\ Len(defers[r]) <= 2 /\ (sent[r] \in {"200", "404"} \/ (sent[r] = "nothing" /\ panic[r] = "none")) => Hushed(log[r])

\* A request of Router.
InHooks(r) ==
  /\ Ordered(defers[r]) /\ FinishTold(r) /\ PanicTold(r)
  /\ pc[r] # "handler" /\ (pc[r] = "init" => Len(defers[r]) = 2)
  /\ pc[r] \in {"new", "check", "init"} => log[r] = <<>> /\ sent[r] = "nothing"
  /\ pc[r] \in Body => Hushed(log[r])

\* A gRPC call.
InCall(r) ==
  /\ pc[r] \notin Body \ {"handler"} /\ Len(defers[r]) <= 2
  /\ pc[r] \in {"new", "check", "handler"} => log[r] = <<>> /\ sent[r] = "nothing" /\ panic[r] = "none"
  /\ Len(defers[r]) = 2 => Hushed(log[r]) \/ (panic[r] = "panics" /\ sent[r] \notin {"200", "404"})
  /\ Len(defers[r]) <= 1 => Hushed(log[r]) \/ sent[r] = "500"

Told == (\A r \in Routed : InHooks(r)) /\ (\A r \in Calls : InCall(r))

LEMMA Logs ==
  ASSUME NEW l \in Seq(Events), NEW e \in Events
  PROVE  /\ l \o <<e>> \in Seq(Events)
         /\ \A x : Has(l \o <<e>>, x) <=> Has(l, x) \/ x = e
         /\ e = "stops" => Hushed(l \o <<e>>)
         /\ e # "panics" /\ Hushed(l) => Hushed(l \o <<e>>)
         /\ e = "Finish" /\ ~Has(l, "Finish") => Closed(l \o <<e>>)
         /\ e \notin Hooks /\ Closed(l) => Closed(l \o <<e>>)
<1> DEFINE n == l \o <<e>> k == Len(l)
<1>1. /\ n \in Seq(Events) /\ k \in Nat /\ Len(n) = k + 1 /\ DOMAIN n = 1..(k + 1) /\ DOMAIN l = 1..k
      /\ n[k + 1] = e /\ \A i \in 1..k : n[i] = l[i]
  OBVIOUS
<1> HIDE DEF n, k
<1>2. \A x : Has(n, x) <=> Has(l, x) \/ x = e
  <2> SUFFICES ASSUME NEW x PROVE Has(n, x) <=> Has(l, x) \/ x = e
    OBVIOUS
  <2>1. ASSUME Has(n, x) PROVE Has(l, x) \/ x = e
    <3>1. PICK i \in 1..(k + 1) : n[i] = x
      BY <1>1, <2>1 DEF Has
    <3>2. i \in 1..k \/ i = k + 1
      BY <1>1
    <3> QED BY <1>1, <3>1, <3>2 DEF Has
  <2>2. ASSUME Has(l, x) PROVE Has(n, x)
    <3>1. PICK i \in 1..k : l[i] = x
      BY <1>1, <2>2 DEF Has
    <3>2. i \in DOMAIN n /\ n[i] = x
      BY <1>1, <3>1
    <3> QED BY <3>2 DEF Has
  <2>3. Has(n, e)
    <3>1. k + 1 \in DOMAIN n
      BY <1>1
    <3> QED BY <1>1, <3>1 DEF Has
  <2> QED BY <2>1, <2>2, <2>3
<1>3. ASSUME e = "stops" PROVE Hushed(n)
  <2>1. k + 1 \in DOMAIN n /\ \A i \in DOMAIN n : n[i] = "panics" => k + 1 > i
    BY <1>1, <1>3
  <2> QED BY <1>1, <1>3, <2>1 DEF Hushed
<1>4. ASSUME e # "panics", Hushed(l) PROVE Hushed(n)
  <2> SUFFICES ASSUME NEW i \in 1..(k + 1), n[i] = "panics"
               PROVE  \E j \in 1..(k + 1) : j > i /\ n[j] = "stops"
    BY <1>1 DEF Hushed
  <2>1. i \in 1..k /\ l[i] = "panics"
    BY <1>1, <1>4
  <2>2. PICK j \in 1..k : j > i /\ l[j] = "stops"
    BY <1>1, <1>4, <2>1 DEF Hushed
  <2>3. j \in 1..(k + 1) /\ n[j] = "stops"
    BY <1>1, <2>2
  <2> QED BY <2>2, <2>3
<1>5. ASSUME e = "Finish", ~Has(l, "Finish") PROVE Closed(n)
  <2>1. \A j \in 1..k : l[j] # "Finish"
    BY <1>1, <1>5 DEF Has
  <2>2. \A j \in DOMAIN n \ {k + 1} : n[j] # "Finish" /\ ~(j > k + 1)
    BY <1>1, <2>1
  <2>3. k + 1 \in DOMAIN n /\ n[k + 1] = "Finish"
    BY <1>1, <1>5
  <2> QED BY <2>2, <2>3 DEF Closed
<1>6. ASSUME e \notin Hooks, Closed(l) PROVE Closed(n)
  <2>1. PICK i \in 1..k : l[i] = "Finish" /\ \A j \in 1..k \ {i} : l[j] # "Finish" /\ (j > i => l[j] \notin Hooks)
    BY <1>1, <1>6 DEF Closed
  <2>2. ASSUME NEW j \in DOMAIN n \ {i} PROVE n[j] # "Finish" /\ (j > i => n[j] \notin Hooks)
    <3>1. CASE j = k + 1
      BY <1>1, <1>6, <3>1 DEF Hooks
    <3>2. CASE j \in 1..k
      BY <1>1, <2>1, <3>2
    <3> QED BY <1>1, <3>1, <3>2
  <2>3. i \in DOMAIN n /\ n[i] = "Finish"
    BY <1>1, <2>1
  <2> QED BY <2>2, <2>3 DEF Closed
<1> QED BY <1>1, <1>2, <1>3, <1>4, <1>5, <1>6 DEF n

\* What the log says after application code has run.
LEMMA LogsCode ==
  ASSUME NEW l \in Seq(Events), NEW es, es = <<>> \/ \E hook \in Hooks : es = <<hook>>, NEW o \in Outcomes
  PROVE  LET n == l \o es \o Raised(o)
         IN  /\ \A hook \in Hooks : Has(n, hook) <=> Has(l, hook) \/ es = <<hook>>
             /\ o = "stops" => Hushed(n)
             /\ o = "returns" /\ Hushed(l) => Hushed(n)
             /\ es = <<"Finish">> /\ ~Has(l, "Finish") => Closed(n)
<1> DEFINE m == l \o es
<1>1. /\ m \in Seq(Events) /\ (Hushed(l) => Hushed(m))
      /\ \A hook \in Hooks : Has(m, hook) <=> Has(l, hook) \/ es = <<hook>>
      /\ es = <<"Finish">> /\ ~Has(l, "Finish") => Closed(m)
  <2>1. CASE es = <<>>
    <3>1. m = l /\ \A hook \in Hooks : es # <<hook>>
      BY <2>1, ConcatEmptySeq
    <3>2. "Finish" \in Hooks
      BY DEF Hooks
    <3> QED BY <3>1, <3>2
  <2>2. ASSUME NEW h \in Hooks, es = <<h>> PROVE <1>1
    <3>1. h \in Events /\ h # "panics" /\ \A hook \in Hooks : es = <<hook>> <=> hook = h
      BY <2>2 DEF Events, Hooks
    <3>2. es = <<"Finish">> => h = "Finish"
      BY <2>2
    <3> QED BY <2>2, <3>1, <3>2, Logs
  <2> QED BY <2>1, <2>2
<1> HIDE DEF m
<1>2. CASE o = "returns"
  <2>1. m \o Raised(o) = m
    BY <1>1, <1>2, ConcatEmptySeq DEF Raised
  <2> QED BY <1>1, <1>2, <2>1 DEF m
<1>3. CASE o # "returns"
  <2>1. o \in Events /\ o \notin Hooks /\ Raised(o) = <<o>>
    BY <1>3 DEF Outcomes, Events, Hooks, Raised
  <2> QED BY <1>1, <1>3, <2>1, Logs DEF m
<1> QED BY <1>2, <1>3

LEMMA Lengths ==
  ASSUME NEW n
  PROVE  /\ n \in Nat /\ n >= 3 /\ n # 3 /\ n # 4 => n >= 5
         /\ n \in Nat /\ n >= 2 /\ n <= 2 => n = 2
         /\ n = 3 => n >= 3 /\ ~(n >= 4) /\ ~(n <= 2)
         /\ n \in {0, 1, 2} => ~(n >= 3) /\ ~(n >= 4) /\ n # 3 /\ n <= 2 /\ n \in Nat
         /\ n \in {0, 1} => n # 2 /\ n <= 1
         /\ n = 2 => ~(n <= 1)
OBVIOUS

LEMMA OrderedStack ==
  ASSUME NEW d \in Seq(Deferred), Stack(d), Ordered(d)
  PROVE  /\ Len(d) >= 1 => Ordered(Tail(d))
         /\ Len(d) >= 4 => Ordered(<<"After">> \o d)
         /\ Len(d) = 2 => Ordered(<<"recoverPanic", "Finish">> \o d)
         /\ <<>> \o d = d
         /\ Len(d) >= 3 => Head(d) = IF Len(d) = 3 THEN "Finish" ELSE IF Len(d) = 4 THEN "recoverPanic" ELSE "After"
<1> DEFINE k == Len(d)
<1>1. k \in Nat
  OBVIOUS
<1>2. ASSUME k >= 1 PROVE Ordered(Tail(d))
  <2>1. Len(Tail(d)) = k - 1 /\ \A i \in 1..k - 1 : Tail(d)[i] = d[i + 1]
    BY <1>2
  <2> QED BY <1>1, <1>2, <2>1 DEF Ordered
<1>3. ASSUME k >= 4 PROVE Ordered(<<"After">> \o d)
  <2> DEFINE n == <<"After">> \o d
  <2>1. Len(n) = k + 1 /\ n[1] = "After" /\ \A i \in 2..k + 1 : n[i] = d[i - 1]
    BY <1>1
  <2> HIDE DEF n
  <2>2. n[k - 1] = "Finish" /\ n[k - 2] = "recoverPanic"
    BY <1>1, <1>3, <2>1 DEF Ordered
  <2>3. ASSUME NEW i \in 1..(k + 1) - 4 PROVE n[i] = "After"
    <3>1. CASE i = 1
      BY <2>1, <3>1
    <3>2. CASE i # 1
      <4>1. i - 1 \in 1..k - 4 /\ i \in 2..k + 1
        BY <1>1, <3>2
      <4> QED BY <2>1, <4>1 DEF Ordered
    <3> QED BY <3>1, <3>2
  <2> QED BY <1>1, <2>1, <2>2, <2>3 DEF Ordered, n
<1>4. ASSUME k = 2 PROVE Ordered(<<"recoverPanic", "Finish">> \o d)
  <2> DEFINE c == <<"recoverPanic", "Finish">> n == c \o d
  <2>1. c \in Seq(Deferred) /\ Len(c) = 2 /\ c[1] = "recoverPanic" /\ c[2] = "Finish"
    BY DEF Deferred
  <2>2. Len(n) = 4 /\ n[1] = c[1] /\ n[2] = c[2]
    <3> HIDE DEF c
    <3>1. Len(n) = Len(c) + Len(d) /\ \A i \in 1..Len(c) + Len(d) : n[i] = IF i <= Len(c) THEN c[i] ELSE d[i - Len(c)]
      BY <2>1, ConcatProperties
    <3> HIDE DEF n
    <3> QED BY <1>4, <2>1, <3>1
  <2> HIDE DEF c, n
  <2>3. Ordered(n)
    BY <2>1, <2>2 DEF Ordered
  <2> QED BY <2>3 DEF c, n
<1>5. ASSUME k >= 3 PROVE Head(d) = IF k = 3 THEN "Finish" ELSE IF k = 4 THEN "recoverPanic" ELSE "After"
  <2>1. Head(d) = d[1]
    BY <1>5
  <2>2. CASE k = 3
    BY <2>1, <2>2 DEF Ordered
  <2>3. CASE k = 4
    BY <2>1, <2>3 DEF Ordered
  <2>4. CASE k > 4
    <3>1. 1 \in 1..k - 4
      BY <1>1, <2>4
    <3>2. d[1] = "After"
      BY <3>1 DEF Ordered
    <3>3. k # 3 /\ k # 4
      <4> HIDE DEF k
      <4> QED BY <1>1, <2>4
    <3> QED BY <2>1, <3>2, <3>3
  <2>5. k = 3 \/ k = 4 \/ k > 4
    <3> HIDE DEF k
    <3> QED BY <1>1, <1>5
  <2> QED BY <2>2, <2>3, <2>4, <2>5
<1> QED BY <1>2, <1>3, <1>4, <1>5, ConcatEmptySeq

\* One request moves; told is what is known of the others as before.
Moves(r) ==
  \A q \in Requests \ {r} :
    /\ pc'[q] = pc[q] /\ defers'[q] = defers[q] /\ panic'[q] = panic[q]
    /\ status'[q] = status[q] /\ sent'[q] = sent[q] /\ log'[q] = log[q]

LEMMA ToldMoves ==
  ASSUME Told, NEW r \in Requests, Moves(r), r \in Routed => InHooks(r)', r \in Calls => InCall(r)'
  PROVE  Told'
<1>1. ASSUME NEW q \in Routed PROVE InHooks(q)'
  <2>1. CASE q # r
    <3>1. q \in Requests /\ InHooks(q)
      BY DEF Told, Requests
    <3> QED BY <2>1, <3>1 DEF Moves, InHooks, FinishTold, PanicTold
  <2> QED BY <2>1
<1>2. ASSUME NEW q \in Calls PROVE InCall(q)'
  <2>1. CASE q # r
    <3>1. q \in Requests /\ InCall(q)
      BY DEF Told, Requests
    <3> QED BY <2>1, <3>1 DEF Moves, InCall
  <2> QED BY <2>1
<1> QED BY <1>1, <1>2 DEF Told

LEMMA StepMoves ==
  ASSUME Stacked, Data, NEW r \in Requests, Step(r) \/ (r \in Routed /\ RoutedStep(r))
  PROVE  Moves(r)
<1> USE DEF Stacked, Typed, Data, Moves
<1>1. CASE Enter(r) \/ Reject(r) \/ Admit(r) \/ NoRoutes(r)
  BY <1>1 DEF Enter, Reject, Admit, NoRoutes
<1>2. CASE Decrement(r) \/ Leave(r)
  BY <1>2 DEF Decrement, Leave, Unwinds, RecoverPlain
<1>3. ASSUME NEW es, NEW o, NEW x, NEW ds, RunCode(r, es, o, x, ds), NEW found, UNCHANGED status \/ StatusOf(r, found)
      PROVE  Moves(r)
  BY <1>3 DEF RunCode, StatusOf
<1>4. ASSUME NEW o \in Outcomes,
             \/ RunHandler(r, o) \/ RunInit(r, o) \/ RunBefore(r, o) \/ DispatchBefore(r, o)
             \/ \E found \in BOOLEAN : RunMethod(r, o, found) \/ DispatchMethod(r, o, found)
      PROVE  Moves(r)
  BY <1>3, <1>4 DEF RunHandler, RunInit, RunBefore, DispatchBefore, RunMethod, DispatchMethod
<1>5. ASSUME NEW o \in Outcomes,
             DispatchAfter(r, o) \/ DeferredAfter(r, o) \/ DeferredFinish(r, o) \/ RecoverPanic(r, o)
      PROVE  Moves(r)
  BY <1>5 DEF DispatchAfter, DeferredAfter, DeferredFinish, RecoverPanic, RunDeferred, Unwinds
<1> HIDE DEF Moves
<1> QED BY <1>1, <1>2, <1>4, <1>5 DEF Step, RoutedStep

-----------------------------------------------------------------------------
\* A controller's request that runs application code.
LEMMA BodyLogs ==
  ASSUME Stacked, Data, Told, NEW r \in Routed, pc[r] \in Body
  PROVE  /\ r \in Requests /\ log[r] \in Seq(Events) /\ defers[r] \in Seq(Deferred) /\ Stack(defers[r])
         /\ InHooks(r) /\ Hushed(log[r])
         /\ pc[r] # "init" => /\ Len(defers[r]) >= 4 /\ sent[r] = "nothing" /\ ~Has(log[r], "Finish")
                              /\ pc[r] # "before" => Has(log[r], "Before")
<1>1. r \in Requests /\ InHooks(r)
  BY DEF Requests, Told
<1>2. pc[r] # "init" => Len(defers[r]) >= 4
  BY <1>1, RequestTyped DEF Body, Depth, InHooks
<1>3. Len(defers[r]) \in Nat
  BY <1>1, RequestTyped
<1> QED BY <1>1, <1>2, <1>3, RequestTyped DEF InHooks, FinishTold, PanicTold, Data

\* Where the code's log, panic and stack leave such a request: above Finish.
LEMMA AboveFinish ==
  ASSUME NEW r \in Routed, NEW d \in Seq(Deferred), NEW l, NEW p, NEW x,
         Ordered(d), Len(d) >= 4, Hushed(l) \/ p = "panics", ~Has(l, "Finish"),
         Has(l, "Before") \/ x = "before", x \in Body \ {"init", "handler"} => Hushed(l),
         x \in (Body \ {"init", "handler"}) \cup {"unwind"},
         pc'[r] = x, defers'[r] = d, log'[r] = l, panic'[r] = p, sent'[r] = "nothing"
  PROVE  InHooks(r)'
<1>1. Len(d) >= 3 /\ Len(d) # 3 /\ ~(Len(d) <= 2)
  <2> DEFINE k == Len(d)
  <2>1. k \in Nat /\ k >= 4
    OBVIOUS
  <2> HIDE DEF k
  <2>2. k >= 3 /\ k # 3 /\ ~(k <= 2)
    BY <2>1
  <2> QED BY <2>2 DEF k
<1>2. FinishTold(r)'
  BY <1>1 DEF FinishTold
<1>3. PanicTold(r)'
  BY <1>1 DEF PanicTold
<1> QED BY <1>2, <1>3 DEF InHooks, Body

LEMMA RunCodeTold ==
  ASSUME Stacked, Data, Told, NEW r \in Routed, pc[r] \in Body, NEW o \in Outcomes,
         NEW es \in {<<>>, <<"Before">>}, NEW x \in (Body \ {"init", "handler"}) \cup {"unwind"},
         NEW ds \in {<<>>, <<"After">>}, RunCode(r, es, o, x, ds),
         pc[r] # "init", pc[r] = "before" => es = <<"Before">>
  PROVE  InHooks(r)'
<1> DEFINE l == log[r] \o es \o Raised(o)
           d == IF o = "returns" THEN ds \o defers[r] ELSE defers[r]
           p == IF o = "returns" THEN panic[r] ELSE o
           y == IF o = "returns" THEN x ELSE "unwind"
<1>1. /\ log'[r] = l /\ defers'[r] = d /\ panic'[r] = p /\ pc'[r] = y /\ sent'[r] = sent[r]
  BY BodyLogs DEF RunCode, Data, Stacked, Typed
<1>2. /\ Len(defers[r]) >= 4 /\ sent[r] = "nothing" /\ ~Has(log[r], "Finish") /\ Hushed(log[r])
      /\ (Has(log[r], "Before") \/ es = <<"Before">>) /\ log[r] \in Seq(Events)
      /\ defers[r] \in Seq(Deferred) /\ Stack(defers[r]) /\ Ordered(defers[r]) /\ Len(defers[r]) \in Nat
  BY BodyLogs DEF InHooks
<1>3. d \in Seq(Deferred) /\ Len(d) >= 4 /\ Ordered(d)
  <2>1. CASE o = "returns" /\ ds = <<"After">>
    <3>1. ds \in Seq(Application) /\ Len(ds) = 1
      BY <2>1, HooksTyped
    <3>2. Len(defers[r]) >= 2
      BY <1>2
    <3>3. ds \o defers[r] \in Seq(Deferred) /\ Len(ds \o defers[r]) = Len(ds) + Len(defers[r])
      BY <1>2, <3>1, <3>2, Push
    <3>4. Ordered(ds \o defers[r])
      BY <1>2, <2>1, OrderedStack
    <3>5. 1 + Len(defers[r]) >= 4
      BY <1>2
    <3> QED BY <2>1, <3>1, <3>3, <3>4, <3>5
  <2>2. CASE ~(o = "returns" /\ ds = <<"After">>)
    <3>1. d = defers[r]
      BY <1>2, <2>2, OrderedStack
    <3> QED BY <1>2, <3>1
  <2> QED BY <2>1, <2>2
<1>4. /\ Hushed(l) \/ p = "panics"
      /\ ~Has(l, "Finish") /\ Has(l, "Before") /\ (o = "returns" => Hushed(l))
  <2>1. es = <<>> \/ \E hook \in Hooks : es = <<hook>>
    BY DEF Hooks
  <2>2. "Finish" \in Hooks /\ "Before" \in Hooks /\ es # <<"Finish">>
    BY DEF Hooks
  <2>3. /\ \A hook \in Hooks : Has(l, hook) <=> Has(log[r], hook) \/ es = <<hook>>
        /\ (o = "stops" => Hushed(l)) /\ (o = "returns" => Hushed(l))
    BY <1>2, <2>1, LogsCode
  <2> HIDE DEF l
  <2> QED BY <1>2, <2>2, <2>3 DEF Outcomes
<1>5. y \in (Body \ {"init", "handler"}) \cup {"unwind"} /\ (y \in Body \ {"init", "handler"} => Hushed(l))
  BY <1>4 DEF Body
<1> HIDE DEF l, d, p, y
<1> QED BY <1>1, <1>2, <1>3, <1>4, <1>5, AboveFinish

LEMMA InitTold ==
  ASSUME Stacked, Data, Told, NEW r \in Routed, NEW o \in Outcomes, RunInit(r, o)
  PROVE  InHooks(r)'
<1> DEFINE ds == <<"recoverPanic", "Finish">>
           l == log[r] \o <<"Init">> \o Raised(o)
<1>1. pc[r] = "init" /\ pc[r] \in Body /\ RunCode(r, <<"Init">>, o, "before", ds)
  BY DEF RunInit, Body
<1>2. /\ log[r] = <<>> /\ sent[r] = "nothing" /\ Len(defers[r]) = 2 /\ Ordered(defers[r])
      /\ defers[r] \in Seq(Deferred) /\ Stack(defers[r]) /\ log[r] \in Seq(Events) /\ Hushed(log[r])
  BY <1>1, BodyLogs DEF InHooks
<1>3. /\ log'[r] = l /\ sent'[r] = "nothing"
      /\ defers'[r] = IF o = "returns" THEN ds \o defers[r] ELSE defers[r]
      /\ pc'[r] = IF o = "returns" THEN "before" ELSE "unwind"
      /\ panic'[r] = IF o = "returns" THEN panic[r] ELSE o
  BY <1>1, <1>2, BodyLogs DEF RunCode, Data, Stacked, Typed
<1>4. ~Has(l, "Finish") /\ ~Has(l, "Before") /\ (o = "returns" => Hushed(l))
  <2>1. "Init" \in Hooks /\ "Finish" \in Hooks /\ "Before" \in Hooks
    BY DEF Hooks
  <2>2. ~Has(log[r], "Finish") /\ ~Has(log[r], "Before")
    BY <1>2 DEF Has
  <2>3. /\ \A hook \in Hooks : Has(l, hook) <=> Has(log[r], hook) \/ <<"Init">> = <<hook>>
        /\ (o = "returns" => Hushed(l))
    BY <1>2, <2>1, LogsCode
  <2> HIDE DEF l
  <2> QED BY <2>1, <2>2, <2>3
<1> HIDE DEF l
<1>5. CASE o = "returns"
  <2>1. ds \in Seq(Application) /\ Len(ds) = 2
    BY HooksTyped
  <2>3. Ordered(ds \o defers[r])
    BY <1>2, OrderedStack
  <2> HIDE DEF ds
  <2>2. ds \o defers[r] \in Seq(Deferred) /\ Len(ds \o defers[r]) >= 4
    <3>1. Len(defers[r]) >= 2 /\ 2 + 2 >= 4
      BY <1>2
    <3>2. ds \o defers[r] \in Seq(Deferred) /\ Len(ds \o defers[r]) = Len(ds) + Len(defers[r])
      BY <1>2, <2>1, <3>1, Push
    <3> QED BY <1>2, <2>1, <3>1, <3>2
  <2> QED BY <1>3, <1>4, <1>5, <2>2, <2>3, AboveFinish DEF Body
<1>6. CASE o # "returns"
  <2>1. panic'[r] # "none" /\ pc'[r] = "unwind" /\ defers'[r] = defers[r]
    BY <1>3, <1>6 DEF Outcomes
  <2>2. ~(Len(defers[r]) >= 3) /\ ~(Len(defers[r]) = 3) /\ ~(Len(defers[r]) >= 4)
    BY <1>2
  <2>3. FinishTold(r)'
    BY <1>3, <1>4, <2>1, <2>2 DEF FinishTold
  <2>4. PanicTold(r)'
    BY <1>3, <2>1, <2>2 DEF PanicTold
  <2> QED BY <1>2, <2>1, <2>3, <2>4 DEF InHooks, Body
<1> QED BY <1>5, <1>6

LEMMA BodyTold ==
  ASSUME Stacked, Data, Told, NEW r \in Routed, NEW o \in Outcomes, NEW found \in BOOLEAN,
         \/ RunBefore(r, o) \/ RunMethod(r, o, found)
         \/ DispatchBefore(r, o) \/ DispatchMethod(r, o, found) \/ DispatchAfter(r, o)
  PROVE  InHooks(r)'
<1>1. CASE RunBefore(r, o) \/ DispatchBefore(r, o)
  <2>1. \E x \in {"method", "dispatch"} : RunCode(r, <<"Before">>, o, x, <<"After">>)
    BY <1>1 DEF RunBefore, DispatchBefore
  <2>2. pc[r] \in {"before", "method"}
    BY <1>1 DEF RunBefore, DispatchBefore
  <2> QED BY <2>1, <2>2, RunCodeTold DEF Body
<1>2. CASE RunMethod(r, o, found) \/ DispatchMethod(r, o, found)
  <2>1. \E x \in {"unwind", "dispatched"} : RunCode(r, <<>>, o, x, <<>>)
    BY <1>2 DEF RunMethod, DispatchMethod
  <2>2. pc[r] \in {"method", "dispatch"}
    BY <1>2 DEF RunMethod, DispatchMethod
  <2> QED BY <2>1, <2>2, RunCodeTold DEF Body
<1>3. CASE DispatchAfter(r, o)
  <2> DEFINE l == log[r] \o <<"After">> \o Raised(o)
             p == IF o = "returns" THEN panic[r] ELSE o
             y == IF o = "returns" THEN "method" ELSE "unwind"
  <2>1. pc[r] = "dispatched" /\ pc[r] \in Body
    BY <1>3 DEF DispatchAfter, Body
  <2>2. /\ Len(defers[r]) >= 4 /\ sent[r] = "nothing" /\ ~Has(log[r], "Finish") /\ Hushed(log[r])
        /\ Has(log[r], "Before") /\ log[r] \in Seq(Events) /\ r \in Requests
        /\ defers[r] \in Seq(Deferred) /\ Stack(defers[r]) /\ Ordered(defers[r]) /\ Len(defers[r]) >= 6
    BY <2>1, BodyLogs, RequestTyped DEF InHooks, Depth
  <2>3. Tail(defers[r]) \in Seq(Deferred) /\ Len(Tail(defers[r])) >= 4 /\ Ordered(Tail(defers[r]))
    BY <2>2, OrderedStack
  <2>4. /\ log'[r] = l /\ defers'[r] = Tail(defers[r]) /\ panic'[r] = p /\ pc'[r] = y /\ sent'[r] = "nothing"
    BY <1>3, <2>2 DEF DispatchAfter, Data, Stacked, Typed
  <2>5. /\ Hushed(l) \/ p = "panics"
        /\ ~Has(l, "Finish") /\ Has(l, "Before") /\ (o = "returns" => Hushed(l))
    <3>1. "After" \in Hooks /\ "Finish" \in Hooks /\ "Before" \in Hooks
      BY DEF Hooks
    <3>2. /\ \A hook \in Hooks : Has(l, hook) <=> Has(log[r], hook) \/ <<"After">> = <<hook>>
          /\ (o = "stops" => Hushed(l)) /\ (o = "returns" => Hushed(l))
      BY <2>2, <3>1, LogsCode
    <3> HIDE DEF l
    <3> QED BY <2>2, <3>1, <3>2 DEF Outcomes
  <2>6. y \in (Body \ {"init", "handler"}) \cup {"unwind"} /\ (y \in Body => Hushed(l))
    BY <2>5 DEF Body
  <2> HIDE DEF l, p, y
  <2> QED BY <2>3, <2>4, <2>5, <2>6, AboveFinish
<1> QED BY <1>1, <1>2, <1>3

-----------------------------------------------------------------------------
\* The stack unwinds: After.
LEMMA AfterTold ==
  ASSUME Stacked, Data, Told, NEW r \in Routed, NEW o \in Outcomes, DeferredAfter(r, o)
  PROVE  InHooks(r)'
<1> DEFINE l == log[r] \o <<"After">> \o Raised(o)
           p == IF o = "returns" THEN panic[r] ELSE o
<1>1. r \in Requests /\ pc[r] = "unwind" /\ Head(defers[r]) = "After" /\ defers[r] # <<>>
  BY DEF DeferredAfter, RunDeferred, Unwinds, Requests
<1>2. /\ InHooks(r) /\ log[r] \in Seq(Events) /\ defers[r] \in Seq(Deferred) /\ Stack(defers[r])
      /\ Ordered(defers[r]) /\ Len(defers[r]) \in Nat
  BY <1>1, RequestTyped DEF Told, Data, InHooks
<1>3. Len(defers[r]) >= 5
  <2>1. Len(defers[r]) >= 3
    BY <1>1, <1>2, StackLength DEF Application
  <2>2. Len(defers[r]) # 3 /\ Len(defers[r]) # 4
    BY <1>1, <1>2, <2>1, OrderedStack
  <2> QED BY <1>2, <2>1, <2>2, Lengths
<1>4. Tail(defers[r]) \in Seq(Deferred) /\ Len(Tail(defers[r])) >= 4 /\ Ordered(Tail(defers[r]))
  BY <1>2, <1>3, OrderedStack
<1>5. /\ log'[r] = l /\ defers'[r] = Tail(defers[r]) /\ panic'[r] = p /\ pc'[r] = "unwind" /\ sent'[r] = sent[r]
  BY <1>1 DEF DeferredAfter, RunDeferred, Unwinds, Data, Stacked, Typed
<1>6. /\ sent[r] = "nothing" /\ ~Has(log[r], "Finish") /\ Has(log[r], "Before")
      /\ Hushed(log[r]) \/ panic[r] = "panics"
  BY <1>1, <1>2, <1>3 DEF InHooks, FinishTold, PanicTold
<1>7. (Hushed(l) \/ p = "panics") /\ ~Has(l, "Finish") /\ Has(l, "Before")
  <2>1. "After" \in Hooks /\ "Finish" \in Hooks /\ "Before" \in Hooks
    BY DEF Hooks
  <2>2. /\ \A hook \in Hooks : Has(l, hook) <=> Has(log[r], hook) \/ <<"After">> = <<hook>>
        /\ (o = "stops" => Hushed(l)) /\ (o = "returns" /\ Hushed(log[r]) => Hushed(l))
    BY <1>2, <2>1, LogsCode
  <2> HIDE DEF l
  <2> QED BY <1>6, <2>1, <2>2 DEF Outcomes
<1> HIDE DEF l, p
<1> QED BY <1>4, <1>5, <1>6, <1>7, AboveFinish DEF Body

\* recoverPanic.
LEMMA RecoverTold ==
  ASSUME Stacked, Data, Told, NEW r \in Routed, NEW o \in Outcomes, RecoverPanic(r, o)
  PROVE  InHooks(r)'
<1>1. r \in Requests /\ pc[r] = "unwind" /\ Head(defers[r]) = "recoverPanic" /\ defers[r] # <<>>
  BY DEF RecoverPanic, Unwinds, Requests
<1>2. /\ InHooks(r) /\ log[r] \in Seq(Events) /\ defers[r] \in Seq(Deferred) /\ Stack(defers[r])
      /\ Ordered(defers[r]) /\ Len(defers[r]) \in Nat
  BY <1>1, RequestTyped DEF Told, Data, InHooks
<1>3. Len(defers[r]) = 4
  <2>1. Len(defers[r]) >= 3
    BY <1>1, <1>2, StackLength DEF Application
  <2> QED BY <1>1, <1>2, <2>1, OrderedStack
<1>4. Len(Tail(defers[r])) = 3 /\ Ordered(Tail(defers[r]))
  BY <1>2, <1>3, OrderedStack
<1>5. defers'[r] = Tail(defers[r]) /\ pc'[r] = "unwind" /\ sent'[r] = sent[r]
  BY <1>1 DEF RecoverPanic, Unwinds, Data, Stacked, Typed
<1>6. /\ sent[r] = "nothing" /\ ~Has(log[r], "Finish") /\ Has(log[r], "Before")
      /\ Hushed(log[r]) \/ panic[r] = "panics"
  BY <1>1, <1>2, <1>3 DEF InHooks, FinishTold, PanicTold
<1>7. (Hushed(log'[r]) \/ status'[r] = "500") /\ ~Has(log'[r], "Finish") /\ Has(log'[r], "Before")
  <2>1. CASE panic[r] = "panics"
    <3> DEFINE l == log[r] \o <<"ServerError">> \o Raised(o)
    <3>1. log'[r] = l /\ status'[r] = "500"
      BY <1>1, <2>1 DEF RecoverPanic, Data
    <3>2. "ServerError" \in Hooks /\ "Finish" \in Hooks /\ "Before" \in Hooks
      BY DEF Hooks
    <3>3. \A hook \in Hooks : Has(l, hook) <=> Has(log[r], hook) \/ <<"ServerError">> = <<hook>>
      BY <1>2, <3>2, LogsCode
    <3> HIDE DEF l
    <3> QED BY <1>6, <3>1, <3>2, <3>3
  <2>2. CASE panic[r] # "panics"
    BY <1>6, <2>2 DEF RecoverPanic
  <2> QED BY <2>1, <2>2
<1>10. Len(defers'[r]) >= 3 /\ ~(Len(defers'[r]) >= 4) /\ ~(Len(defers'[r]) <= 2)
  BY <1>4, <1>5, Lengths
<1>8. FinishTold(r)'
  BY <1>7, <1>10 DEF FinishTold
<1>9. PanicTold(r)'
  BY <1>5, <1>6, <1>7, <1>10 DEF PanicTold
<1> QED BY <1>4, <1>5, <1>8, <1>9 DEF InHooks, Body

\* Finish.
LEMMA FinishDone ==
  ASSUME Stacked, Data, Told, NEW r \in Routed, NEW o \in Outcomes, DeferredFinish(r, o)
  PROVE  InHooks(r)'
<1> DEFINE l == log[r] \o <<"Finish">> \o Raised(o)
<1>1. r \in Requests /\ pc[r] = "unwind" /\ Head(defers[r]) = "Finish" /\ defers[r] # <<>>
  BY DEF DeferredFinish, RunDeferred, Unwinds, Requests
<1>2. /\ InHooks(r) /\ log[r] \in Seq(Events) /\ defers[r] \in Seq(Deferred) /\ Stack(defers[r])
      /\ Ordered(defers[r]) /\ Len(defers[r]) \in Nat
  BY <1>1, RequestTyped DEF Told, Data, InHooks
<1>3. Len(defers[r]) = 3
  <2>1. Len(defers[r]) >= 3
    BY <1>1, <1>2, StackLength DEF Application
  <2> QED BY <1>1, <1>2, <2>1, OrderedStack
<1>4. Len(Tail(defers[r])) = 2 /\ Ordered(Tail(defers[r]))
  BY <1>2, <1>3, OrderedStack
<1>5. /\ log'[r] = l /\ defers'[r] = Tail(defers[r]) /\ pc'[r] = "unwind"
      /\ panic'[r] = (IF o = "returns" THEN panic[r] ELSE o)
      /\ sent'[r] = IF o = "returns" THEN status[r] ELSE sent[r]
  BY <1>1 DEF DeferredFinish, RunDeferred, Unwinds, Data, Stacked, Typed
<1>6. /\ sent[r] = "nothing" /\ ~Has(log[r], "Finish") /\ Has(log[r], "Before")
      /\ Hushed(log[r]) \/ status[r] = "500"
  BY <1>1, <1>2, <1>3 DEF InHooks, FinishTold, PanicTold
<1>7. Closed(l) /\ Has(l, "Before") /\ (o = "returns" /\ Hushed(log[r]) => Hushed(l))
  <2>1. "Finish" \in Hooks /\ "Before" \in Hooks
    BY DEF Hooks
  <2>2. /\ \A hook \in Hooks : Has(l, hook) <=> Has(log[r], hook) \/ <<"Finish">> = <<hook>>
        /\ Closed(l) /\ (o = "returns" /\ Hushed(log[r]) => Hushed(l))
    BY <1>2, <1>6, <2>1, LogsCode
  <2> HIDE DEF l
  <2> QED BY <1>6, <2>1, <2>2
<1> HIDE DEF l
<1>8. FinishTold(r)'
  BY <1>4, <1>5, <1>7 DEF FinishTold
<1>9. PanicTold(r)'
  <2>1. status[r] \in Statuses
    BY <1>1 DEF Data
  <2>2. CASE o = "returns"
    <3>1. sent'[r] = status[r] /\ status[r] # "nothing"
      BY <1>5, <2>1, <2>2 DEF Statuses
    <3>2. sent'[r] \in {"200", "404"} => Hushed(log'[r])
      BY <1>5, <1>6, <1>7, <2>2, <3>1
    <3>3. ~(Len(defers'[r]) >= 3) /\ ~(Len(defers'[r]) >= 4) /\ Len(defers'[r]) # 3
      BY <1>4, <1>5, Lengths
    <3> QED BY <3>1, <3>2, <3>3 DEF PanicTold
  <2>3. CASE o # "returns"
    <3>1. panic'[r] # "none" /\ sent'[r] = "nothing"
      BY <1>5, <1>6, <2>3 DEF Outcomes
    <3>2. ~(Len(defers'[r]) >= 3) /\ ~(Len(defers'[r]) >= 4) /\ Len(defers'[r]) # 3
      BY <1>4, <1>5, Lengths
    <3> QED BY <3>1, <3>2 DEF PanicTold
  <2> QED BY <2>2, <2>3
<1> QED BY <1>4, <1>5, <1>8, <1>9 DEF InHooks, Body

\* The steps in which no hook runs.
LEMMA OuterTold ==
  ASSUME Stacked, Stacked', Data, Told, NEW r \in Routed,
         \/ Enter(r) \/ Reject(r) \/ NoRoutes(r) \/ Admit(r) \/ Decrement(r) \/ Leave(r)
  PROVE  InHooks(r)'
<1>1. r \in Requests /\ InHooks(r) /\ log'[r] = log[r]
  BY DEF Told, Requests, Enter, Reject, NoRoutes, Admit, Decrement, Leave, Unwinds
<1>2. CASE Enter(r) \/ Reject(r) \/ NoRoutes(r) \/ Admit(r)
  <2>1. /\ log[r] = <<>> /\ pc'[r] \in {"check", "init", "unwind"}
        /\ pc'[r] # "unwind" => sent'[r] = "nothing"
    BY <1>1, <1>2 DEF Enter, Reject, NoRoutes, Admit, InHooks, Stacked, Typed, Data
  <2>2. Len(defers'[r]) = 2
    <3>1. CASE Enter(r)
      <4>1. defers'[r] = <<"online", "Cancel">>
        BY <1>1, <3>1 DEF Enter, Stacked, Typed
      <4> QED BY <4>1
    <3>2. CASE ~Enter(r)
      BY <1>1, <1>2, <3>2, RequestTyped DEF Reject, NoRoutes, Admit, Depth
    <3> QED BY <3>1, <3>2
  <2>3. ~Has(log'[r], "Finish") /\ ~Has(log'[r], "Before") /\ Hushed(log'[r])
    BY <1>1, <2>1 DEF Has, Hushed
  <2>4. Ordered(defers[r])'
    BY <2>2 DEF Ordered
  <2>5. FinishTold(r)' /\ PanicTold(r)'
    BY <2>2, <2>3 DEF FinishTold, PanicTold
  <2> QED BY <1>1, <2>1, <2>2, <2>3, <2>4, <2>5 DEF InHooks
<1>3. CASE Decrement(r) \/ Leave(r)
  <2>1. pc[r] = "unwind" /\ pc'[r] \in {"unwind", "over"} /\ panic'[r] = panic[r]
    BY <1>1, <1>3 DEF Decrement, Leave, Unwinds, RecoverPlain, Stacked, Typed, Data
  <2>2. Len(defers[r]) \in Nat /\ Len(defers'[r]) \in Nat /\ Len(defers[r]) <= 2 /\ Len(defers'[r]) <= 2
    <3>1. defers[r] \in Seq(Deferred) /\ Stack(defers[r]) /\ Len(defers[r]) \in Nat
      BY <1>1, RequestTyped
    <3>2. CASE Decrement(r)
      <4>1. defers[r] # <<>> /\ Head(defers[r]) = "online" /\ defers'[r] = Tail(defers[r])
        BY <1>1, <3>2 DEF Decrement, Unwinds, Stacked, Typed
      <4>2. Len(defers[r]) = 2 /\ Len(Tail(defers[r])) = Len(defers[r]) - 1
        BY <3>1, <4>1, StackLength, Pop
      <4>3. Len(defers'[r]) = 1
        BY <4>1, <4>2
      <4> QED BY <4>2, <4>3, Lengths
    <3>3. CASE Leave(r)
      <4>1. defers[r] = <<"Cancel">> /\ defers'[r] = <<>>
        BY <1>1, <3>3 DEF Leave, Stacked, Typed
      <4> QED BY <4>1
    <3> QED BY <1>3, <3>2, <3>3
  <2>3. ~(Len(defers[r]) >= 3) /\ ~(Len(defers'[r]) >= 3) /\ Len(defers'[r]) # 3 /\ ~(Len(defers'[r]) >= 4)
    BY <2>2
  <2>4. Ordered(defers[r])'
    BY <2>2, <2>3 DEF Ordered
  <2>5. FinishTold(r)'
    BY <1>1, <2>3 DEF FinishTold, InHooks
  <2>6. sent'[r] = sent[r] \/ (sent[r] = "nothing" /\ panic[r] = "none")
    BY <1>1, <1>3, RequestsAssumption DEF Decrement, Leave, RecoverPlain, Data
  <2>7. PanicTold(r)'
    BY <1>1, <2>1, <2>2, <2>3, <2>6 DEF PanicTold, InHooks
  <2> QED BY <2>1, <2>4, <2>5, <2>7 DEF InHooks, Body
<1> QED BY <1>2, <1>3

\* A gRPC call.
LEMMA CallTold ==
  ASSUME Stacked, Data, Told, NEW r \in Calls, Step(r)
  PROVE  InCall(r)'
<1>1. r \in Requests /\ r \notin Routed /\ InCall(r) /\ log[r] \in Seq(Events)
  BY RequestsAssumption DEF Told, Requests, Data
<1>2. /\ defers[r] \in Seq(Deferred) /\ Stack(defers[r]) /\ Len(defers[r]) \in Nat
  BY <1>1, RequestTyped
<1>3. CASE Enter(r) \/ Reject(r) \/ Admit(r)
  <2>1. /\ log'[r] = <<>> /\ pc'[r] \in {"check", "handler", "unwind"}
        /\ pc'[r] # "unwind" => sent'[r] = "nothing" /\ panic'[r] = "none"
    BY <1>1, <1>3 DEF Enter, Reject, Admit, InCall, Stacked, Typed, Data
  <2>2. Len(defers'[r]) = 2
    <3>1. CASE Enter(r)
      <4>1. defers'[r] = <<"online", "Cancel">>
        BY <1>1, <3>1 DEF Enter, Stacked, Typed
      <4> QED BY <4>1
    <3>2. CASE ~Enter(r)
      BY <1>1, <1>3, <3>2, RequestTyped DEF Reject, Admit, Depth
    <3> QED BY <3>1, <3>2
  <2>3. Hushed(log'[r])
    BY <2>1 DEF Hushed
  <2> QED BY <2>1, <2>2, <2>3 DEF InCall, Body
<1>4. ASSUME NEW o \in Outcomes, RunHandler(r, o) PROVE InCall(r)'
  <2> DEFINE l == log[r] \o <<>> \o Raised(o)
  <2>1. pc[r] = "handler" /\ RunCode(r, <<>>, o, "unwind", <<>>)
    BY <1>4 DEF RunHandler
  <2>2. /\ log'[r] = l /\ pc'[r] = "unwind" /\ sent'[r] = "nothing"
        /\ panic'[r] = (IF o = "returns" THEN panic[r] ELSE o)
        /\ defers'[r] = IF o = "returns" THEN <<>> \o defers[r] ELSE defers[r]
    BY <1>1, <2>1 DEF RunCode, InCall, Stacked, Typed, Data
  <2>3. defers'[r] = defers[r]
    BY <1>2, <2>2, ConcatEmptySeq
  <2>4. Len(defers[r]) = 2
    <3>1. Len(defers[r]) >= 2 /\ Len(defers[r]) <= 2
      BY <1>1, <2>1, RequestTyped DEF Depth, InCall
    <3> QED BY <1>2, <3>1, Lengths
  <2>5. Hushed(l) \/ o = "panics"
    <3>1. Hushed(log[r])
      BY <1>1, <2>1 DEF InCall, Hushed
    <3>2. (o = "stops" => Hushed(l)) /\ (o = "returns" => Hushed(l))
      BY <1>1, <3>1, LogsCode
    <3> QED BY <3>2 DEF Outcomes
  <2> HIDE DEF l
  <2>6. Len(defers'[r]) = 2 /\ ~(Len(defers'[r]) <= 1) /\ Len(defers'[r]) <= 2
    BY <2>3, <2>4, Lengths
  <2>7. Hushed(log'[r]) \/ (panic'[r] = "panics" /\ sent'[r] \notin {"200", "404"})
    BY <2>2, <2>5
  <2> QED BY <2>2, <2>6, <2>7 DEF InCall, Body
<1>5. CASE Decrement(r)
  <2>1. /\ pc[r] = "unwind" /\ defers[r] # <<>> /\ Head(defers[r]) = "online" /\ defers'[r] = Tail(defers[r])
        /\ pc'[r] = "unwind" /\ log'[r] = log[r]
        /\ sent'[r] = IF panic[r] = "panics" THEN "500" ELSE sent[r]
    BY <1>1, <1>5 DEF Decrement, Unwinds, RecoverPlain, Stacked, Typed, Data
  <2>2. Len(defers[r]) = 2 /\ Len(defers'[r]) = 1
    BY <1>2, <2>1, StackLength, Pop
  <2>3. Len(defers'[r]) # 2 /\ Len(defers'[r]) <= 2
    BY <2>2, Lengths
  <2>4. Hushed(log'[r]) \/ sent'[r] = "500"
    BY <1>1, <2>1, <2>2 DEF InCall
  <2> QED BY <2>1, <2>3, <2>4 DEF InCall, Body
<1>6. CASE Leave(r)
  <2>1. /\ defers[r] = <<"Cancel">> /\ defers'[r] = <<>> /\ pc'[r] = "over" /\ log'[r] = log[r]
        /\ sent'[r] = sent[r] \/ sent[r] = "nothing"
    BY <1>1, <1>6 DEF Leave, Stacked, Typed, Data
  <2>2. Len(defers[r]) = 1 /\ Len(defers'[r]) = 0
    BY <2>1
  <2>3. Hushed(log[r]) \/ sent[r] = "500"
    BY <1>1, <2>2 DEF InCall
  <2> QED BY <2>1, <2>2, <2>3 DEF InCall, Body
<1> QED BY <1>3, <1>4, <1>5, <1>6 DEF Step

LEMMA ToldInit == Init => Told
<1> SUFFICES ASSUME Init PROVE Told
  OBVIOUS
<1>1. ASSUME NEW r \in Requests
      PROVE  /\ pc[r] = "new" /\ log[r] = <<>> /\ sent[r] = "nothing" /\ panic[r] = "none"
             /\ Len(defers[r]) = 0
  BY DEF Init
<1>2. ~Has(<<>>, "Before") /\ ~Has(<<>>, "Finish") /\ Hushed(<<>>)
  BY DEF Has, Hushed
<1>3. ASSUME NEW r \in Routed PROVE InHooks(r)
  <2>1. /\ r \in Requests /\ ~(Len(defers[r]) >= 3) /\ ~(Len(defers[r]) >= 4) /\ Len(defers[r]) # 3
        /\ Ordered(defers[r])
    BY <1>1, Lengths DEF Requests, Ordered
  <2> QED BY <1>1, <1>2, <2>1 DEF InHooks, FinishTold, PanicTold, Body
<1>4. ASSUME NEW r \in Calls PROVE InCall(r)
  <2>1. r \in Requests /\ Len(defers[r]) # 2 /\ Len(defers[r]) <= 2
    BY <1>1, Lengths DEF Requests
  <2> QED BY <1>1, <1>2, <2>1 DEF InCall, Body
<1> QED BY <1>3, <1>4 DEF Told

LEMMA ToldStep == Stacked /\ Data /\ Told /\ [Next]_vars => Told'
<1> SUFFICES ASSUME Stacked, Data, Told, [Next]_vars PROVE Told'
  OBVIOUS
<1>1. Stacked'
  BY StackedStep
<1>2. CASE UNCHANGED vars
  BY <1>2 DEF vars, Told, InHooks, FinishTold, PanicTold, InCall
<1>3. ASSUME NEW r \in Requests, Step(r) PROVE Told'
  <2>1. Moves(r)
    BY <1>3, StepMoves
  <2>2. ASSUME r \in Routed PROVE InHooks(r)'
    <3>1. \A o \in Outcomes : ~RunHandler(r, o)
      BY <2>2 DEF RunHandler, Told, InHooks
    <3> QED BY <1>1, <1>3, <2>2, <3>1, OuterTold DEF Step
  <2>3. ASSUME r \in Calls PROVE InCall(r)'
    BY <1>3, <2>3, CallTold
  <2> QED BY <2>1, <2>2, <2>3, ToldMoves
<1>4. ASSUME NEW r \in Routed, RoutedStep(r) PROVE Told'
  <2>1. r \in Requests /\ r \notin Calls
    BY RequestsAssumption DEF Requests
  <2>2. Moves(r)
    BY <1>4, <2>1, StepMoves
  <2>3. InHooks(r)'
    <3>1. CASE NoRoutes(r)
      BY <1>1, <3>1, OuterTold
    <3>2. ASSUME NEW o \in Outcomes,
                 \/ RunInit(r, o) \/ RunBefore(r, o) \/ DispatchBefore(r, o) \/ DispatchAfter(r, o)
                 \/ DeferredAfter(r, o) \/ RecoverPanic(r, o) \/ DeferredFinish(r, o)
                 \/ \E found \in BOOLEAN : RunMethod(r, o, found) \/ DispatchMethod(r, o, found)
          PROVE  InHooks(r)'
      BY <3>2, InitTold, BodyTold, AfterTold, RecoverTold, FinishDone
    <3> QED BY <1>4, <3>1, <3>2 DEF RoutedStep
  <2> QED BY <2>1, <2>2, <2>3, ToldMoves
<1> QED BY <1>2, <1>3, <1>4 DEF Next

LEMMA AlwaysTold == Spec => [](Stacked /\ Told)
BY StackedInit, StackedStep, DataInit, DataStep, ToldInit, ToldStep, PTL DEF Spec

\* Whatever panics or stops, Finish runs exactly once after an Init that returned, as
\* the last hook, and does not run otherwise (the defers of Router).
THEOREM FinishRunsOnce == Spec => []FinishClosesInit
<1>1. Stacked /\ Told => FinishClosesInit
  <2> SUFFICES ASSUME Stacked, Told, NEW r \in Routed, pc[r] = "over"
               PROVE  IF Has(log[r], "Before") THEN Closed(log[r]) ELSE ~Has(log[r], "Finish")
    BY DEF FinishClosesInit
  <2>1. r \in Requests /\ InHooks(r)
    BY DEF Told, Requests
  <2>2. Len(defers[r]) = 0
    BY <2>1, RequestTyped DEF Depth
  <2>3. ~(Len(defers[r]) >= 3)
    BY <2>2, Lengths
  <2> QED BY <2>1, <2>3 DEF InHooks, FinishTold
<1> QED BY <1>1, AlwaysTold, PTL

\* However hooks panic and stop, a client is told 200 or 404 only if a StopRun came on
\* top of every panic (recoverPanic, UnaryServerInterceptor).
THEOREM PanicsAreTold == Spec => []PanicIsNoSuccess
<1>1. Stacked /\ Told => PanicIsNoSuccess
  <2> SUFFICES ASSUME Stacked, Told, NEW r \in Routed \cup Calls, pc[r] = "over", sent[r] \in {"200", "404"}
               PROVE  Hushed(log[r])
    BY DEF PanicIsNoSuccess
  <2>1. r \in Requests
    BY DEF Requests
  <2>2. Len(defers[r]) = 0
    BY <2>1, RequestTyped DEF Depth
  <2>3. Len(defers[r]) <= 2 /\ Len(defers[r]) <= 1
    BY <2>2, Lengths
  <2>4. CASE r \in Routed
    BY <2>3, <2>4 DEF Told, InHooks, PanicTold
  <2>5. CASE r \in Calls
    BY <2>3, <2>5 DEF Told, InCall
  <2> QED BY <2>4, <2>5
<1> QED BY <1>1, AlwaysTold, PTL

=============================================================================
