------------------------------- MODULE Router -------------------------------
(***************************************************************************)
(* The life of one request in router.go Router (a controller's hooks) and  *)
(* in router.go HandlerFunc or the gRPC interceptors of server_grpc.go (a  *)
(* plain handler).  The hooks are the application's: each may return, call *)
(* StopRun, or panic.  Go's defer stack of the goroutine is a sequence; a  *)
(* panic unwinds it like a return does, until a recover stops it.  The     *)
(* requests meet in the counter online.                                    *)
(***************************************************************************)
EXTENDS Integers, Sequences, FiniteSets

CONSTANTS
  Routed,       \* requests handled by Router
  Plain,        \* requests handled by HandlerFunc
  Calls,        \* gRPC calls, handled by an interceptor
  Concurrence   \* Config.Server.Concurrence; 0 means no limit

Requests == Routed \cup Plain \cup Calls

ASSUME RequestsAssumption ==
  /\ IsFiniteSet(Requests)
  /\ Routed \cap (Plain \cup Calls) = {} /\ Plain \cap Calls = {}
ASSUME ConcurrenceAssumption == Concurrence \in Nat

\* How application code ends.
Outcomes == {"returns", "stops", "panics"}

Deferred == {"Cancel", "online", "Finish", "recoverPanic", "After"}

Hooks == {"Init", "Before", "After", "ServerError", "Finish"}

VARIABLES
  hasRoutes,  \* some controller is registered (Handler runs before Run)
  online,     \* the counter of requests in flight, a uint32
  pc,
  seen,       \* onlineNum, what AddUint32 returned
  defers,     \* the defer stack, innermost first
  panic,      \* the panic being unwound
  status,     \* httpCtx.HTTPStatus
  sent,       \* the status the client is sent
  log         \* the hooks that started and the panics that were raised, in order

vars == <<hasRoutes, online, pc, seen, defers, panic, status, sent, log>>

Statuses == {"200", "404", "500", "503"}

TypeOK ==
  /\ hasRoutes \in BOOLEAN
  /\ online \in 0..Cardinality(Requests)
  /\ pc \in [Requests -> {"new", "check", "init", "before", "method", "dispatch", "dispatched",
                          "handler", "unwind", "over"}]
  /\ seen \in [Requests -> 0..Cardinality(Requests)]
  /\ defers \in [Requests -> Seq(Deferred)]
  /\ panic \in [Requests -> {"none", "stops", "panics"}]
  /\ status \in [Requests -> Statuses]
  /\ sent \in [Requests -> Statuses \cup {"nothing"}]
  /\ log \in [Requests -> Seq(Hooks \cup {"stops", "panics"})]

Init ==
  /\ hasRoutes \in BOOLEAN
  /\ online = 0
  /\ pc = [r \in Requests |-> "new"]
  /\ seen = [r \in Requests |-> 0]
  /\ defers = [r \in Requests |-> <<>>]
  /\ panic = [r \in Requests |-> "none"]
  /\ status = [r \in Requests |-> "200"]
  /\ sent = [r \in Requests |-> "nothing"]
  /\ log = [r \in Requests |-> <<>>]

-----------------------------------------------------------------------------
(* Steps of the body.                                                      *)

Times(r, hook) == Cardinality({i \in DOMAIN log[r] : log[r][i] = hook})

\* What the log gets when code that ends with outcome o raises its panic.
Raised(o) == IF o = "returns" THEN <<>> ELSE <<o>>

\* Application code runs, of which es is logged, and ends with outcome o: the
\* body goes on at next with ds deferred, or a panic starts to unwind the stack.
RunCode(r, es, o, next, ds) ==
  /\ log' = [log EXCEPT ![r] = @ \o es \o Raised(o)]
  /\ pc' = [pc EXCEPT ![r] = IF o = "returns" THEN next ELSE "unwind"]
  /\ defers' = [defers EXCEPT ![r] = IF o = "returns" THEN ds \o @ ELSE @]
  /\ panic' = [panic EXCEPT ![r] = IF o = "returns" THEN @ ELSE o]
  /\ UNCHANGED <<hasRoutes, online, seen, sent>>

\* initCtx, its deferred Cancel, and the counter with its deferred decrement.
Enter(r) ==
  /\ pc[r] = "new"
  /\ online' = online + 1
  /\ seen' = [seen EXCEPT ![r] = online + 1]
  /\ defers' = [defers EXCEPT ![r] = <<"online", "Cancel">>]
  /\ pc' = [pc EXCEPT ![r] = "check"]
  /\ UNCHANGED <<hasRoutes, panic, status, sent, log>>

\* Variant: the limit itself is let through once more.
TooManyOffByOne(r) == Concurrence > 0 /\ seen[r] > Concurrence + 1

\* checkConcurrence.
TooMany(r) == Concurrence > 0 /\ seen[r] > Concurrence

Reject(r) ==
  /\ pc[r] = "check"
  /\ TooMany(r)
  /\ sent' = [sent EXCEPT ![r] = "503"]
  /\ pc' = [pc EXCEPT ![r] = "unwind"]
  /\ UNCHANGED <<hasRoutes, online, seen, defers, panic, status, log>>

\* Without any route Router calls NotFound on a controller of its own, which
\* only fills in the context: no hook renders it.
NoRoutes(r) ==
  /\ pc[r] = "check" /\ r \in Routed
  /\ ~TooMany(r) /\ ~hasRoutes
  /\ status' = [status EXCEPT ![r] = "404"]
  /\ pc' = [pc EXCEPT ![r] = "unwind"]
  /\ UNCHANGED <<hasRoutes, online, seen, defers, panic, sent, log>>

Admit(r) ==
  /\ pc[r] = "check"
  /\ ~TooMany(r) /\ (r \in Routed => hasRoutes)
  /\ pc' = [pc EXCEPT ![r] = IF r \in Routed THEN "init" ELSE "handler"]
  /\ UNCHANGED <<hasRoutes, online, seen, defers, panic, status, sent, log>>

\* Variant: Finish is not deferred.
InitDefersNothing(r, o) ==
  /\ pc[r] = "init"
  /\ RunCode(r, <<"Init">>, o, "before", <<"recoverPanic">>)
  /\ UNCHANGED status

\* Variant: the recover is deferred first, so that it runs after Finish.
InitRecoversLast(r, o) ==
  /\ pc[r] = "init"
  /\ RunCode(r, <<"Init">>, o, "before", <<"Finish", "recoverPanic">>)
  /\ UNCHANGED status

RunInit(r, o) ==
  /\ pc[r] = "init"
  /\ RunCode(r, <<"Init">>, o, "before", <<"recoverPanic", "Finish">>)
  /\ UNCHANGED status

RunBefore(r, o) ==
  /\ pc[r] = "before"
  /\ RunCode(r, <<"Before">>, o, "method", <<"After">>)
  /\ UNCHANGED status

\* NotFound, which stands in for an action that is not found.
StatusOf(r, found) == status' = [status EXCEPT ![r] = IF found THEN @ ELSE "404"]

\* The action found for the path, or NotFound of the default controller.
RunMethod(r, o, found) ==
  /\ pc[r] = "method"
  /\ RunCode(r, <<>>, o, "unwind", <<>>)
  /\ StatusOf(r, found)

\* DispatchRoute, called by the action: Before and After of the target, once
\* (the bound on dispatches).
DispatchBefore(r, o) ==
  /\ pc[r] = "method"
  /\ Times(r, "Before") = 1
  /\ RunCode(r, <<"Before">>, o, "dispatch", <<"After">>)
  /\ UNCHANGED status

DispatchMethod(r, o, found) ==
  /\ pc[r] = "dispatch"
  /\ RunCode(r, <<>>, o, "dispatched", <<>>)
  /\ StatusOf(r, found)

\* DispatchRoute returns: its deferred After runs, then the action goes on.
DispatchAfter(r, o) ==
  /\ pc[r] = "dispatched"
  /\ log' = [log EXCEPT ![r] = @ \o <<"After">> \o Raised(o)]
  /\ defers' = [defers EXCEPT ![r] = Tail(@)]
  /\ pc' = [pc EXCEPT ![r] = IF o = "returns" THEN "method" ELSE "unwind"]
  /\ panic' = [panic EXCEPT ![r] = IF o = "returns" THEN @ ELSE o]
  /\ UNCHANGED <<hasRoutes, online, seen, status, sent>>

\* The handler of HandlerFunc, or the gRPC handler.
RunHandler(r, o) ==
  /\ pc[r] = "handler"
  /\ RunCode(r, <<>>, o, "unwind", <<>>)
  /\ UNCHANGED status

-----------------------------------------------------------------------------
(* Unwinding: the innermost deferred function runs.  A panic in it takes   *)
(* the place of the one being unwound.                                     *)

Unwinds(r, f) ==
  /\ pc[r] = "unwind" /\ defers[r] # <<>> /\ Head(defers[r]) = f
  /\ defers' = [defers EXCEPT ![r] = Tail(@)]
  /\ UNCHANGED <<hasRoutes, pc, seen>>

\* Deferred application code runs; a panic of it replaces the one unwound.
RunDeferred(r, hook, o) ==
  /\ Unwinds(r, hook)
  /\ log' = [log EXCEPT ![r] = @ \o <<hook>> \o Raised(o)]
  /\ panic' = [panic EXCEPT ![r] = IF o = "returns" THEN @ ELSE o]
  /\ UNCHANGED <<online, status>>

DeferredAfter(r, o) == RunDeferred(r, "After", o) /\ UNCHANGED sent

\* Finish renders the response; nothing recovers a panic of it but net/http.
DeferredFinish(r, o) ==
  /\ RunDeferred(r, "Finish", o)
  /\ sent' = [sent EXCEPT ![r] = IF o = "returns" THEN status[r] ELSE @]

\* recoverPanic: ServerError, which may itself panic, unless StopRun was called.
RecoverPanic(r, o) ==
  /\ Unwinds(r, "recoverPanic")
  /\ IF panic[r] = "panics"
     THEN /\ log' = [log EXCEPT ![r] = @ \o <<"ServerError">> \o Raised(o)]
          /\ status' = [status EXCEPT ![r] = "500"]
          /\ panic' = [panic EXCEPT ![r] = IF o = "returns" THEN "none" ELSE o]
     ELSE /\ o = "returns"
          /\ panic' = [panic EXCEPT ![r] = "none"]
          /\ UNCHANGED <<log, status>>
  /\ UNCHANGED <<online, sent>>

\* What HandlerFunc and the interceptors recover: a panic is an error of a call,
\* and only logged for a request.
RecoverPlain(r) ==
  /\ panic' = [panic EXCEPT ![r] = IF r \in Routed THEN @ ELSE "none"]
  /\ sent' = [sent EXCEPT ![r] = IF r \in Calls /\ panic[r] = "panics" THEN "500" ELSE @]

\* Variant: an unrecovered panic skips the decrement.
DecrementUnlessPanic(r) ==
  /\ Unwinds(r, "online")
  /\ online' = IF panic[r] = "none" THEN online - 1 ELSE online
  /\ RecoverPlain(r)
  /\ UNCHANGED <<status, log>>

\* The deferred decrement, after which the plain handlers recover.
Decrement(r) ==
  /\ Unwinds(r, "online")
  /\ online' = online - 1
  /\ RecoverPlain(r)
  /\ UNCHANGED <<status, log>>

\* Cancel is the outermost; what is still unwound now, net/http recovers by
\* dropping the connection.  A handler that wrote nothing has sent 200.
Leave(r) ==
  /\ pc[r] = "unwind" /\ defers[r] = <<"Cancel">>
  /\ defers' = [defers EXCEPT ![r] = <<>>]
  /\ pc' = [pc EXCEPT ![r] = "over"]
  /\ sent' = [sent EXCEPT ![r] = IF @ = "nothing" /\ panic[r] = "none" THEN "200" ELSE @]
  /\ UNCHANGED <<hasRoutes, online, seen, panic, status, log>>

-----------------------------------------------------------------------------
Step(r) ==
  \/ Enter(r) \/ Reject(r) \/ Admit(r) \/ Decrement(r) \/ Leave(r)
  \/ \E o \in Outcomes : RunHandler(r, o)

RoutedStep(r) ==
  \/ NoRoutes(r)
  \/ \E o \in Outcomes :
       \/ RunInit(r, o) \/ RunBefore(r, o) \/ DispatchBefore(r, o) \/ DispatchAfter(r, o)
       \/ DeferredAfter(r, o) \/ RecoverPanic(r, o) \/ DeferredFinish(r, o)
       \/ \E found \in BOOLEAN : RunMethod(r, o, found) \/ DispatchMethod(r, o, found)

Next == (\E r \in Requests : Step(r)) \/ (\E r \in Routed : RoutedStep(r))

Spec == Init /\ [][Next]_vars

-----------------------------------------------------------------------------
(* Properties.                                                             *)

Counted == {r \in Requests : \E i \in DOMAIN defers[r] : defers[r][i] = "online"}

\* The requests that execute application code.
Busy == {r \in Requests :
           \/ pc[r] \in {"init", "before", "method", "dispatch", "dispatched", "handler"}
           \/ /\ pc[r] = "unwind" /\ defers[r] # <<>>
              /\ Head(defers[r]) \in {"After", "recoverPanic", "Finish"}}

\* Whatever panics, and wherever, the counter is what is in flight (router.go
\* 50-54, 206-216, server_grpc.go 114-125).
OnlineCounts == online = Cardinality(Counted)

\* However the increments, checks and decrements of the requests mix, no more
\* than Concurrence of them are ever inside application code (checkConcurrence).
ConcurrenceLimit == Concurrence > 0 => Cardinality(Busy) <= Concurrence

\* The log l has the event e.
Has(l, e) == \E i \in DOMAIN l : l[i] = e

\* Finish ran once, and no hook after it.
Closed(l) ==
  \E i \in DOMAIN l :
    /\ l[i] = "Finish"
    /\ \A j \in DOMAIN l \ {i} : l[j] # "Finish" /\ (j > i => l[j] \notin Hooks)

\* A StopRun came on top of every panic.
Hushed(l) == \A i \in DOMAIN l : l[i] = "panics" => \E j \in DOMAIN l : j > i /\ l[j] = "stops"

\* controller.go:15: once Init has returned (Before always follows it), Finish
\* runs exactly once and no hook runs after it; without Init it does not run.
FinishClosesInit ==
  \A r \in Routed : pc[r] = "over" =>
    IF Has(log[r], "Before") THEN Closed(log[r]) ELSE ~Has(log[r], "Finish")

\* A panic of the application reaches the client as a 500 or a dropped
\* connection, never as success, unless After called StopRun on top of it
\* (recoverPanic).
PanicIsNoSuccess ==
  \A r \in Routed \cup Calls : pc[r] = "over" /\ sent[r] \in {"200", "404"} => Hushed(log[r])
=============================================================================
