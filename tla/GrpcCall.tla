------------------------------ MODULE GrpcCall ------------------------------
(***************************************************************************)
(* The calls of gRPC clients: client.Do gets a connection from the cache   *)
(* of GrpcConn and tries the call on it, with new contexts for each        *)
(* attempt, until it is answered, fails for good, its time is over or the  *)
(* attempts are used up. The server is one of the addresses that the       *)
(* connection has when the attempt reaches it (its choice is P2c's).       *)
(***************************************************************************)
EXTENDS GrpcConn

CONSTANTS
  Doers,     \* callers that are in Do
  Retry,     \* the attempts of a call at most
  Addresses  \* Addresses[s]: how many addresses a static service is configured with

ASSUME CallAssumption ==
  /\ Doers \subseteq Callers
  /\ Retry \in Nat \ {0} /\ Addresses \in [Static -> Nat \ {0}]

VARIABLES
  at,        \* at[c]: where Do is
  tries,     \* tries[c]: the attempts that have failed
  over,      \* over[c]: its context is done, by the timeout or the caller
  reached,   \* external, reached[c]: the services whose servers have executed the call
  ran,       \* external, ran[c]: how often
  ranOver,   \* external, ranOver[c]: how often after its time was over
  lost,      \* history, lost[c]: attempts that failed although they were executed
  panicked   \* history: calls in whose attempt grpc panicked

doVars == <<at, tries, over, reached, ran, ranOver, lost, panicked>>
doAndConnVars == <<vars, doVars>>

CallTypeOK ==
  /\ TypeOK
  /\ at \in [Doers -> {"conn", "try", "call", "answer", "ok", "error", "panic"}]
  /\ tries \in [Doers -> 0..Retry] /\ over \in [Doers -> BOOLEAN]
  /\ reached \in [Doers -> SUBSET Services]
  /\ ran \in [Doers -> 0..Retry] /\ ranOver \in [Doers -> 0..Retry] /\ lost \in [Doers -> 0..Retry]
  /\ panicked \subseteq Doers

CallInit ==
  /\ Init
  /\ at = [c \in Doers |-> "conn"]
  /\ tries = [c \in Doers |-> 0] /\ over = [c \in Doers |-> FALSE]
  /\ reached = [c \in Doers |-> {}]
  /\ ran = [c \in Doers |-> 0] /\ ranOver = [c \in Doers |-> 0] /\ lost = [c \in Doers |-> 0]
  /\ panicked = {}

-----------------------------------------------------------------------------
\* One attempt more than there are addresses.
RetryNum(s) == IF s \in Static /\ Addresses[s] + 1 < Retry THEN Addresses[s] + 1 ELSE Retry

Goto(c, to) == at' = [at EXCEPT ![c] = to]

\* GetConn returns. It was given the signal context: neither the timeout nor the
\* caller's context ends it.
Connected(c) ==
  /\ at[c] = "conn" /\ pc[c] \in {"done", "failed"}
  /\ Goto(c, IF pc[c] = "done" THEN "try" ELSE "error")
  /\ UNCHANGED <<tries, over, reached, ran, ranOver, lost, panicked>>

Over(c) ==
  /\ at[c] \in {"conn", "try", "call", "answer"} /\ ~over[c]
  /\ over' = [over EXCEPT ![c] = TRUE]
  /\ UNCHANGED <<at, tries, reached, ran, ranOver, lost, panicked>>

\* Variant: the loop does not look at the context.
AttemptAnyway(c) ==
  /\ at[c] = "try"
  /\ Goto(c, IF tries[c] < RetryNum(want[c]) THEN "call" ELSE "error")
  /\ UNCHANGED <<tries, over, reached, ran, ranOver, lost, panicked>>

\* The head of the loop.
Attempt(c) ==
  /\ at[c] = "try"
  /\ Goto(c, IF tries[c] < RetryNum(want[c]) /\ ~over[c] THEN "call" ELSE "error")
  /\ UNCHANGED <<tries, over, reached, ran, ranOver, lost, panicked>>

\* External: a server that the connection has addresses of executes the call.
Execute(c) ==
  /\ at[c] = "call" /\ Goto(c, "answer")
  /\ reached' = [reached EXCEPT ![c] = @ \cup {conns[got[c]].addrs}]
  /\ ran' = [ran EXCEPT ![c] = @ + 1]
  /\ ranOver' = [ranOver EXCEPT ![c] = IF over[c] THEN @ + 1 ELSE @]
  /\ UNCHANGED <<tries, over, lost, panicked>>

\* Its answer gets back.
Answer(c) ==
  /\ at[c] = "answer"
  /\ Goto(c, "ok")
  /\ UNCHANGED <<tries, over, reached, ran, ranOver, lost, panicked>>

Lost(c) == lost' = [lost EXCEPT ![c] = IF at[c] = "answer" THEN @ + 1 ELSE @]

\* Variant: an attempt that failed is taken for an answer.
FailUnseen(c) ==
  /\ at[c] \in {"call", "answer"}
  /\ Goto(c, "ok") /\ Lost(c)
  /\ tries' = [tries EXCEPT ![c] = @ + 1]
  /\ UNCHANGED <<over, reached, ran, ranOver, panicked>>

\* An error of grpc's is tried again, its status for a context that is done included.
\* A call that opens a stream and reads from it can but fail: StreamClientInterceptor
\* cancels the stream's context when it returns the stream.
Fail(c) ==
  /\ at[c] \in {"call", "answer"}
  /\ Goto(c, "try") /\ Lost(c)
  /\ tries' = [tries EXCEPT ![c] = @ + 1]
  /\ UNCHANGED <<over, reached, ran, ranOver, panicked>>

\* A *RespErr, or an error of the context itself, is returned at once.
FailForGood(c) ==
  /\ at[c] \in {"call", "answer"}
  /\ Goto(c, "error") /\ Lost(c)
  /\ UNCHANGED <<tries, over, reached, ran, ranOver, panicked>>

\* UnaryClientInterceptor recovers a panic and returns no error.
InvokerPanics(c) ==
  /\ at[c] \in {"call", "answer"}
  /\ Goto(c, "ok")
  /\ panicked' = panicked \cup {c}
  /\ UNCHANGED <<tries, over, reached, ran, ranOver, lost>>

\* A panic of the caller's function goes through Do.
CallPanics(c) ==
  /\ at[c] \in {"call", "answer"}
  /\ Goto(c, "panic")
  /\ UNCHANGED <<tries, over, reached, ran, ranOver, lost, panicked>>

Returns(c) == Fail(c) \/ FailForGood(c)

DoStep(c) ==
  \/ Connected(c) \/ Over(c) \/ Attempt(c) \/ Execute(c) \/ Answer(c)
  \/ Returns(c) \/ InvokerPanics(c) \/ CallPanics(c)

CallNext ==
  \/ Next /\ UNCHANGED doVars
  \/ ~crash /\ (\E c \in Doers : DoStep(c)) /\ UNCHANGED vars

\* Do runs, its context ends at the timeout, and a call returns when its context has.
CallFairness ==
  /\ Fairness
  /\ \A c \in Doers : /\ WF_doAndConnVars(~crash /\ (Connected(c) \/ Attempt(c)) /\ UNCHANGED vars)
                      /\ WF_doAndConnVars(~crash /\ at[c] # "conn" /\ Over(c) /\ UNCHANGED vars)
                      /\ WF_doAndConnVars(~crash /\ over[c] /\ Returns(c) /\ UNCHANGED vars)

CallSpec == CallInit /\ [][CallNext]_doAndConnVars /\ CallFairness

-----------------------------------------------------------------------------
\* A call is executed by a server of another service only if that of a consul
\* service went astray when it was dialed, whenever the addresses change under it.
OwnServerUnlessSwapped ==
  \A c \in Doers : reached[c] \subseteq {want[c]} \/ (want[c] \in Consul /\ swapped)

\* Neither connections nor calls go to another service unless a dial went astray.
AstrayNeedsSwap == WrongNeedsSwap /\ OwnServerUnlessSwapped

\* A call is executed again only after an attempt failed that had been executed, and
\* once the time of Do is over at most by the attempt that is under way.
RepeatNeedsLoss ==
  \A c \in Doers : ran[c] <= lost[c] + 1 /\ lost[c] <= RetryNum(want[c]) /\ ranOver[c] <= 1

\* Without an error Do returns what a server has executed, unless grpc panicked.
SuccessWasExecuted ==
  \A c \in Doers : at[c] = "ok" /\ ran[c] = lost[c] => c \in panicked

\* Whoever waits for a connection gets one or an error, and Do returns.
DoReturns ==
  /\ \A c \in Callers : (pc[c] = "wait") ~> (pc[c] \in {"done", "failed"} \/ crash)
  /\ \A c \in Doers : (pc[c] = "wait" \/ at[c] = "try") ~> (at[c] \in {"ok", "error", "panic"} \/ crash)
=============================================================================
