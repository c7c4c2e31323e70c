------------------------------ MODULE StdCall -------------------------------
(***************************************************************************)
(* Calls of other services over HTTP: StdCallByConsul and Download         *)
(* (api/api.go, api/download.go) over curl (curl/curl.go), with the        *)
(* resolver of Discovery and the servers of Registry. A call tries three   *)
(* times; an attempt is a request that net/http sends in a goroutine of    *)
(* its own while the caller waits for it, a timer and its context.         *)
(***************************************************************************)
EXTENDS Discovery

CONSTANTS
  Callers,      \* goroutines that call StdCallByConsul or Download
  Closers,      \* users that close the resolver
  Home          \* the server that Download is told to call

ASSUME StdCallAssumption ==
  /\ Users = Callers \cup Closers
  /\ Home \in Servers /\ "none" \notin Servers /\ Torn \notin Servers /\ "free" \notin Users

VARIABLES
  downloads,    \* the callers of Download; the others call StdCallByConsul
  bad,          \* the downloads whose URL nobody can parse
  pc,           \* pc[c]: where the caller c is
  job,          \* job[c]: its attempts, the server it calls, how much of the
                \* parameters PostReader still has and the request was given
  flight,       \* flight[c]: the goroutine of the request
  ctx,          \* ctx[c]: the context of the Curl
  gone,         \* the callers whose own context is cancelled
  lbIndex,      \* of the resolver
  acts          \* history, acts[c]: how often a server handled all parameters of c

inputs == <<downloads, bad>>
callVars == <<inputs, pc, job, flight, ctx, gone, lbIndex, acts>>
vars == <<callVars, discoveryVars, registryVars>>

Bodies == {"none", "part", "whole"}
Jobs == [try : 0..3, addr : {"none"} \cup Servers, reader : {"unset"} \cup Bodies, body : Bodies]
NewJob(c) ==
  [try |-> 0, addr |-> IF c \in downloads THEN Home ELSE "none", reader |-> "unset", body |-> "none"]

TypeOK ==
  /\ RegistryTypeOK /\ DiscoveryTypeOK
  /\ downloads \subseteq Callers /\ bad \subseteq downloads /\ gone \subseteq Callers
  /\ pc \in [Callers -> {"idle", "loop", "address", "advance", "request", "select", "wait", "read", "over"}]
  /\ job \in [Callers -> Jobs]
  /\ flight \in [Callers -> {"none", "dialing", "sent", "handled", "answered", "failed"}]
  /\ ctx \in [Callers -> {"none", "live", "canceled"}]
  /\ lbIndex \in Nat /\ acts \in [Callers -> Nat]

Init ==
  /\ RegistryInit /\ DiscoveryInit
  /\ downloads \in SUBSET Callers /\ bad \in SUBSET downloads
  /\ pc = [c \in Callers |-> "idle"]
  /\ job = [c \in Callers |-> NewJob(c)]
  /\ flight = [c \in Callers |-> "none"]
  /\ ctx = [c \in Callers |-> "none"]
  /\ gone = {} /\ lbIndex = 0
  /\ acts = [c \in Callers |-> 0]

-----------------------------------------------------------------------------
(* Call and Download.                                                      *)

Begin(c) ==
  /\ pc[c] = "idle" /\ (c \in downloads \/ user[c] = "has")
  /\ pc' = [pc EXCEPT ![c] = "loop"]
  /\ ctx' = [ctx EXCEPT ![c] = "live"]
  /\ UNCHANGED <<inputs, job, flight, gone, lbIndex, acts>>

\* The call returns without a response. A Call's context is cancelled then, and
\* with it the Curl's, which is derived from it; a Download's is not.
ReturnError(c) ==
  /\ pc' = [pc EXCEPT ![c] = "over"]
  /\ job' = [job EXCEPT ![c] = NewJob(c)]
  /\ ctx' = IF c \in downloads THEN ctx ELSE [ctx EXCEPT ![c] = "canceled"]

Goto(c, label) == pc' = [pc EXCEPT ![c] = label]

\* The head of the loop: after three attempts, or when the caller's own context
\* is cancelled, the call returns an error.
Loop(c) ==
  /\ pc[c] = "loop"
  /\ IF job[c].try = 3 \/ c \in gone
     THEN ReturnError(c)
     ELSE Goto(c, IF c \in downloads THEN "request" ELSE "address") /\ UNCHANGED <<job, ctx>>
  /\ UNCHANGED <<inputs, flight, gone, lbIndex, acts>>

\* GetAddress: the only address, or the one that lbIndex points to; without any,
\* or when a torn slice is read beyond its array, the call ends.
GetAddress(c) ==
  /\ pc[c] = "address"
  /\ \E view \in Views :
       LET n == view[2]
           a == At(view, IF n = 1 THEN 1 ELSE (lbIndex % n) + 1)
       IN IF n = 0 \/ a = Torn
          THEN ReturnError(c)
          ELSE /\ job' = [job EXCEPT ![c].addr = a]
               /\ Goto(c, IF n = 1 THEN "request" ELSE "advance")
               /\ UNCHANGED ctx
  /\ UNCHANGED <<inputs, flight, gone, lbIndex, acts>>

Advance(c) ==
  /\ pc[c] = "advance"
  /\ lbIndex' = lbIndex + 1
  /\ Goto(c, "request")
  /\ UNCHANGED <<inputs, job, flight, ctx, gone, acts>>

-----------------------------------------------------------------------------
(* Request.                                                                *)

\* Variant: every request has a reader of its own over PostBytes.
RequestAfresh(c) ==
  /\ pc[c] = "request"
  /\ ctx' = [ctx EXCEPT ![c] = "live"]
  /\ IF c \in bad
     THEN Goto(c, "loop") /\ job' = [job EXCEPT ![c].try = @ + 1] /\ UNCHANGED flight
     ELSE /\ Goto(c, "select")
          /\ flight' = [flight EXCEPT ![c] = "dialing"]
          /\ job' = [job EXCEPT ![c].try = @ + 1, ![c].reader = "whole", ![c].body = "whole"]
  /\ UNCHANGED <<inputs, gone, lbIndex, acts>>

\* SetContext cancels the context of the attempt before. CreateRequest makes a
\* reader over PostBytes the first time and then sends what is left in it; when
\* it fails, Request returns without cancelling the context.
Request(c) ==
  LET left == IF job[c].reader = "unset" THEN "whole" ELSE job[c].reader IN
  /\ pc[c] = "request"
  /\ ctx' = [ctx EXCEPT ![c] = "live"]
  /\ IF c \in bad
     THEN Goto(c, "loop") /\ job' = [job EXCEPT ![c].try = @ + 1] /\ UNCHANGED flight
     ELSE /\ Goto(c, "select")
          /\ flight' = [flight EXCEPT ![c] = "dialing"]
          /\ job' = [job EXCEPT ![c].try = @ + 1, ![c].reader = left, ![c].body = left]
  /\ UNCHANGED <<inputs, gone, lbIndex, acts>>

Live(c) == ctx[c] = "live" /\ c \notin gone
Up(s) == proc[s] \in {"registered", "serving"}

\* What a request that broke may have left of a reader.
Leftovers(b) ==
  CASE b = "none" -> {"none"} [] b = "part" -> {"part", "none"} [] OTHER -> Bodies

\* net/http: the request is sent when its server listens; it fails when nobody
\* listens or its context is cancelled, and anything may break it halfway.
Send(c) ==
  /\ flight[c] = "dialing"
  /\ \/ /\ Up(job[c].addr) /\ UNCHANGED trouble
        /\ flight' = [flight EXCEPT ![c] = "sent"]
        /\ job' = [job EXCEPT ![c].reader = "none"]
     \/ /\ ~Up(job[c].addr) \/ ~Live(c)
        /\ flight' = [flight EXCEPT ![c] = "failed"]
        /\ UNCHANGED <<job, trouble>>
     \/ /\ Fails
        /\ flight' = [flight EXCEPT ![c] = "failed"]
        /\ job' \in {[job EXCEPT ![c].reader = left] : left \in Leftovers(job[c].reader)}
  /\ UNCHANGED <<inputs, pc, ctx, gone, lbIndex, acts>>

\* The server handles what it was sent.
Handle(c) ==
  /\ flight[c] = "sent" /\ proc[job[c].addr] = "serving"
  /\ flight' = [flight EXCEPT ![c] = "handled"]
  /\ acts' = [acts EXCEPT ![c] = IF job[c].body = "whole" THEN @ + 1 ELSE @]
  /\ UNCHANGED <<inputs, pc, job, ctx, gone, lbIndex>>

Answer(c) ==
  /\ flight[c] = "handled"
  /\ flight' = [flight EXCEPT ![c] = "answered"]
  /\ UNCHANGED <<inputs, pc, job, ctx, gone, lbIndex, acts>>

\* The connection breaks, or the context is cancelled, before the answer.
Break(c) ==
  /\ flight[c] \in {"sent", "handled"}
  /\ IF Up(job[c].addr) /\ Live(c) THEN Fails ELSE UNCHANGED trouble
  /\ flight' = [flight EXCEPT ![c] = "failed"]
  /\ UNCHANGED <<inputs, pc, job, ctx, gone, lbIndex, acts>>

\* Variant: the timer does not cancel the context.
GiveUpUncanceled(c) ==
  /\ pc[c] = "select"
  /\ Goto(c, "wait")
  /\ UNCHANGED <<inputs, job, flight, ctx, gone, lbIndex, acts>>

\* select: the timer, which cancels the Curl's context, or the caller's context;
\* then the goroutine is waited for.
GiveUp(c) ==
  /\ pc[c] = "select"
  /\ ctx' = [ctx EXCEPT ![c] = "canceled"] \/ (c \in gone /\ UNCHANGED ctx)
  /\ Goto(c, "wait")
  /\ UNCHANGED <<inputs, job, flight, gone, lbIndex, acts>>

\* Request has no response: the caller gave up, whatever the goroutine got, the
\* request failed, or the answer cannot be decompressed (wrap).
NoResponse(c) ==
  \/ pc[c] = "wait" /\ flight[c] \in {"answered", "failed"} /\ UNCHANGED trouble
  \/ pc[c] = "select" /\ flight[c] = "failed" /\ UNCHANGED trouble
  \/ pc[c] = "select" /\ flight[c] = "answered" /\ Fails

\* Request returns an error, after it has cancelled its context.
Failed(c) ==
  /\ NoResponse(c)
  /\ Goto(c, "loop")
  /\ flight' = [flight EXCEPT ![c] = "none"]
  /\ ctx' = [ctx EXCEPT ![c] = "canceled"]
  /\ UNCHANGED <<inputs, job, gone, lbIndex, acts>>

\* Variant: Request cancels its context whenever it returns.
AnsweredCanceled(c) ==
  /\ pc[c] = "select" /\ flight[c] = "answered"
  /\ Goto(c, "read")
  /\ ctx' = [ctx EXCEPT ![c] = "canceled"]
  /\ UNCHANGED <<inputs, job, flight, gone, lbIndex, acts>>

\* Request returns the response.
Answered(c) ==
  /\ pc[c] = "select" /\ flight[c] = "answered"
  /\ Goto(c, "read")
  /\ UNCHANGED <<inputs, job, flight, ctx, gone, lbIndex, acts>>

\* The rest of the call: the status, the body and the response's Close.
Read(c) ==
  /\ pc[c] = "read"
  /\ Goto(c, "over")
  /\ job' = [job EXCEPT ![c] = NewJob(c)]
  /\ flight' = [flight EXCEPT ![c] = "none"]
  /\ ctx' = [ctx EXCEPT ![c] = "canceled"]
  /\ UNCHANGED <<inputs, gone, lbIndex, acts>>

\* The caller's own context is cancelled.
Leave(c) ==
  /\ pc[c] \notin {"idle", "over"} /\ c \notin gone
  /\ Fails
  /\ gone' = gone \cup {c}
  /\ UNCHANGED <<inputs, pc, job, flight, ctx, lbIndex, acts>>

-----------------------------------------------------------------------------

\* What goes on by itself: the caller up to the response, and net/http, whose
\* dialer has a timeout; servers may take any time, and a body too.
CallerStep(c) ==
  Loop(c) \/ GetAddress(c) \/ Advance(c) \/ Request(c) \/ GiveUp(c) \/ Failed(c) \/ Answered(c)
NetStep(c) == Send(c) \/ Break(c)

CallStep(c) ==
  /\ \/ /\ \/ Begin(c) \/ Loop(c) \/ GetAddress(c) \/ Advance(c) \/ Request(c)
           \/ Handle(c) \/ Answer(c) \/ GiveUp(c) \/ Answered(c) \/ Read(c)
        /\ UNCHANGED trouble
     \/ NetStep(c) \/ Failed(c) \/ Leave(c)
  /\ UNCHANGED <<serverVars, discoveryVars>>

UserStep(u) ==
  \/ Look(u) \/ LookAgain(u) \/ Create(u)
  \/ u \in Closers /\ (Close(u) \/ CloseReturns(u))

Next ==
  \/ \E s \in Servers \ Stable :
       RegistryStep(s) /\ Follows /\ UNCHANGED <<cacheVars, watch, addresses, fetched, callVars>>
  \/ (WatchStep \/ \E u \in Users \ downloads : UserStep(u)) /\ UNCHANGED callVars
  \/ \E c \in Callers : CallStep(c)

CallFairness ==
  \A c \in Callers : WF_callVars(UNCHANGED trouble /\ (CallerStep(c) \/ NetStep(c)))

Spec == Init /\ [][Next]_vars /\ RegistryFairness /\ DiscoveryFairness /\ CallFairness

-----------------------------------------------------------------------------
(* Properties.                                                             *)

\* A retry never makes the servers handle the parameters of a call twice: once
\* they were sent, the reader that createPostRequest keeps is spent.
ActsOnce == \A c \in Callers : acts[c] <= 1

\* A response is read under a context that Request has not cancelled: only the
\* caller and Close may (Request's commented-out defer would).
ReadableUntilClose == \A c \in Callers : pc[c] = "read" => ctx[c] = "live"

\* A call that has returned leaves no context behind that nobody will cancel,
\* except a Download whose last request CreateRequest could not even make.
ContextsReleased == \A c \in Callers : pc[c] = "over" /\ Live(c) => c \in bad

\* Once a caller has given up, the request whose goroutine it waits for can be
\* interrupted (the select of Request).
WaitIsInterruptible == \A c \in Callers : pc[c] = "wait" => ~Live(c)

\* The context of an attempt lives as long as its response is awaited or may be
\* read, not longer (Curl.Request, Response.Close, Call).
ContextFollowsResponse == ReadableUntilClose /\ ContextsReleased /\ WaitIsInterruptible

\* A server whose process is over is forgotten by the resolver, unless that was
\* closed: the server deregistered or its check expires, and watch misses no
\* change. Excepted is one that never got its check, which the catalogue keeps.
GoneIsForgotten ==
  \A s \in Servers \ Stable :
    proc[s] = "over" /\ ~(s \in entry /\ check[s] = "none")
      ~> canceled \/ \A i \in DOMAIN addresses : addresses[i] # s

\* The attempts of a call end, whatever the servers do: by a response, or by the
\* timer of Request, which interrupts the request that it then waits for.
AttemptsEnd == \A c \in Callers : pc[c] = "loop" ~> pc[c] \in {"read", "over"}
=============================================================================
