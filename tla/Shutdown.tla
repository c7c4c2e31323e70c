------------------------------ MODULE Shutdown ------------------------------
(***************************************************************************)
(* The graceful exit of an hfw process: the process-wide signal context    *)
(* (signal/signal.go), the HTTPContexts that register work with its        *)
(* WaitGroup (context.go, router.go, server_grpc.go, cron.go), and the     *)
(* entry points hfw.Run and hfw.RunGrpc that start it (run.go,             *)
(* server_grpc.go).  One action is one step of one goroutine between two   *)
(* points where another goroutine can be seen.                             *)
(***************************************************************************)
EXTENDS Integers, FiniteSets

CONSTANTS
  Requests,     \* HTTP requests, each with a Router and a closeNotify goroutine
  Calls,        \* gRPC calls, run under UnaryServerInterceptor
  Jobs,         \* other work under a NewHTTPContext: cron jobs, consumers
  Http,         \* hfw.Run with a server address
  Grpc,         \* hfw.RunGrpc
  Console,      \* hfw.Run without an address
  Disconnects,  \* may a client go away while its request is handled?
  Timers,       \* may the 30s of doShutdownDone run out?
  LateWork      \* may work begin after the signal context was cancelled?

Tasks == Requests \cup Calls \cup Jobs
Runners == Http \cup Grpc \cup Console

ASSUME ConstantsAssumption ==
  /\ IsFiniteSet(Tasks) /\ IsFiniteSet(Runners)
  /\ Requests \cap (Calls \cup Jobs) = {} /\ Calls \cap Jobs = {}
  /\ Http \cap (Grpc \cup Console) = {} /\ Grpc \cap Console = {}
  /\ Tasks \cap Runners = {}
  /\ {Disconnects, Timers, LateWork} \subseteq BOOLEAN

\* The goroutines that call Cancel on a task's context: the deferred Cancel
\* of its handler, and closeNotify, which only HTTP requests have.
Cancellers == (Tasks \X {"handler"}) \cup (Requests \X {"watcher"})

\* The goroutines that run doShutdownDone.
Closers == Runners \X {"Listen", "Shutdowned"}

VARIABLES
  wg,          \* the WaitGroup's counter
  sigDone,     \* signal Ctx cancelled
  doneClosed,  \* channel done closed
  doing,       \* doShutdownDone already started
  closer,      \* closer[c]: where the doShutdownDone goroutine c is
  waiter,      \* where the waitDone goroutine is
  isListened, isHTTP,
  listener,    \* listener[r]: where the Listen goroutine of r is
  inbox,       \* inbox[r]: the signal in the channel of that goroutine
  signalled,   \* an OS signal was sent (at most one is: the bound on signals)
  children,    \* processes started by Listen on SIGTERM
  runner,      \* runner[r]: where Run or RunGrpc is
  registered,  \* runners with a service in the registry, not yet taken out
  stopper,     \* stopper[r]: the GracefulStop goroutine of RunGrpc
  cancel,      \* cancel[c]: where the goroutine that will call Cancel is
  dones,       \* dones[t]: calls of WgDone made by the context of t
  late,        \* tasks and runners that called WgAdd after WgWait was released
  timedOut,    \* the 30s ran out
  crash        \* the panic that ended the process, or "none"

signalVars == <<sigDone, doneClosed, doing, closer, timedOut>>
listenVars == <<isListened, listener, inbox, signalled, children>>
runnerVars == <<isHTTP, runner, registered, stopper>>
taskVars == <<cancel, dones>>
wgVars == <<wg, waiter, late>>
vars == <<signalVars, listenVars, runnerVars, taskVars, wgVars, crash>>

TypeOK ==
  /\ wg \in Int
  /\ sigDone \in BOOLEAN /\ doneClosed \in BOOLEAN /\ doing \in BOOLEAN /\ timedOut \in BOOLEAN
  /\ isListened \in BOOLEAN /\ isHTTP \in BOOLEAN /\ signalled \in BOOLEAN
  /\ closer \in [Closers -> {"off", "lock", "select", "expired", "finished"}]
  /\ waiter \in {"off", "cancel", "wait", "blocked", "woken", "close", "finished"}
  /\ listener \in [Runners -> {"off", "start", "checked", "armed", "finished"}]
  /\ inbox \in [Runners -> {"empty", "INT", "TERM"}]
  /\ children \in Nat
  /\ runner \in [Runners -> {"called", "opening", "serving", "leaving", "waiting", "returned"}]
  /\ registered \subseteq Http \cup Grpc
  /\ stopper \in [Grpc -> {"off", "spawned", "armed", "stopping", "finished"}]
  /\ cancel \in [Cancellers -> {"off", "run", "commit", "end"}]
  /\ dones \in [Tasks -> Nat]
  /\ late \subseteq Tasks \cup Runners
  /\ crash \in {"none", "negative counter", "reused WaitGroup", "close of closed channel"}

Init ==
  /\ wg = 0 /\ waiter = "off" /\ late = {}
  /\ sigDone = FALSE /\ doneClosed = FALSE /\ doing = FALSE /\ timedOut = FALSE
  /\ closer = [c \in Closers |-> "off"]
  /\ isListened = FALSE /\ signalled = FALSE /\ children = 0
  /\ listener = [r \in Runners |-> "off"]
  /\ inbox = [r \in Runners |-> "empty"]
  /\ isHTTP = FALSE /\ registered = {}
  /\ runner = [r \in Runners |-> "called"]
  /\ stopper = [r \in Grpc |-> "off"]
  /\ cancel = [c \in Cancellers |-> "off"]
  /\ dones = [t \in Tasks |-> 0]
  /\ crash = "none"

-----------------------------------------------------------------------------
(* sync.WaitGroup.  The call that brings the counter to zero releases the  *)
(* goroutine blocked in Wait; that goroutine then panics if the counter    *)
(* moved before it ran.                                                    *)

Released == waiter \in {"woken", "close", "finished"}

WgMove(d) ==
  /\ wg' = wg + d
  /\ waiter' = IF waiter = "blocked" /\ wg + d = 0 THEN "woken" ELSE waiter

WgAdd(who) ==
  /\ WgMove(1)
  /\ late' = IF Released THEN late \cup {who} ELSE late

WgDone == WgMove(-1) /\ UNCHANGED late

-----------------------------------------------------------------------------
(* Tasks.                                                                  *)

Handler(t) == <<t, "handler">>
Watcher(t) == <<t, "watcher">>
Running(t) == cancel[Handler(t)] = "run"

\* New work reaches the process while a server of its kind accepts it.
Accepted(t) ==
  \/ t \in Requests /\ \E r \in Http : runner[r] = "serving"
  \/ t \in Calls /\ \E r \in Grpc : runner[r] = "serving" /\ stopper[r] # "stopping"
  \/ t \in Jobs

\* initCtx, NewHTTPContext...: register, and for a request start closeNotify.
Begin(t) ==
  /\ cancel[Handler(t)] = "off"
  /\ Accepted(t)
  /\ LateWork \/ ~sigDone
  /\ WgAdd(t)
  /\ cancel' = [c \in Cancellers |-> IF c[1] = t THEN "run" ELSE cancel[c]]
  /\ UNCHANGED <<signalVars, listenVars, runnerVars, dones, crash>>

\* The first half of Cancel, the unsynchronised read of isCanceled.  The
\* handler reaches it when it returns; closeNotify when the client has gone or
\* when net/http, after the handler, cancels the request's context.
CheckCanceled(t, who) ==
  /\ cancel[<<t, who>>] = "run"
  /\ who = "watcher" => Disconnects \/ cancel[Handler(t)] = "end"
  /\ cancel' = [cancel EXCEPT ![<<t, who>>] = IF dones[t] > 0 THEN "end" ELSE "commit"]
  /\ UNCHANGED <<signalVars, listenVars, runnerVars, wgVars, dones, crash>>

\* The second half: set isCanceled (dones > 0), WgDone, cancel the context.
\* net/http recovers a panic of the handler's goroutine, nobody recovers one
\* of the others.
CommitCancel(t, who) ==
  /\ cancel[<<t, who>>] = "commit"
  /\ cancel' = [cancel EXCEPT ![<<t, who>>] = "end"]
  /\ dones' = [dones EXCEPT ![t] = @ + 1]
  /\ WgDone
  /\ crash' = IF wg <= 0 /\ ~(t \in Requests /\ who = "handler")
              THEN "negative counter" ELSE crash
  /\ UNCHANGED <<signalVars, listenVars, runnerVars>>

-----------------------------------------------------------------------------
(* doShutdownDone, its timer and waitDone.                                 *)

\* mu is held from the lock through the select, by whoever is past it.
MuHeld == \E c \in Closers : closer[c] \in {"select", "expired"}

LockMu(c) ==
  /\ closer[c] = "lock"
  /\ ~MuHeld
  /\ IF doing
     THEN /\ closer' = [closer EXCEPT ![c] = "finished"]
          /\ UNCHANGED <<doing, waiter>>
     ELSE /\ closer' = [closer EXCEPT ![c] = "select"]
          /\ doing' = TRUE
          /\ waiter' = "cancel"
  /\ UNCHANGED <<sigDone, doneClosed, timedOut, wg, late, listenVars, runnerVars, taskVars, crash>>

SelectDone(c) ==
  /\ closer[c] = "select"
  /\ doneClosed
  /\ closer' = [closer EXCEPT ![c] = "finished"]
  /\ UNCHANGED <<sigDone, doneClosed, doing, timedOut, wgVars, listenVars, runnerVars, taskVars, crash>>

\* With both channels ready the select may take either.
SelectTimeout(c) ==
  /\ closer[c] = "select"
  /\ Timers
  /\ timedOut' = TRUE
  /\ closer' = [closer EXCEPT ![c] = "expired"]
  /\ UNCHANGED <<sigDone, doneClosed, doing, wgVars, listenVars, runnerVars, taskVars, crash>>

CloseDone ==
  /\ doneClosed' = TRUE
  /\ crash' = IF doneClosed THEN "close of closed channel" ELSE crash

\* Variant: the timeout only warns.
TimeoutWarns(c) ==
  /\ closer[c] = "expired"
  /\ closer' = [closer EXCEPT ![c] = "finished"]
  /\ UNCHANGED <<sigDone, doneClosed, doing, timedOut, wgVars, listenVars, runnerVars, taskVars, crash>>

TimeoutClose(c) ==
  /\ closer[c] = "expired"
  /\ closer' = [closer EXCEPT ![c] = "finished"]
  /\ CloseDone
  /\ UNCHANGED <<sigDone, doing, timedOut, wgVars, listenVars, runnerVars, taskVars>>

WaiterCancel ==
  /\ waiter = "cancel"
  /\ waiter' = "wait"
  /\ sigDone' = TRUE
  /\ UNCHANGED <<doneClosed, doing, closer, timedOut, wg, late, listenVars, runnerVars, taskVars, crash>>

\* Variant: the WaitGroup is not waited for.
WaiterSkips ==
  /\ waiter = "wait" /\ waiter' = "close"
  /\ UNCHANGED <<signalVars, wg, late, listenVars, runnerVars, taskVars, crash>>

WaiterWait ==
  /\ waiter = "wait"
  /\ waiter' = IF wg = 0 THEN "close" ELSE "blocked"
  /\ UNCHANGED <<signalVars, wg, late, listenVars, runnerVars, taskVars, crash>>

\* The released goroutine runs again.
WaiterWake ==
  /\ waiter = "woken"
  /\ waiter' = "close"
  /\ crash' = IF wg # 0 THEN "reused WaitGroup" ELSE crash
  /\ UNCHANGED <<signalVars, wg, late, listenVars, runnerVars, taskVars>>

WaiterClose ==
  /\ waiter = "close"
  /\ waiter' = "finished"
  /\ CloseDone
  /\ UNCHANGED <<sigDone, doing, closer, timedOut, wg, late, listenVars, runnerVars, taskVars>>

-----------------------------------------------------------------------------
(* Listen.                                                                 *)

ListenCheck(r) ==
  /\ listener[r] = "start"
  /\ listener' = [listener EXCEPT ![r] = IF isListened THEN "finished" ELSE "checked"]
  /\ UNCHANGED <<signalVars, isListened, inbox, signalled, children, runnerVars, taskVars, wgVars, crash>>

ListenArm(r) ==
  /\ listener[r] = "checked"
  /\ isListened' = TRUE
  /\ listener' = [listener EXCEPT ![r] = "armed"]
  /\ UNCHANGED <<signalVars, inbox, signalled, children, runnerVars, taskVars, wgVars, crash>>

\* Every armed channel has room for one signal.
Deliver(s) == [r \in Runners |-> IF listener[r] = "armed" /\ inbox[r] = "empty" THEN s ELSE inbox[r]]

\* External: kill -INT or kill -TERM.
OsSignal(s) ==
  /\ ~signalled
  /\ \E r \in Runners : listener[r] = "armed"
  /\ signalled' = TRUE
  /\ inbox' = Deliver(s)
  /\ UNCHANGED <<signalVars, isListened, listener, children, runnerVars, taskVars, wgVars, crash>>

\* Variant: an HTTP process leaves the whole shutdown to gracehttp.
ListenWakeConsoleOnly(r) ==
  /\ listener[r] = "armed" /\ (sigDone \/ inbox[r] # "empty")
  /\ listener' = [listener EXCEPT ![r] = "finished"]
  /\ closer' = IF isHTTP THEN closer ELSE [closer EXCEPT ![<<r, "Listen">>] = "lock"]
  /\ UNCHANGED <<sigDone, doneClosed, doing, timedOut, isListened, inbox, signalled, children,
                 runnerVars, taskVars, wgVars, crash>>

\* The select wakes on a signal, or on the cancelled context, and then sends
\* the process SIGINT so that the HTTP server stops too.  A console program
\* that got SIGTERM starts its successor.
ListenWake(r) ==
  /\ listener[r] = "armed"
  /\ \/ sigDone /\ inbox' = Deliver("INT") /\ UNCHANGED children
     \/ /\ inbox[r] # "empty"
        /\ children' = IF inbox[r] = "TERM" /\ ~isHTTP THEN children + 1 ELSE children
        /\ UNCHANGED inbox
  /\ listener' = [listener EXCEPT ![r] = "finished"]
  /\ closer' = [closer EXCEPT ![<<r, "Listen">>] = "lock"]
  /\ UNCHANGED <<sigDone, doneClosed, doing, timedOut, isListened, signalled, runnerVars, taskVars, wgVars, crash>>

-----------------------------------------------------------------------------
(* Run and RunGrpc.                                                        *)

\* go Listen(), and for Run without an address the wait for the context.
Enter(r) ==
  /\ runner[r] = "called"
  /\ runner' = [runner EXCEPT ![r] = IF r \in Console THEN "serving" ELSE "opening"]
  /\ listener' = [listener EXCEPT ![r] = "start"]
  /\ UNCHANGED <<signalVars, isListened, inbox, signalled, children, isHTTP, registered, stopper, taskVars, wgVars, crash>>

\* The listener cannot be opened, or the service cannot be registered.
OpenFails(r) ==
  /\ runner[r] = "opening"
  /\ isHTTP' = (isHTTP \/ r \in Http)
  /\ runner' = [runner EXCEPT ![r] = "leaving"]
  /\ UNCHANGED <<signalVars, listenVars, registered, stopper, taskVars, wgVars, crash>>

\* Open the listener, register the service if a registry is configured, and
\* serve; RunGrpc also starts the goroutine that will stop the server.
Open(r, withRegistry) ==
  /\ runner[r] = "opening"
  /\ isHTTP' = (isHTTP \/ r \in Http)
  /\ runner' = [runner EXCEPT ![r] = "serving"]
  /\ stopper' = [g \in Grpc |-> IF g = r THEN "spawned" ELSE stopper[g]]
  /\ IF withRegistry
     THEN WgAdd(r) /\ registered' = registered \cup {r}
     ELSE UNCHANGED <<wgVars, registered>>
  /\ UNCHANGED <<signalVars, listenVars, taskVars, crash>>

\* Serve returns: it was stopped, or failed.
ServeReturns(r) ==
  /\ runner[r] = "serving"
  /\ r \in Console => sigDone
  /\ runner' = [runner EXCEPT ![r] = "leaving"]
  /\ UNCHANGED <<signalVars, listenVars, isHTTP, registered, stopper, taskVars, wgVars, crash>>

\* Variant: an error of the registry returns before WgDone.
UnregisterSkipsDone(r) ==
  /\ runner[r] = "leaving" /\ r \in registered
  /\ registered' = registered \ {r}
  /\ UNCHANGED <<signalVars, listenVars, isHTTP, runner, stopper, taskVars, wgVars, crash>>

\* Variant: a service is taken out of the registry again and again.
UnregisterAgain(r) ==
  /\ runner[r] = "leaving" /\ r \in registered
  /\ WgDone
  /\ crash' = IF wg <= 0 THEN "negative counter" ELSE crash
  /\ UNCHANGED <<signalVars, listenVars, isHTTP, runner, registered, stopper, taskVars>>

Unregister(r) ==
  /\ runner[r] = "leaving"
  /\ r \in registered
  /\ registered' = registered \ {r}
  /\ WgDone
  /\ crash' = IF wg <= 0 THEN "negative counter" ELSE crash
  /\ UNCHANGED <<signalVars, listenVars, isHTTP, runner, stopper, taskVars>>

CallShutdowned(r) ==
  /\ runner[r] = "leaving"
  /\ r \notin registered
  /\ runner' = [runner EXCEPT ![r] = "waiting"]
  /\ closer' = [closer EXCEPT ![<<r, "Shutdowned">>] = "lock"]
  /\ UNCHANGED <<sigDone, doneClosed, doing, timedOut, listenVars, isHTTP, registered, stopper, taskVars, wgVars, crash>>

\* Variant: Shutdowned starts the shutdown and does not wait for done.
ShutdownedDoesNotWait(r) ==
  /\ runner[r] = "waiting"
  /\ runner' = [runner EXCEPT ![r] = "returned"]
  /\ UNCHANGED <<signalVars, listenVars, isHTTP, registered, stopper, taskVars, wgVars, crash>>

ShutdownedReturns(r) ==
  /\ runner[r] = "waiting"
  /\ doneClosed
  /\ runner' = [runner EXCEPT ![r] = "returned"]
  /\ UNCHANGED <<signalVars, listenVars, isHTTP, registered, stopper, taskVars, wgVars, crash>>

\* The stopping goroutine of RunGrpc registers itself once it runs.
StopperAdd(r) ==
  /\ stopper[r] = "spawned"
  /\ stopper' = [stopper EXCEPT ![r] = "armed"]
  /\ WgAdd(r)
  /\ UNCHANGED <<signalVars, listenVars, isHTTP, runner, registered, taskVars, crash>>

GracefulStop(r) ==
  /\ stopper[r] = "armed"
  /\ sigDone
  /\ stopper' = [stopper EXCEPT ![r] = "stopping"]
  /\ UNCHANGED <<signalVars, listenVars, isHTTP, runner, registered, taskVars, wgVars, crash>>

\* Variant: the stopping goroutine does not take itself out of the WaitGroup.
StopperStays(r) ==
  /\ stopper[r] = "stopping"
  /\ stopper' = [stopper EXCEPT ![r] = "finished"]
  /\ UNCHANGED <<signalVars, listenVars, isHTTP, runner, registered, taskVars, wgVars, crash>>

\* GracefulStop returns when no call is left.
StopperDone(r) ==
  /\ stopper[r] = "stopping"
  /\ \A t \in Calls : cancel[Handler(t)] \in {"off", "end"}
  /\ stopper' = [stopper EXCEPT ![r] = "finished"]
  /\ WgDone
  /\ crash' = IF wg <= 0 THEN "negative counter" ELSE crash
  /\ UNCHANGED <<signalVars, listenVars, isHTTP, runner, registered, taskVars>>

-----------------------------------------------------------------------------
TaskStep ==
  \/ \E t \in Tasks : Begin(t)
  \/ \E c \in Cancellers : CheckCanceled(c[1], c[2]) \/ CommitCancel(c[1], c[2])

CloserStep(c) == LockMu(c) \/ SelectDone(c) \/ SelectTimeout(c) \/ TimeoutClose(c)

WaiterStep == WaiterCancel \/ WaiterWait \/ WaiterWake \/ WaiterClose

ListenStep(r) == ListenCheck(r) \/ ListenArm(r) \/ ListenWake(r)

RunnerStep(r) ==
  \/ Enter(r) \/ OpenFails(r) \/ \E b \in BOOLEAN : Open(r, b)
  \/ ServeReturns(r) \/ Unregister(r) \/ CallShutdowned(r) \/ ShutdownedReturns(r)

StopperStep(r) == StopperAdd(r) \/ GracefulStop(r) \/ StopperDone(r)

\* A panic ends the process.
Next ==
  /\ crash = "none"
  /\ \/ TaskStep
     \/ \E c \in Closers : CloserStep(c)
     \/ WaiterStep
     \/ \E s \in {"INT", "TERM"} : OsSignal(s)
     \/ \E r \in Runners : ListenStep(r) \/ RunnerStep(r)
     \/ \E r \in Grpc : StopperStep(r)

\* The Go scheduler runs every ready goroutine and fires every timer.  Nothing
\* is assumed of handlers, clients, signals or servers.
Fairness ==
  /\ \A c \in Closers : WF_vars(crash = "none" /\ CloserStep(c))
  /\ WF_vars(crash = "none" /\ WaiterStep)
  /\ \A r \in Runners : /\ WF_vars(crash = "none" /\ ListenStep(r))
                        /\ WF_vars(crash = "none" /\ ShutdownedReturns(r))

\* Where every handler returns and every server, told to stop, stops.
WorkEnds ==
  /\ \A c \in Cancellers :
       WF_vars(crash = "none" /\ (CheckCanceled(c[1], c[2]) \/ CommitCancel(c[1], c[2])))
  /\ \A r \in Runners : WF_vars(crash = "none" /\ sigDone /\ (ServeReturns(r) \/ Unregister(r)))
  /\ \A r \in Grpc : WF_vars(crash = "none" /\ StopperStep(r))

Spec == Init /\ [][Next]_vars
FairSpec == Spec /\ Fairness
DrainingSpec == FairSpec /\ WorkEnds

-----------------------------------------------------------------------------
(* Properties.                                                             *)

Held == {t \in Tasks : cancel[Handler(t)] # "off" /\ dones[t] = 0}
Overdone == {t \in Tasks : dones[t] > 1}
StoppersIn == {r \in Grpc : stopper[r] \in {"armed", "stopping"}}

\* The WaitGroup counts exactly the work that is registered, less one for every
\* context on which two goroutines both got past Cancel's check (context.go
\* Cancel, initCtx; RunGrpc's goroutine; Register and UnRegister).
WgAccount ==
  wg = Cardinality(Held) + Cardinality(registered) + Cardinality(StoppersIn)
         - Cardinality(Overdone)

\* However many goroutines ask for the shutdown, the channel done is closed
\* twice only if the 30 seconds ran out (doShutdownDone, waitDone).
DoubleCloseNeedsTimeout == crash = "close of closed channel" => timedOut

\* The counter goes below zero only after two goroutines cancelled the same
\* context (Cancel's unsynchronised isCanceled).
NegativeNeedsDoubleCancel == crash = "negative counter" => Overdone # {}

\* waitDone's Wait panics only if, between the moment the last unit left and the
\* moment waitDone ran again, something registered itself or a context
\* cancelled twice took the counter below zero.
ReuseNeedsLateWork == crash = "reused WaitGroup" => late # {} \/ Overdone # {}

\* Whichever of its three panics ends the shutdown, something went wrong before.
PanicNeedsCause == DoubleCloseNeedsTimeout /\ NegativeNeedsDoubleCancel /\ ReuseNeedsLateWork

\* When done closes without a timeout, the business was notified first, and a
\* handler still running then either began after the drain was decided or was
\* taken out of the count by closeNotify because its client had gone.
DrainedAtDone ==
  doneClosed /\ ~timedOut =>
    /\ sigDone
    /\ Overdone = {} =>
         /\ \A t \in Tasks : Running(t) => t \in late \/ dones[t] = 1
         /\ registered \cup StoppersIn \subseteq late

\* signal.go:24: done tells "that all tasks have exited".
DoneMeansDrained == doneClosed => \A t \in Tasks : ~Running(t)

\* A received signal is on its way to the shutdown, whoever waits in Shutdowned
\* has a goroutine that will close done or is about to be one, and waitDone is
\* blocked only while work is registered (Listen, doShutdownDone, waitDone).
SignalOnItsWay ==
  signalled => \/ sigDone \/ waiter = "cancel"
               \/ \E r \in Runners : \/ listener[r] = "armed" /\ inbox[r] # "empty"
                                    \/ closer[<<r, "Listen">>] = "lock"
NobodyWaitsInVain ==
  /\ SignalOnItsWay
  /\ \A r \in Runners :
       runner[r] = "waiting" => doneClosed \/ MuHeld \/ closer[<<r, "Shutdowned">>] = "lock"
  /\ waiter = "blocked" => Held \cup registered \cup StoppersIn \cup Overdone # {}

\* Without timeouts, client disconnects and late work the signal context is a
\* Drain: the shutdown steps of all goroutines together do what it promises.
Abstract ==
  INSTANCE Drain WITH
    Askers <- Runners,
    phase <- IF doneClosed THEN "down" ELSE IF sigDone THEN "draining" ELSE "up",
    work <- {t \in Tasks : Running(t)},
    answered <- {r \in Runners : runner[r] = "returned"}
IsADrain == Abstract!Spec

\* If all work ends, the WaitGroup alone, without the timer, ends the wait.
DrainEnds == sigDone ~> (doneClosed \/ crash # "none")

\* Whoever calls Shutdowned gets its answer, even if no handler ever returns:
\* the timer of doShutdownDone bounds the wait.
ShutdownedAnswers ==
  \A r \in Runners : (runner[r] = "waiting") ~> (runner[r] = "returned" \/ crash # "none")

\* A signal that a Listen goroutine receives reaches the business as a
\* cancelled context, whatever the tasks that hold the WaitGroup do.
SignalIsPassedOn == signalled ~> (sigDone \/ crash # "none")
=============================================================================
