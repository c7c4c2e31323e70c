--------------------------- MODULE ShutdownProofs ---------------------------
(***************************************************************************)
(* Theorems about Shutdown, for any finite sets of tasks and runners and   *)
(* any environment.                                                        *)
(***************************************************************************)
EXTENDS Shutdown, FiniteSetTheorems, TLAPS

-----------------------------------------------------------------------------
(* Type correctness.                                                       *)

\* Run without an address waits for the context and opens no server.
ConsoleOpensNothing == \A r \in Console : runner[r] # "opening"

Typed == TypeOK /\ ConsoleOpensNothing

LEMMA CancellersTyped ==
  /\ \A t \in Tasks : Handler(t) \in Cancellers
  /\ \A c \in Cancellers : c[1] \in Tasks /\ c[2] \in {"handler", "watcher"} /\ c = <<c[1], c[2]>>
BY DEF Cancellers, Handler, Tasks

LEMMA ClosersTyped ==
  \A r \in Runners : <<r, "Listen">> \in Closers /\ <<r, "Shutdowned">> \in Closers
BY DEF Closers

WaiterStates == {"off", "cancel", "wait", "blocked", "woken", "close", "finished"}

LEMMA WgTyped == Typed => wg \in Int /\ waiter \in WaiterStates /\ late \subseteq Tasks \cup Runners
BY DEF Typed, TypeOK, WaiterStates

LEMMA CountsTyped == Typed => dones \in [Tasks -> Nat] /\ children \in Nat
BY DEF Typed, TypeOK

LEMMA WgAddTyped ==
  ASSUME Typed, NEW who \in Tasks \cup Runners, WgAdd(who)
  PROVE  wg' \in Int /\ waiter' \in WaiterStates /\ late' \subseteq Tasks \cup Runners
BY WgTyped DEF WgAdd, WgMove, WaiterStates

LEMMA WgDoneTyped ==
  ASSUME Typed, WgDone
  PROVE  wg' \in Int /\ waiter' \in WaiterStates /\ late' \subseteq Tasks \cup Runners
BY WgTyped DEF WgDone, WgMove, WaiterStates

LEMMA CommitTyped ==
  ASSUME Typed, NEW t \in Tasks, NEW who, CommitCancel(t, who)
  PROVE  dones' \in [Tasks -> Nat]
<1>1. dones' = [dones EXCEPT ![t] = dones[t] + 1]
  BY DEF CommitCancel
<1>2. dones[t] + 1 \in Nat
  BY CountsTyped
<1> QED BY <1>1, <1>2, CountsTyped

LEMMA WakeTyped ==
  ASSUME Typed, NEW r \in Runners, ListenWake(r)
  PROVE  children' \in Nat
<1>1. children' = children \/ children' = children + 1
  BY DEF ListenWake
<1> QED BY <1>1, CountsTyped

LEMMA DeliverTyped ==
  ASSUME Typed, NEW s \in {"INT", "TERM"}
  PROVE  Deliver(s) \in [Runners -> {"empty", "INT", "TERM"}]
BY DEF Typed, TypeOK, Deliver

LEMMA TypedInit == Init => Typed
<1> SUFFICES ASSUME Init PROVE Typed
  OBVIOUS
<1>1. /\ closer \in [Closers -> {"off", "lock", "select", "expired", "finished"}]
      /\ listener \in [Runners -> {"off", "start", "checked", "armed", "finished"}]
      /\ inbox \in [Runners -> {"empty", "INT", "TERM"}]
      /\ runner \in [Runners -> {"called", "opening", "serving", "leaving", "waiting", "returned"}]
  BY DEF Init
<1>2. /\ stopper \in [Grpc -> {"off", "spawned", "armed", "stopping", "finished"}]
      /\ cancel \in [Cancellers -> {"off", "run", "commit", "end"}]
      /\ dones \in [Tasks -> Nat]
  BY DEF Init
<1>3. wg \in Int /\ children \in Nat /\ late \subseteq Tasks \cup Runners /\ registered \subseteq Http \cup Grpc
  BY DEF Init
<1>4. ConsoleOpensNothing
  BY DEF Init, ConsoleOpensNothing, Runners
<1> QED BY <1>1, <1>2, <1>3, <1>4 DEF Init, Typed, TypeOK

\* The parts of Typed, one for each group of variables that steps change
\* together.
SignalTyped ==
  /\ sigDone \in BOOLEAN /\ doneClosed \in BOOLEAN /\ doing \in BOOLEAN /\ timedOut \in BOOLEAN
  /\ closer \in [Closers -> {"off", "lock", "select", "expired", "finished"}]

ListenTyped ==
  /\ isListened \in BOOLEAN /\ signalled \in BOOLEAN /\ children \in Nat
  /\ listener \in [Runners -> {"off", "start", "checked", "armed", "finished"}]
  /\ inbox \in [Runners -> {"empty", "INT", "TERM"}]

RunnerTyped ==
  /\ isHTTP \in BOOLEAN
  /\ registered \subseteq Http \cup Grpc
  /\ runner \in [Runners -> {"called", "opening", "serving", "leaving", "waiting", "returned"}]
  /\ stopper \in [Grpc -> {"off", "spawned", "armed", "stopping", "finished"}]
  /\ ConsoleOpensNothing

TaskTyped ==
  /\ cancel \in [Cancellers -> {"off", "run", "commit", "end"}]
  /\ dones \in [Tasks -> Nat]

CountTyped == wg \in Int /\ waiter \in WaiterStates /\ late \subseteq Tasks \cup Runners

CrashTyped == crash \in {"none", "negative counter", "reused WaitGroup", "close of closed channel"}

LEMMA PartsOf ==
  Typed => SignalTyped /\ ListenTyped /\ RunnerTyped /\ TaskTyped /\ CountTyped /\ CrashTyped
<1> SUFFICES ASSUME Typed
             PROVE  SignalTyped /\ ListenTyped /\ RunnerTyped /\ TaskTyped /\ CountTyped /\ CrashTyped
  OBVIOUS
<1>1. TypeOK /\ ConsoleOpensNothing    BY DEF Typed
<1>2. SignalTyped                      BY <1>1 DEF TypeOK, SignalTyped
<1>3. ListenTyped                      BY <1>1 DEF TypeOK, ListenTyped
<1>4. RunnerTyped                      BY <1>1 DEF TypeOK, RunnerTyped
<1>5. TaskTyped                        BY <1>1 DEF TypeOK, TaskTyped
<1>6. CountTyped /\ CrashTyped         BY <1>1 DEF TypeOK, CountTyped, CrashTyped, WaiterStates
<1> QED BY <1>2, <1>3, <1>4, <1>5, <1>6

LEMMA FromParts ==
  SignalTyped' /\ ListenTyped' /\ RunnerTyped' /\ TaskTyped' /\ CountTyped' /\ CrashTyped' => Typed'
BY DEF Typed, TypeOK, SignalTyped, ListenTyped, RunnerTyped, TaskTyped, CountTyped, CrashTyped,
       WaiterStates

\* A step keeps the parts whose variables it leaves alone.
LEMMA Quiet ==
  ASSUME Typed
  PROVE  /\ UNCHANGED signalVars => SignalTyped'
         /\ UNCHANGED listenVars => ListenTyped'
         /\ UNCHANGED runnerVars => RunnerTyped'
         /\ UNCHANGED taskVars => TaskTyped'
         /\ UNCHANGED wgVars => CountTyped'
         /\ UNCHANGED crash => CrashTyped'
<1>1. UNCHANGED signalVars => SignalTyped'   BY PartsOf DEF SignalTyped, signalVars
<1>2. UNCHANGED listenVars => ListenTyped'   BY PartsOf DEF ListenTyped, listenVars
<1>3. UNCHANGED runnerVars => RunnerTyped'
  BY PartsOf DEF RunnerTyped, runnerVars, ConsoleOpensNothing
<1>4. UNCHANGED taskVars => TaskTyped'       BY PartsOf DEF TaskTyped, taskVars
<1>5. UNCHANGED wgVars => CountTyped'        BY PartsOf DEF CountTyped, wgVars
<1>6. UNCHANGED crash => CrashTyped'         BY PartsOf DEF CrashTyped
<1> QED BY <1>1, <1>2, <1>3, <1>4, <1>5, <1>6

LEMMA TypedTask == Typed /\ TaskStep => Typed'
<1> SUFFICES ASSUME Typed, TaskStep PROVE Typed'
  OBVIOUS
<1> USE PartsOf
<1>1. ASSUME NEW t \in Tasks, Begin(t) PROVE Typed'
  <2>1. TaskTyped'    BY <1>1 DEF Begin, TaskTyped
  <2>2. CountTyped'   BY <1>1, WgAddTyped DEF Begin, CountTyped
  <2>3. UNCHANGED <<signalVars, listenVars, runnerVars, crash>>   BY <1>1 DEF Begin
  <2> QED BY <2>1, <2>2, <2>3, Quiet, FromParts
<1>2. ASSUME NEW c \in Cancellers, CheckCanceled(c[1], c[2]) PROVE Typed'
  <2>1. TaskTyped'    BY <1>2, CancellersTyped DEF CheckCanceled, TaskTyped
  <2>2. UNCHANGED <<signalVars, listenVars, runnerVars, wgVars, crash>>   BY <1>2 DEF CheckCanceled
  <2> QED BY <2>1, <2>2, Quiet, FromParts
<1>3. ASSUME NEW c \in Cancellers, CommitCancel(c[1], c[2]) PROVE Typed'
  <2>1. CountTyped'   BY <1>3, WgDoneTyped DEF CommitCancel, CountTyped
  <2>2. dones' \in [Tasks -> Nat]
    BY <1>3, CancellersTyped, CommitTyped
  <2>3. cancel' \in [Cancellers -> {"off", "run", "commit", "end"}]
    BY <1>3, CancellersTyped DEF CommitCancel, TaskTyped
  <2>4. TaskTyped'    BY <2>2, <2>3 DEF TaskTyped
  <2>5. CrashTyped'   BY <1>3 DEF CommitCancel, CrashTyped
  <2>6. UNCHANGED <<signalVars, listenVars, runnerVars>>   BY <1>3 DEF CommitCancel
  <2> QED BY <2>1, <2>4, <2>5, <2>6, Quiet, FromParts
<1> QED BY <1>1, <1>2, <1>3 DEF TaskStep

LEMMA TypedCloser == ASSUME NEW c \in Closers PROVE Typed /\ CloserStep(c) => Typed'
<1> SUFFICES ASSUME Typed, CloserStep(c) PROVE Typed'
  OBVIOUS
<1> USE PartsOf
<1>0. UNCHANGED <<listenVars, runnerVars, taskVars>>
  BY DEF CloserStep, LockMu, SelectDone, SelectTimeout, TimeoutClose
<1>1. CASE LockMu(c)
  <2>1. SignalTyped'               BY <1>1 DEF LockMu, SignalTyped
  <2>2. CountTyped' /\ CrashTyped' BY <1>1 DEF LockMu, CountTyped, CrashTyped, WaiterStates
  <2> QED BY <1>0, <2>1, <2>2, Quiet, FromParts
<1>2. CASE SelectDone(c)
  <2>1. SignalTyped'               BY <1>2 DEF SelectDone, SignalTyped
  <2>2. UNCHANGED <<wgVars, crash>>  BY <1>2 DEF SelectDone
  <2> QED BY <1>0, <2>1, <2>2, Quiet, FromParts
<1>3. CASE SelectTimeout(c)
  <2>1. SignalTyped'               BY <1>3 DEF SelectTimeout, SignalTyped
  <2>2. UNCHANGED <<wgVars, crash>>  BY <1>3 DEF SelectTimeout
  <2> QED BY <1>0, <2>1, <2>2, Quiet, FromParts
<1>4. CASE TimeoutClose(c)
  <2>1. SignalTyped'               BY <1>4 DEF TimeoutClose, CloseDone, SignalTyped
  <2>2. UNCHANGED wgVars           BY <1>4 DEF TimeoutClose
  <2>3. CrashTyped'                BY <1>4 DEF TimeoutClose, CloseDone, CrashTyped
  <2> QED BY <1>0, <2>1, <2>2, <2>3, Quiet, FromParts
<1> QED BY <1>1, <1>2, <1>3, <1>4 DEF CloserStep

LEMMA TypedWaiter == Typed /\ WaiterStep => Typed'
<1> SUFFICES ASSUME Typed, WaiterStep PROVE Typed'
  OBVIOUS
<1> USE PartsOf
<1>0. UNCHANGED <<listenVars, runnerVars, taskVars, wg, late>>
  BY DEF WaiterStep, WaiterCancel, WaiterWait, WaiterWake, WaiterClose
<1>1. CountTyped'
  BY <1>0 DEF WaiterStep, WaiterCancel, WaiterWait, WaiterWake, WaiterClose, CountTyped, WaiterStates
<1>2. SignalTyped'
  BY DEF WaiterStep, WaiterCancel, WaiterWait, WaiterWake, WaiterClose, CloseDone, SignalTyped,
         signalVars
<1>3. CrashTyped'
  BY DEF WaiterStep, WaiterCancel, WaiterWait, WaiterWake, WaiterClose, CloseDone, CrashTyped
<1> QED BY <1>0, <1>1, <1>2, <1>3, Quiet, FromParts

LEMMA TypedSignal == ASSUME NEW s \in {"INT", "TERM"} PROVE Typed /\ OsSignal(s) => Typed'
<1> SUFFICES ASSUME Typed, OsSignal(s) PROVE Typed'
  OBVIOUS
<1>1. inbox' \in [Runners -> {"empty", "INT", "TERM"}]
  BY DeliverTyped DEF OsSignal
<1>2. ListenTyped'
  BY <1>1, PartsOf DEF OsSignal, ListenTyped
<1>3. UNCHANGED <<signalVars, runnerVars, taskVars, wgVars, crash>>
  BY DEF OsSignal
<1> QED BY <1>2, <1>3, Quiet, FromParts

LEMMA TypedListen == ASSUME NEW r \in Runners PROVE Typed /\ ListenStep(r) => Typed'
<1> SUFFICES ASSUME Typed, ListenStep(r) PROVE Typed'
  OBVIOUS
<1> USE PartsOf
<1>0. UNCHANGED <<runnerVars, taskVars, wgVars, crash>>
  BY DEF ListenStep, ListenCheck, ListenArm, ListenWake
<1>1. CASE ListenCheck(r)
  <2>1. ListenTyped'           BY <1>1 DEF ListenCheck, ListenTyped
  <2>2. UNCHANGED signalVars   BY <1>1 DEF ListenCheck
  <2> QED BY <1>0, <2>1, <2>2, Quiet, FromParts
<1>2. CASE ListenArm(r)
  <2>1. ListenTyped'           BY <1>2 DEF ListenArm, ListenTyped
  <2>2. UNCHANGED signalVars   BY <1>2 DEF ListenArm
  <2> QED BY <1>0, <2>1, <2>2, Quiet, FromParts
<1>3. CASE ListenWake(r)
  <2>1. inbox' \in [Runners -> {"empty", "INT", "TERM"}]
    <3>1. inbox' = Deliver("INT") \/ inbox' = inbox   BY <1>3 DEF ListenWake
    <3> QED BY <3>1, DeliverTyped DEF ListenTyped
  <2>2. children' \in Nat
    BY <1>3, WakeTyped
  <2>3. listener' = [listener EXCEPT ![r] = "finished"] /\ UNCHANGED <<isListened, signalled>>
    BY <1>3 DEF ListenWake
  <2>4. ListenTyped'
    BY <2>1, <2>2, <2>3 DEF ListenTyped
  <2>5. SignalTyped'
    BY <1>3, ClosersTyped DEF ListenWake, SignalTyped
  <2> QED BY <1>0, <2>4, <2>5, Quiet, FromParts
<1> QED BY <1>1, <1>2, <1>3 DEF ListenStep

LEMMA TypedRunner == ASSUME NEW r \in Runners PROVE Typed /\ RunnerStep(r) => Typed'
<1> SUFFICES ASSUME Typed, RunnerStep(r) PROVE Typed'
  OBVIOUS
<1> USE PartsOf
<1>0. UNCHANGED taskVars
  BY DEF RunnerStep, Enter, OpenFails, Open, ServeReturns, Unregister, CallShutdowned,
         ShutdownedReturns
<1>1. CASE Enter(r)
  <2>1. RunnerTyped'    BY <1>1 DEF Enter, RunnerTyped, ConsoleOpensNothing
  <2>2. ListenTyped'    BY <1>1 DEF Enter, ListenTyped
  <2>3. UNCHANGED <<signalVars, wgVars, crash>>   BY <1>1 DEF Enter
  <2> QED BY <1>0, <2>1, <2>2, <2>3, Quiet, FromParts
<1>2. CASE OpenFails(r)
  <2>1. RunnerTyped'    BY <1>2 DEF OpenFails, RunnerTyped, ConsoleOpensNothing
  <2>2. UNCHANGED <<signalVars, listenVars, wgVars, crash>>   BY <1>2 DEF OpenFails
  <2> QED BY <1>0, <2>1, <2>2, Quiet, FromParts
<1>3. ASSUME NEW b \in BOOLEAN, Open(r, b) PROVE Typed'
  <2>1. CountTyped'
    BY <1>3, WgAddTyped DEF Open, CountTyped, wgVars
  <2>2. registered' \subseteq Http \cup Grpc
    <3>1. r \notin Console               BY <1>3 DEF Open, RunnerTyped, ConsoleOpensNothing
    <3>2. registered' = registered \cup {r} \/ registered' = registered   BY <1>3 DEF Open
    <3> QED BY <3>1, <3>2 DEF Runners, RunnerTyped
  <2>3. stopper' \in [Grpc -> {"off", "spawned", "armed", "stopping", "finished"}]
    BY <1>3 DEF Open, RunnerTyped
  <2>4. /\ runner' \in [Runners -> {"called", "opening", "serving", "leaving", "waiting", "returned"}]
        /\ ConsoleOpensNothing'
    BY <1>3 DEF Open, RunnerTyped, ConsoleOpensNothing
  <2>5. RunnerTyped'
    BY <1>3, <2>2, <2>3, <2>4 DEF Open, RunnerTyped
  <2>6. UNCHANGED <<signalVars, listenVars, crash>>   BY <1>3 DEF Open
  <2> QED BY <1>0, <2>1, <2>5, <2>6, Quiet, FromParts
<1>4. CASE ServeReturns(r)
  <2>1. RunnerTyped'    BY <1>4 DEF ServeReturns, RunnerTyped, ConsoleOpensNothing
  <2>2. UNCHANGED <<signalVars, listenVars, wgVars, crash>>   BY <1>4 DEF ServeReturns
  <2> QED BY <1>0, <2>1, <2>2, Quiet, FromParts
<1>5. CASE Unregister(r)
  <2>1. RunnerTyped'    BY <1>5 DEF Unregister, RunnerTyped, ConsoleOpensNothing
  <2>2. CountTyped'     BY <1>5, WgDoneTyped DEF Unregister, CountTyped
  <2>3. CrashTyped'     BY <1>5 DEF Unregister, CrashTyped
  <2>4. UNCHANGED <<signalVars, listenVars>>   BY <1>5 DEF Unregister
  <2> QED BY <1>0, <2>1, <2>2, <2>3, <2>4, Quiet, FromParts
<1>6. CASE CallShutdowned(r)
  <2>1. RunnerTyped'    BY <1>6 DEF CallShutdowned, RunnerTyped, ConsoleOpensNothing
  <2>2. SignalTyped'    BY <1>6, ClosersTyped DEF CallShutdowned, SignalTyped
  <2>3. UNCHANGED <<listenVars, wgVars, crash>>   BY <1>6 DEF CallShutdowned
  <2> QED BY <1>0, <2>1, <2>2, <2>3, Quiet, FromParts
<1>7. CASE ShutdownedReturns(r)
  <2>1. RunnerTyped'    BY <1>7 DEF ShutdownedReturns, RunnerTyped, ConsoleOpensNothing
  <2>2. UNCHANGED <<signalVars, listenVars, wgVars, crash>>   BY <1>7 DEF ShutdownedReturns
  <2> QED BY <1>0, <2>1, <2>2, Quiet, FromParts
<1> QED BY <1>1, <1>2, <1>3, <1>4, <1>5, <1>6, <1>7 DEF RunnerStep

LEMMA TypedStopper == ASSUME NEW r \in Grpc PROVE Typed /\ StopperStep(r) => Typed'
<1> SUFFICES ASSUME Typed, StopperStep(r) PROVE Typed'
  OBVIOUS
<1> USE PartsOf
<1>0. UNCHANGED <<signalVars, listenVars, isHTTP, runner, registered, taskVars>>
  BY DEF StopperStep, StopperAdd, GracefulStop, StopperDone
<1>1. RunnerTyped'
  BY <1>0 DEF StopperStep, StopperAdd, GracefulStop, StopperDone, RunnerTyped, ConsoleOpensNothing
<1>2. CASE StopperAdd(r)
  <2>1. CountTyped'   BY <1>2, WgAddTyped DEF StopperAdd, CountTyped, Runners
  <2>2. UNCHANGED crash   BY <1>2 DEF StopperAdd
  <2> QED BY <1>0, <1>1, <2>1, <2>2, Quiet, FromParts
<1>3. CASE GracefulStop(r)
  BY <1>0, <1>1, <1>3, Quiet, FromParts DEF GracefulStop
<1>4. CASE StopperDone(r)
  <2>1. CountTyped'   BY <1>4, WgDoneTyped DEF StopperDone, CountTyped
  <2>2. CrashTyped'   BY <1>4 DEF StopperDone, CrashTyped
  <2> QED BY <1>0, <1>1, <2>1, <2>2, Quiet, FromParts
<1> QED BY <1>2, <1>3, <1>4 DEF StopperStep

LEMMA TypedStutter == Typed /\ UNCHANGED vars => Typed'
BY Quiet, FromParts DEF vars

LEMMA TypedNext == Typed /\ [Next]_vars => Typed'
BY TypedTask, TypedCloser, TypedWaiter, TypedSignal, TypedListen, TypedRunner, TypedStopper,
   TypedStutter DEF Next

\* Every variable of the signal context, its contexts and its entry points
\* keeps its type (signal.go, context.go, run.go, server_grpc.go).
THEOREM TypeCorrect == Spec => []TypeOK
<1>1. Typed => TypeOK
  BY DEF Typed
<1> QED BY TypedInit, TypedNext, <1>1, PTL DEF Spec

-----------------------------------------------------------------------------
(* The channel done is closed twice only after a timeout.                  *)

\* A close is either the timer's or waitDone's; waitDone is started once, by
\* whoever set doing.
CloseInv ==
  /\ doneClosed => timedOut \/ waiter = "finished"
  /\ \A c \in Closers : closer[c] = "expired" => timedOut
  /\ waiter # "off" => doing
  /\ DoubleCloseNeedsTimeout

LEMMA WgMoveWaiter ==
  ASSUME NEW d, WgMove(d)
  PROVE  waiter' = waiter \/ (waiter = "blocked" /\ waiter' = "woken")
BY DEF WgMove

\* The steps that leave the channel and those who close it alone.
LEMMA CloseKept ==
  ASSUME CloseInv,
         UNCHANGED <<doneClosed, doing, timedOut>>,
         waiter' = waiter \/ (waiter = "blocked" /\ waiter' = "woken"),
         \A c \in Closers : closer'[c] = "expired" => closer[c] = "expired",
         crash' = "close of closed channel" => crash = "close of closed channel"
  PROVE  CloseInv'
BY DEF CloseInv, DoubleCloseNeedsTimeout

LEMMA CloseTask == Typed /\ CloseInv /\ TaskStep => CloseInv'
<1> SUFFICES ASSUME Typed, CloseInv, TaskStep PROVE CloseInv'
  OBVIOUS
<1>1. ASSUME NEW t \in Tasks, Begin(t) PROVE CloseInv'
  BY <1>1, CloseKept, WgMoveWaiter DEF Begin, WgAdd, signalVars
<1>2. ASSUME NEW c \in Cancellers, CheckCanceled(c[1], c[2]) PROVE CloseInv'
  BY <1>2, CloseKept DEF CheckCanceled, signalVars, wgVars
<1>3. ASSUME NEW c \in Cancellers, CommitCancel(c[1], c[2]) PROVE CloseInv'
  BY <1>3, CloseKept, WgMoveWaiter DEF CommitCancel, WgDone, signalVars
<1> QED BY <1>1, <1>2, <1>3 DEF TaskStep

LEMMA CloseCloser == ASSUME NEW c \in Closers PROVE Typed /\ CloseInv /\ CloserStep(c) => CloseInv'
<1> SUFFICES ASSUME Typed, CloseInv, CloserStep(c) PROVE CloseInv'
  OBVIOUS
<1> USE DEF CloseInv, DoubleCloseNeedsTimeout
<1>0. closer \in [Closers -> {"off", "lock", "select", "expired", "finished"}]
  BY DEF Typed, TypeOK
<1>1. CASE LockMu(c)          BY <1>0, <1>1 DEF LockMu
<1>2. CASE SelectDone(c)      BY <1>0, <1>2 DEF SelectDone, wgVars
<1>3. CASE SelectTimeout(c)   BY <1>0, <1>3 DEF SelectTimeout, wgVars
<1>4. CASE TimeoutClose(c)    BY <1>0, <1>4 DEF TimeoutClose, CloseDone, wgVars
<1> QED BY <1>1, <1>2, <1>3, <1>4 DEF CloserStep

LEMMA CloseWaiter == Typed /\ CloseInv /\ WaiterStep => CloseInv'
<1> SUFFICES ASSUME Typed, CloseInv, WaiterStep PROVE CloseInv'
  OBVIOUS
<1> USE DEF CloseInv, DoubleCloseNeedsTimeout
<1>1. CASE WaiterCancel   BY <1>1 DEF WaiterCancel
<1>2. CASE WaiterWait     BY <1>2 DEF WaiterWait, signalVars
<1>3. CASE WaiterWake     BY <1>3 DEF WaiterWake, signalVars
<1>4. CASE WaiterClose    BY <1>4 DEF WaiterClose, CloseDone
<1> QED BY <1>1, <1>2, <1>3, <1>4 DEF WaiterStep

LEMMA CloseListen ==
  ASSUME NEW r \in Runners PROVE Typed /\ CloseInv /\ ListenStep(r) => CloseInv'
<1> SUFFICES ASSUME Typed, CloseInv, ListenStep(r) PROVE CloseInv'
  OBVIOUS
<1>0. closer \in [Closers -> {"off", "lock", "select", "expired", "finished"}]
  BY DEF Typed, TypeOK
<1>1. CASE ListenCheck(r)   BY <1>1, CloseKept DEF ListenCheck, signalVars, wgVars
<1>2. CASE ListenArm(r)     BY <1>2, CloseKept DEF ListenArm, signalVars, wgVars
<1>3. CASE ListenWake(r)    BY <1>0, <1>3, CloseKept DEF ListenWake, wgVars
<1> QED BY <1>1, <1>2, <1>3 DEF ListenStep

LEMMA CloseRunner ==
  ASSUME NEW r \in Runners PROVE Typed /\ CloseInv /\ RunnerStep(r) => CloseInv'
<1> SUFFICES ASSUME Typed, CloseInv, RunnerStep(r) PROVE CloseInv'
  OBVIOUS
<1>0. closer \in [Closers -> {"off", "lock", "select", "expired", "finished"}]
  BY DEF Typed, TypeOK
<1>1. CASE Enter(r)         BY <1>1, CloseKept DEF Enter, signalVars, wgVars
<1>2. CASE OpenFails(r)     BY <1>2, CloseKept DEF OpenFails, signalVars, wgVars
<1>3. ASSUME NEW b \in BOOLEAN, Open(r, b) PROVE CloseInv'
  BY <1>3, CloseKept, WgMoveWaiter DEF Open, WgAdd, signalVars, wgVars
<1>4. CASE ServeReturns(r)  BY <1>4, CloseKept DEF ServeReturns, signalVars, wgVars
<1>5. CASE Unregister(r)    BY <1>5, CloseKept, WgMoveWaiter DEF Unregister, WgDone, signalVars
<1>6. CASE CallShutdowned(r)
  BY <1>0, <1>6, CloseKept DEF CallShutdowned, wgVars
<1>7. CASE ShutdownedReturns(r)
  BY <1>7, CloseKept DEF ShutdownedReturns, signalVars, wgVars
<1> QED BY <1>1, <1>2, <1>3, <1>4, <1>5, <1>6, <1>7 DEF RunnerStep

LEMMA CloseStopper ==
  ASSUME NEW r \in Grpc PROVE Typed /\ CloseInv /\ StopperStep(r) => CloseInv'
<1> SUFFICES ASSUME Typed, CloseInv, StopperStep(r) PROVE CloseInv'
  OBVIOUS
<1>1. CASE StopperAdd(r)    BY <1>1, CloseKept, WgMoveWaiter DEF StopperAdd, WgAdd, signalVars
<1>2. CASE GracefulStop(r)  BY <1>2, CloseKept DEF GracefulStop, signalVars, wgVars
<1>3. CASE StopperDone(r)   BY <1>3, CloseKept, WgMoveWaiter DEF StopperDone, WgDone, signalVars
<1> QED BY <1>1, <1>2, <1>3 DEF StopperStep

LEMMA CloseNext == Typed /\ CloseInv /\ [Next]_vars => CloseInv'
<1> SUFFICES ASSUME Typed, CloseInv, [Next]_vars PROVE CloseInv'
  OBVIOUS
<1>1. ASSUME NEW s \in {"INT", "TERM"}, OsSignal(s) PROVE CloseInv'
  BY <1>1, CloseKept DEF OsSignal, signalVars, wgVars
<1>2. CASE UNCHANGED vars
  BY <1>2, CloseKept DEF vars, signalVars, wgVars
<1> QED BY <1>1, <1>2, CloseTask, CloseCloser, CloseWaiter, CloseListen, CloseRunner, CloseStopper DEF Next

\* However many goroutines ask for the shutdown, done is closed a second time
\* only after the 30 seconds of doShutdownDone ran out (signal.go 110-143).
THEOREM CloseOnce == Spec => []DoubleCloseNeedsTimeout
<1>1. Init => CloseInv
  BY DEF Init, CloseInv, DoubleCloseNeedsTimeout
<1>2. CloseInv => DoubleCloseNeedsTimeout
  BY DEF CloseInv
<1> QED BY <1>1, <1>2, TypedInit, TypedNext, CloseNext, PTL DEF Spec

-----------------------------------------------------------------------------
(* The WaitGroup's counter.                                                *)

\* What the WgDone calls of a context say about the goroutines that cancel it:
\* each of them calls WgDone at most once, and ends.
DonesBound ==
  \A t \in Tasks :
    /\ dones[t] \in 0..2
    /\ cancel[Handler(t)] = "off" =>
         dones[t] = 0 /\ (t \in Requests => cancel[Watcher(t)] = "off")
    /\ dones[t] = 1 => cancel[Handler(t)] = "end" \/ (t \in Requests /\ cancel[Watcher(t)] = "end")
    /\ dones[t] = 2 => t \in Requests /\ cancel[Handler(t)] = "end" /\ cancel[Watcher(t)] = "end"

AccountInv == DonesBound /\ WgAccount

LEMMA SetsFinite ==
  ASSUME Typed
  PROVE  /\ IsFiniteSet(Held) /\ IsFiniteSet(Overdone)
         /\ IsFiniteSet(registered) /\ IsFiniteSet(StoppersIn)
<1>1. IsFiniteSet(Tasks) /\ IsFiniteSet(Runners)
  BY ConstantsAssumption
<1>2. Held \subseteq Tasks /\ Overdone \subseteq Tasks
  BY DEF Held, Overdone
<1>3. registered \subseteq Runners /\ StoppersIn \subseteq Runners
  BY DEF Typed, TypeOK, StoppersIn, Runners
<1> QED BY <1>1, <1>2, <1>3, FS_Subset

LEMMA CardAdd ==
  ASSUME NEW S, IsFiniteSet(S), NEW x, x \notin S
  PROVE  Cardinality(S \cup {x}) = Cardinality(S) + 1
BY FS_AddElement

LEMMA CardRemove ==
  ASSUME NEW S, IsFiniteSet(S), NEW x, x \in S
  PROVE  Cardinality(S \ {x}) = Cardinality(S) - 1
BY FS_RemoveElement

LEMMA CardsTyped ==
  ASSUME Typed
  PROVE  /\ Cardinality(Held) \in Nat /\ Cardinality(Overdone) \in Nat
         /\ Cardinality(registered) \in Nat /\ Cardinality(StoppersIn) \in Nat
BY SetsFinite, FS_CardinalityType

\* The steps that move neither the counter nor what it counts.
LEMMA AccountKept ==
  ASSUME AccountInv, UNCHANGED <<wg, registered, stopper, cancel, dones>>
  PROVE  AccountInv'
BY DEF AccountInv, DonesBound, WgAccount, Held, Overdone, StoppersIn

LEMMA AccountBegin ==
  ASSUME Typed, AccountInv, NEW t \in Tasks, Begin(t)
  PROVE  AccountInv'
<1>1. /\ cancel \in [Cancellers -> {"off", "run", "commit", "end"}]
      /\ UNCHANGED <<dones, registered, stopper>> /\ wg' = wg + 1 /\ wg \in Int
  BY DEF Begin, WgAdd, WgMove, runnerVars, Typed, TypeOK
<1>2. \A u \in Tasks : Handler(u) \in Cancellers /\ (u \in Requests => Watcher(u) \in Cancellers)
  BY DEF Cancellers, Handler, Watcher, Tasks
<1>3. \A u \in Tasks :
         /\ cancel'[Handler(u)] = IF u = t THEN "run" ELSE cancel[Handler(u)]
         /\ u \in Requests => cancel'[Watcher(u)] = IF u = t THEN "run" ELSE cancel[Watcher(u)]
  BY <1>1, <1>2 DEF Begin, Handler, Watcher
<1>4. cancel[Handler(t)] = "off" /\ dones[t] = 0
  BY DEF Begin, AccountInv, DonesBound
<1>5. DonesBound'
  BY <1>1, <1>3, <1>4 DEF AccountInv, DonesBound, Handler, Watcher
<1>6. Held' = Held \cup {t} /\ t \notin Held
  BY <1>1, <1>3, <1>4 DEF Held, Handler
<1>7. Cardinality(Held') = Cardinality(Held) + 1
  BY <1>6, SetsFinite, CardAdd
<1>8. UNCHANGED <<Overdone, registered, StoppersIn>>
  BY <1>1 DEF Overdone, StoppersIn
<1> QED BY <1>1, <1>5, <1>7, <1>8, CardsTyped DEF AccountInv, WgAccount

LEMMA AccountCheck ==
  ASSUME Typed, AccountInv, NEW c \in Cancellers, CheckCanceled(c[1], c[2])
  PROVE  AccountInv'
<1>1. /\ cancel \in [Cancellers -> {"off", "run", "commit", "end"}]
      /\ UNCHANGED <<dones, registered, stopper, wg>>
  BY DEF CheckCanceled, runnerVars, wgVars, Typed, TypeOK
<1>2. c = <<c[1], c[2]>> /\ cancel[c] = "run" /\ cancel'[c] # "off"
      /\ \A e \in Cancellers : e # c => cancel'[e] = cancel[e]
  BY <1>1, CancellersTyped DEF CheckCanceled
<1>3. \A u \in Tasks : Handler(u) \in Cancellers /\ (u \in Requests => Watcher(u) \in Cancellers)
  BY DEF Cancellers, Handler, Watcher, Tasks
<1>4. \A e \in Cancellers : (cancel'[e] = "off" <=> cancel[e] = "off") /\ (cancel[e] = "end" => cancel'[e] = "end")
  BY <1>2
<1>5. DonesBound'
  BY <1>1, <1>3, <1>4 DEF AccountInv, DonesBound, Handler, Watcher
<1>6. UNCHANGED <<Held, Overdone, registered, StoppersIn>>
  BY <1>1, <1>3, <1>4 DEF Held, Overdone, StoppersIn, Handler
<1> QED BY <1>1, <1>5, <1>6 DEF AccountInv, WgAccount

LEMMA AccountCommit ==
  ASSUME Typed, AccountInv, NEW t \in Tasks, NEW who, <<t, who>> \in Cancellers, CommitCancel(t, who)
  PROVE  AccountInv'
<1>1. /\ cancel \in [Cancellers -> {"off", "run", "commit", "end"}] /\ dones \in [Tasks -> Nat]
      /\ UNCHANGED <<registered, stopper>> /\ wg' = wg - 1 /\ wg \in Int
  BY DEF CommitCancel, WgDone, WgMove, runnerVars, Typed, TypeOK
<1>2. /\ cancel[<<t, who>>] = "commit" /\ cancel'[<<t, who>>] = "end"
      /\ \A e \in Cancellers : e # <<t, who>> => cancel'[e] = cancel[e]
      /\ \A u \in Tasks : dones'[u] = IF u = t THEN dones[t] + 1 ELSE dones[u]
  BY <1>1 DEF CommitCancel
<1>3. \A u \in Tasks : Handler(u) \in Cancellers /\ (u \in Requests => Watcher(u) \in Cancellers)
  BY DEF Cancellers, Handler, Watcher, Tasks
<1>4. <<t, who>> = Handler(t) \/ (t \in Requests /\ <<t, who>> = Watcher(t))
  BY DEF Cancellers, Handler, Watcher
<1>5. cancel[Handler(t)] # "off"
  BY <1>1, <1>2, <1>4 DEF AccountInv, DonesBound
<1>6. dones[t] = 0 \/ dones[t] = 1
  BY <1>1, <1>2, <1>4 DEF AccountInv, DonesBound
<1>7. DonesBound'
  <2> SUFFICES ASSUME NEW u \in Tasks
      PROVE  /\ dones'[u] \in 0..2
             /\ cancel'[Handler(u)] = "off" =>
                  dones'[u] = 0 /\ (u \in Requests => cancel'[Watcher(u)] = "off")
             /\ dones'[u] = 1 => cancel'[Handler(u)] = "end" \/ (u \in Requests /\ cancel'[Watcher(u)] = "end")
             /\ dones'[u] = 2 => u \in Requests /\ cancel'[Handler(u)] = "end" /\ cancel'[Watcher(u)] = "end"
    BY DEF DonesBound, Handler, Watcher
  <2>1. CASE u # t
    <3>1. /\ cancel'[Handler(u)] = cancel[Handler(u)] /\ dones'[u] = dones[u]
          /\ u \in Requests => cancel'[Watcher(u)] = cancel[Watcher(u)]
      BY <2>1, <1>2, <1>3 DEF Handler, Watcher
    <3> QED BY <3>1 DEF AccountInv, DonesBound
  <2>2. CASE u = t
    <3>1. CASE <<t, who>> = Handler(t)
      <4>1. cancel'[Handler(t)] = "end" /\ (t \in Requests => cancel'[Watcher(t)] = cancel[Watcher(t)])
        BY <3>1, <1>2, <1>3 DEF Handler, Watcher
      <4> QED BY <4>1, <2>2, <3>1, <1>2, <1>6 DEF AccountInv, DonesBound
    <3>2. CASE t \in Requests /\ <<t, who>> = Watcher(t)
      <4>1. cancel'[Watcher(t)] = "end" /\ cancel'[Handler(t)] = cancel[Handler(t)]
        BY <3>2, <1>2, <1>3 DEF Handler, Watcher
      <4> QED BY <4>1, <2>2, <3>2, <1>2, <1>5, <1>6 DEF AccountInv, DonesBound
    <3> QED BY <3>1, <3>2, <1>4
  <2> QED BY <2>1, <2>2
<1>8. \A u \in Tasks : cancel'[Handler(u)] = "off" <=> cancel[Handler(u)] = "off"
  BY <1>2, <1>3, <1>4, <1>5 DEF Handler, Watcher
<1>9. CASE dones[t] = 0
  <2>1. Held' = Held \ {t} /\ t \in Held
    BY <1>2, <1>5, <1>8, <1>9 DEF Held, Handler
  <2>2. UNCHANGED <<Overdone, registered, StoppersIn>>
    BY <1>1, <1>2, <1>9 DEF Overdone, StoppersIn
  <2>3. Cardinality(Held') = Cardinality(Held) - 1
    BY <2>1, SetsFinite, CardRemove
  <2> QED BY <1>1, <1>7, <2>2, <2>3, CardsTyped DEF AccountInv, WgAccount
<1>10. CASE dones[t] = 1
  <2>1. Overdone' = Overdone \cup {t} /\ t \notin Overdone
    BY <1>1, <1>2, <1>10 DEF Overdone
  <2>2. UNCHANGED <<Held, registered, StoppersIn>>
    BY <1>1, <1>2, <1>8, <1>10 DEF Held, StoppersIn, Handler
  <2>3. Cardinality(Overdone') = Cardinality(Overdone) + 1
    BY <2>1, SetsFinite, CardAdd
  <2> QED BY <1>1, <1>7, <2>2, <2>3, CardsTyped DEF AccountInv, WgAccount
<1> QED BY <1>6, <1>9, <1>10

\* A runner that has not opened its server has nothing registered.
Fresh ==
  \A r \in Runners : runner[r] \in {"called", "opening"} =>
    r \notin registered /\ (r \in Grpc => stopper[r] = "off")

LEMMA FreshNext == Typed /\ Fresh /\ [Next]_vars => Fresh'
<1> SUFFICES ASSUME Typed, Fresh, [Next]_vars PROVE Fresh'
  OBVIOUS
<1>0. /\ runner \in [Runners -> {"called", "opening", "serving", "leaving", "waiting", "returned"}]
      /\ stopper \in [Grpc -> {"off", "spawned", "armed", "stopping", "finished"}]
  BY DEF Typed, TypeOK
<1>1. CASE UNCHANGED <<runner, registered, stopper>>
  BY <1>1 DEF Fresh
<1>2. ASSUME NEW r \in Runners, RunnerStep(r) PROVE Fresh'
  <2>1. CASE Enter(r)               BY <2>1, <1>0 DEF Enter, Fresh
  <2>2. CASE OpenFails(r)           BY <2>2, <1>0 DEF OpenFails, Fresh
  <2>3. ASSUME NEW b \in BOOLEAN, Open(r, b) PROVE Fresh'
    <3>1. /\ \A q \in Runners : q # r => runner'[q] = runner[q]
          /\ runner'[r] = "serving"
          /\ \A q \in Grpc : q # r => stopper'[q] = stopper[q]
          /\ registered' \subseteq registered \cup {r}
      BY <2>3, <1>0 DEF Open
    <3> QED BY <3>1 DEF Fresh
  <2>4. CASE ServeReturns(r)        BY <2>4, <1>0 DEF ServeReturns, Fresh
  <2>5. CASE Unregister(r)          BY <2>5, <1>0 DEF Unregister, Fresh
  <2>6. CASE CallShutdowned(r)      BY <2>6, <1>0 DEF CallShutdowned, Fresh
  <2>7. CASE ShutdownedReturns(r)   BY <2>7, <1>0 DEF ShutdownedReturns, Fresh
  <2> QED BY <1>2, <2>1, <2>2, <2>3, <2>4, <2>5, <2>6, <2>7 DEF RunnerStep
<1>3. ASSUME NEW r \in Grpc, StopperStep(r) PROVE Fresh'
  <2>1. CASE StopperAdd(r)    BY <2>1, <1>0 DEF StopperAdd, Fresh
  <2>2. CASE GracefulStop(r)  BY <2>2, <1>0 DEF GracefulStop, Fresh
  <2>3. CASE StopperDone(r)   BY <2>3, <1>0 DEF StopperDone, Fresh
  <2> QED BY <1>3, <2>1, <2>2, <2>3 DEF StopperStep
<1>4. CASE TaskStep
  BY <1>4, <1>1 DEF TaskStep, Begin, CheckCanceled, CommitCancel, runnerVars
<1>5. ASSUME NEW c \in Closers, CloserStep(c) PROVE Fresh'
  BY <1>5, <1>1 DEF CloserStep, LockMu, SelectDone, SelectTimeout, TimeoutClose, runnerVars
<1>6. CASE WaiterStep
  BY <1>6, <1>1 DEF WaiterStep, WaiterCancel, WaiterWait, WaiterWake, WaiterClose, runnerVars
<1>7. ASSUME NEW s \in {"INT", "TERM"}, OsSignal(s) PROVE Fresh'
  BY <1>7, <1>1 DEF OsSignal, runnerVars
<1>8. ASSUME NEW r \in Runners, ListenStep(r) PROVE Fresh'
  BY <1>8, <1>1 DEF ListenStep, ListenCheck, ListenArm, ListenWake, runnerVars
<1>9. CASE UNCHANGED vars
  BY <1>9, <1>1 DEF vars, runnerVars
<1> QED BY <1>2, <1>3, <1>4, <1>5, <1>6, <1>7, <1>8, <1>9 DEF Next

LEMMA AccountOpen ==
  ASSUME Typed, Fresh, AccountInv, NEW r \in Runners, NEW b \in BOOLEAN, Open(r, b)
  PROVE  AccountInv'
<1>1. /\ UNCHANGED <<cancel, dones>> /\ wg \in Int
      /\ \A q \in Grpc : q # r => stopper'[q] = stopper[q]
      /\ r \in Grpc => stopper'[r] = "spawned"
      /\ r \notin registered /\ (r \in Grpc => stopper[r] = "off")
  BY DEF Open, taskVars, Typed, TypeOK, Fresh
<1>2. UNCHANGED <<Held, Overdone, StoppersIn>> /\ DonesBound'
  BY <1>1 DEF Held, Overdone, StoppersIn, AccountInv, DonesBound
<1>3. CASE b
  <2>1. registered' = registered \cup {r} /\ wg' = wg + 1
    BY <1>3 DEF Open, WgAdd, WgMove
  <2>2. Cardinality(registered') = Cardinality(registered) + 1
    BY <1>1, <2>1, SetsFinite, CardAdd
  <2> QED BY <1>1, <1>2, <2>1, <2>2, CardsTyped DEF AccountInv, WgAccount
<1>4. CASE ~b
  BY <1>2, <1>4 DEF Open, wgVars, AccountInv, WgAccount
<1> QED BY <1>3, <1>4

LEMMA AccountUnregister ==
  ASSUME Typed, AccountInv, NEW r \in Runners, Unregister(r)
  PROVE  AccountInv'
<1>1. /\ UNCHANGED <<cancel, dones, stopper>> /\ wg \in Int /\ wg' = wg - 1
      /\ r \in registered /\ registered' = registered \ {r}
  BY DEF Unregister, WgDone, WgMove, taskVars, Typed, TypeOK
<1>2. UNCHANGED <<Held, Overdone, StoppersIn>> /\ DonesBound'
  BY <1>1 DEF Held, Overdone, StoppersIn, AccountInv, DonesBound
<1>3. Cardinality(registered') = Cardinality(registered) - 1
  BY <1>1, SetsFinite, CardRemove
<1> QED BY <1>1, <1>2, <1>3, CardsTyped DEF AccountInv, WgAccount

LEMMA AccountStopper ==
  ASSUME Typed, AccountInv, NEW r \in Grpc, StopperStep(r)
  PROVE  AccountInv'
<1>0. /\ stopper \in [Grpc -> {"off", "spawned", "armed", "stopping", "finished"}] /\ wg \in Int
  BY DEF Typed, TypeOK
<1>1. UNCHANGED <<cancel, dones, registered>>
  BY DEF StopperStep, StopperAdd, GracefulStop, StopperDone, taskVars
<1>2. UNCHANGED <<Held, Overdone, registered>> /\ DonesBound'
  BY <1>1 DEF Held, Overdone, AccountInv, DonesBound
<1>3. CASE StopperAdd(r)
  <2>1. StoppersIn' = StoppersIn \cup {r} /\ r \notin StoppersIn /\ wg' = wg + 1
    BY <1>0, <1>3 DEF StopperAdd, StoppersIn, WgAdd, WgMove
  <2>2. Cardinality(StoppersIn') = Cardinality(StoppersIn) + 1
    BY <2>1, SetsFinite, CardAdd
  <2> QED BY <1>0, <1>2, <2>1, <2>2, CardsTyped DEF AccountInv, WgAccount
<1>4. CASE GracefulStop(r)
  <2>1. StoppersIn' = StoppersIn /\ wg' = wg
    BY <1>0, <1>4 DEF GracefulStop, StoppersIn, wgVars
  <2> QED BY <1>2, <2>1 DEF AccountInv, WgAccount
<1>5. CASE StopperDone(r)
  <2>1. StoppersIn' = StoppersIn \ {r} /\ r \in StoppersIn /\ wg' = wg - 1
    BY <1>0, <1>5 DEF StopperDone, StoppersIn, WgDone, WgMove
  <2>2. Cardinality(StoppersIn') = Cardinality(StoppersIn) - 1
    BY <2>1, SetsFinite, CardRemove
  <2> QED BY <1>0, <1>2, <2>1, <2>2, CardsTyped DEF AccountInv, WgAccount
<1> QED BY <1>3, <1>4, <1>5 DEF StopperStep

LEMMA AccountNext == Typed /\ Fresh /\ AccountInv /\ [Next]_vars => AccountInv'
<1> SUFFICES ASSUME Typed, Fresh, AccountInv, [Next]_vars PROVE AccountInv'
  OBVIOUS
<1>1. CASE TaskStep
  <2>1. ASSUME NEW c \in Cancellers, CommitCancel(c[1], c[2]) PROVE AccountInv'
    BY <2>1, CancellersTyped, AccountCommit
  <2> QED BY <1>1, <2>1, AccountBegin, AccountCheck DEF TaskStep
<1>2. ASSUME NEW c \in Closers, CloserStep(c) PROVE AccountInv'
  BY <1>2, AccountKept
     DEF CloserStep, LockMu, SelectDone, SelectTimeout, TimeoutClose, runnerVars, taskVars, wgVars
<1>3. CASE WaiterStep
  BY <1>3, AccountKept
     DEF WaiterStep, WaiterCancel, WaiterWait, WaiterWake, WaiterClose, runnerVars, taskVars
<1>4. ASSUME NEW s \in {"INT", "TERM"}, OsSignal(s) PROVE AccountInv'
  BY <1>4, AccountKept DEF OsSignal, runnerVars, taskVars, wgVars
<1>5. ASSUME NEW r \in Runners, ListenStep(r) PROVE AccountInv'
  BY <1>5, AccountKept DEF ListenStep, ListenCheck, ListenArm, ListenWake, runnerVars, taskVars, wgVars
<1>6. ASSUME NEW r \in Runners, RunnerStep(r) PROVE AccountInv'
  <2>1. CASE Enter(r)              BY <2>1, AccountKept DEF Enter, taskVars, wgVars
  <2>2. CASE OpenFails(r)          BY <2>2, AccountKept DEF OpenFails, taskVars, wgVars
  <2>3. CASE ServeReturns(r)       BY <2>3, AccountKept DEF ServeReturns, taskVars, wgVars
  <2>4. CASE CallShutdowned(r)     BY <2>4, AccountKept DEF CallShutdowned, taskVars, wgVars
  <2>5. CASE ShutdownedReturns(r)  BY <2>5, AccountKept DEF ShutdownedReturns, taskVars, wgVars
  <2> QED BY <1>6, <2>1, <2>2, <2>3, <2>4, <2>5, AccountOpen, AccountUnregister DEF RunnerStep
<1>7. CASE UNCHANGED vars
  BY <1>7, AccountKept DEF vars, runnerVars, taskVars, wgVars
<1> QED BY <1>1, <1>2, <1>3, <1>4, <1>5, <1>6, <1>7, AccountStopper DEF Next

LEMMA AccountInit == Init => Fresh /\ AccountInv
<1> SUFFICES ASSUME Init PROVE Fresh /\ AccountInv
  OBVIOUS
<1>1. Fresh
  BY DEF Init, Fresh, Runners
<1>2. DonesBound
  BY DEF Init, DonesBound, Handler, Watcher, Cancellers, Tasks
<1>3. Held = {} /\ Overdone = {} /\ StoppersIn = {} /\ registered = {} /\ wg = 0
  <2>1. \A t \in Tasks : Handler(t) \in Cancellers
    BY CancellersTyped
  <2> QED BY <2>1 DEF Init, Held, Overdone, StoppersIn
<1> QED BY <1>1, <1>2, <1>3, FS_EmptySet DEF AccountInv, WgAccount

\* The WaitGroup counts the registered work, less one for every context that
\* two goroutines cancelled (context.go Cancel).
THEOREM Account == Spec => []WgAccount
<1>1. AccountInv => WgAccount
  BY DEF AccountInv
<1> QED BY <1>1, AccountInit, TypedInit, TypedNext, FreshNext, AccountNext, PTL DEF Spec

-----------------------------------------------------------------------------
(* A counter below zero needs a context that was cancelled twice.          *)

NegativeInv == crash = "negative counter" => wg < 0

LEMMA BelowZero == ASSUME NEW n \in Int, NEW m, n <= 0, m = n - 1 PROVE m < 0
OBVIOUS

LEMMA NegativeNext == Typed /\ NegativeInv /\ [Next]_vars => NegativeInv'
<1> SUFFICES ASSUME Typed, NegativeInv, [Next]_vars PROVE NegativeInv'
  OBVIOUS
<1> USE DEF NegativeInv
<1>0. wg \in Int
  BY DEF Typed, TypeOK
<1>1. ASSUME crash = "none", crash' = "negative counter", Next PROVE wg' < 0
  <2>1. ASSUME NEW c \in Cancellers, CommitCancel(c[1], c[2]) PROVE wg' < 0
    <3>1. wg <= 0
      BY <1>1, <2>1 DEF CommitCancel
    <3>2. wg' = wg - 1
      BY <2>1 DEF CommitCancel, WgDone, WgMove
    <3> QED BY <1>0, <3>1, <3>2, BelowZero
  <2>2. ASSUME NEW r \in Runners, Unregister(r) PROVE wg' < 0
    <3>1. wg <= 0
      BY <1>1, <2>2 DEF Unregister
    <3>2. wg' = wg - 1
      BY <2>2 DEF Unregister, WgDone, WgMove
    <3> QED BY <1>0, <3>1, <3>2, BelowZero
  <2>3. ASSUME NEW r \in Grpc, StopperDone(r) PROVE wg' < 0
    <3>1. wg <= 0
      BY <1>1, <2>3 DEF StopperDone
    <3>2. wg' = wg - 1
      BY <2>3 DEF StopperDone, WgDone, WgMove
    <3> QED BY <1>0, <3>1, <3>2, BelowZero
  <2>4. ~ \E t \in Tasks : Begin(t)
    BY <1>1 DEF Begin
  <2>5. ~ \E c \in Cancellers : CheckCanceled(c[1], c[2])
    BY <1>1 DEF CheckCanceled
  <2>6. ~ \E c \in Closers : CloserStep(c)
    BY <1>1 DEF CloserStep, LockMu, SelectDone, SelectTimeout, TimeoutClose, CloseDone
  <2>7. ~ WaiterStep
    BY <1>1 DEF WaiterStep, WaiterCancel, WaiterWait, WaiterWake, WaiterClose, CloseDone
  <2>8. ~ \E s \in {"INT", "TERM"} : OsSignal(s)
    BY <1>1 DEF OsSignal
  <2>9. ~ \E r \in Runners : ListenStep(r)
    BY <1>1 DEF ListenStep, ListenCheck, ListenArm, ListenWake
  <2>10. ASSUME NEW r \in Runners, RunnerStep(r) PROVE wg' < 0
    BY <1>1, <2>2, <2>10
       DEF RunnerStep, Enter, OpenFails, Open, ServeReturns, CallShutdowned, ShutdownedReturns
  <2>11. ASSUME NEW r \in Grpc, StopperStep(r) PROVE wg' < 0
    BY <1>1, <2>3, <2>11 DEF StopperStep, StopperAdd, GracefulStop
  <2> QED BY <1>1, <2>1, <2>4, <2>5, <2>6, <2>7, <2>8, <2>9, <2>10, <2>11 DEF Next, TaskStep
<1>2. CASE UNCHANGED vars
  BY <1>2 DEF vars, wgVars
<1> QED BY <1>1, <1>2 DEF Next

LEMMA NegativeAccount == Typed /\ AccountInv /\ NegativeInv => NegativeNeedsDoubleCancel
<1> SUFFICES ASSUME Typed, AccountInv, wg < 0, Overdone = {} PROVE FALSE
  BY DEF NegativeInv, NegativeNeedsDoubleCancel
<1>1. Cardinality(Overdone) = 0
  BY FS_EmptySet
<1>2. wg = Cardinality(Held) + Cardinality(registered) + Cardinality(StoppersIn) - Cardinality(Overdone)
  BY DEF AccountInv, WgAccount
<1> QED BY <1>1, <1>2, CardsTyped

\* The panic of WaitGroup.Done needs two goroutines past the check of one
\* context's isCanceled (context.go 154-163, router.go 38 and 106).
THEOREM NegativeCounter == Spec => []NegativeNeedsDoubleCancel
<1>1. Init => NegativeInv
  BY DEF Init, NegativeInv
<1> QED BY <1>1, NegativeNext, NegativeAccount, AccountInit, TypedInit, TypedNext, FreshNext,
           AccountNext, PTL DEF Spec

-----------------------------------------------------------------------------
(* What has ended when done closes.                                        *)

Units == Held \cup registered \cup StoppersIn

DrainInv ==
  /\ waiter \in {"wait", "blocked", "woken", "close", "finished"} => sigDone
  /\ Released /\ Overdone = {} => Units \subseteq late

LEMMA SumZero ==
  ASSUME NEW a \in Nat, NEW b \in Nat, NEW c \in Nat, a + b + c - 0 = 0
  PROVE  a = 0 /\ b = 0 /\ c = 0
OBVIOUS

LEMMA ZeroEmpty ==
  ASSUME Typed, AccountInv, Overdone = {}, wg = 0
  PROVE  Units = {}
<1>1. Cardinality(Overdone) = 0
  BY FS_EmptySet
<1>0. wg = Cardinality(Held) + Cardinality(registered) + Cardinality(StoppersIn) - Cardinality(Overdone)
  BY DEF AccountInv, WgAccount
<1>2. Cardinality(Held) + Cardinality(registered) + Cardinality(StoppersIn) - 0 = 0
  BY <1>0, <1>1
<1>3. Cardinality(Held) \in Nat /\ Cardinality(registered) \in Nat /\ Cardinality(StoppersIn) \in Nat
  BY CardsTyped
<1>4. Cardinality(Held) = 0 /\ Cardinality(registered) = 0 /\ Cardinality(StoppersIn) = 0
  BY <1>2, <1>3, SumZero
<1>5. Held = {} /\ registered = {} /\ StoppersIn = {}
  BY <1>4, SetsFinite, FS_EmptySet
<1> QED BY <1>5 DEF Units

LEMMA ZeroEmptyAfter ==
  (Typed /\ AccountInv /\ Overdone = {} /\ wg = 0)' => (Units = {})'
<1>1. Typed /\ AccountInv /\ Overdone = {} /\ wg = 0 => Units = {}
  BY ZeroEmpty
<1> QED BY <1>1, PTL

\* A step that releases the waiter only at zero, counts as late what registers
\* after that, and forgets no double cancel.
LEMMA DrainKept ==
  ASSUME DrainInv, Typed', AccountInv',
         Released' => Released \/ wg' = 0,
         Overdone \subseteq Overdone', late \subseteq late',
         Released => Units' \subseteq Units \cup late',
         waiter' \in {"wait", "blocked", "woken", "close", "finished"} => sigDone'
  PROVE  DrainInv'
<1>1. ASSUME Overdone' = {}, wg' = 0 PROVE Units' = {}
  BY <1>1, ZeroEmptyAfter
<1> QED BY <1>1 DEF DrainInv

LEMMA DrainNext ==
  ASSUME Typed, Fresh, AccountInv, DrainInv, [Next]_vars, Typed', AccountInv'
  PROVE  DrainInv'
<1>0. /\ cancel \in [Cancellers -> {"off", "run", "commit", "end"}] /\ dones \in [Tasks -> Nat]
      /\ stopper \in [Grpc -> {"off", "spawned", "armed", "stopping", "finished"}]
      /\ \A t \in Tasks : Handler(t) \in Cancellers
  BY CancellersTyped DEF Typed, TypeOK
<1>1. ASSUME UNCHANGED <<cancel, dones, registered, stopper>>
      PROVE  UNCHANGED <<Units, Overdone>>
  BY <1>1 DEF Units, Held, Overdone, StoppersIn
<1>2. ASSUME NEW d, WgMove(d)
      PROVE  /\ Released' => Released \/ wg' = 0
             /\ waiter' = waiter \/ (waiter = "blocked" /\ waiter' = "woken")
  BY <1>2 DEF WgMove, Released
<1>3. ASSUME NEW who, WgAdd(who)
      PROVE  late \subseteq late' /\ (Released => who \in late')
  BY <1>3 DEF WgAdd
<1>4. ASSUME NEW t \in Tasks, Begin(t) PROVE DrainInv'
  <2>1. WgAdd(t) /\ sigDone' = sigDone /\ UNCHANGED <<dones, registered, stopper>>
    BY <1>4 DEF Begin, signalVars, runnerVars
  <2>2. Units' \subseteq Units \cup {t} /\ Overdone' = Overdone
    BY <1>0, <1>4, <2>1 DEF Begin, Units, Held, Overdone, StoppersIn, Handler
  <2> QED BY <1>2, <1>3, <2>1, <2>2, DrainKept DEF WgAdd, DrainInv
<1>5. ASSUME NEW c \in Cancellers, CheckCanceled(c[1], c[2]) PROVE DrainInv'
  <2>1. UNCHANGED <<wg, waiter, late, sigDone, dones, registered, stopper>>
    BY <1>5 DEF CheckCanceled, signalVars, runnerVars, wgVars
  <2>2. \A t \in Tasks : cancel[Handler(t)] = "off" => cancel'[Handler(t)] = "off"
    BY <1>0, <1>5 DEF CheckCanceled
  <2>3. Units' \subseteq Units /\ Overdone' = Overdone
    BY <2>1, <2>2 DEF Units, Held, Overdone, StoppersIn
  <2> QED BY <2>1, <2>3, DrainKept DEF DrainInv, Released
<1>6. ASSUME NEW c \in Cancellers, CommitCancel(c[1], c[2]) PROVE DrainInv'
  <2>1. WgDone /\ UNCHANGED <<late, sigDone, registered, stopper>>
    BY <1>6 DEF CommitCancel, signalVars, runnerVars, WgDone
  <2>2. \A t \in Tasks : cancel[Handler(t)] = "off" => cancel'[Handler(t)] = "off"
    BY <1>0, <1>6 DEF CommitCancel
  <2>3. \A t \in Tasks : dones'[t] = dones[t] \/ dones'[t] = dones[t] + 1
    BY <1>0, <1>6 DEF CommitCancel
  <2>4. Overdone \subseteq Overdone' /\ \A t \in Tasks : dones'[t] = 0 => dones[t] = 0
    BY <1>0, <2>3 DEF Overdone
  <2>5. Units' \subseteq Units
    BY <2>1, <2>2, <2>4 DEF Units, Held, StoppersIn
  <2> QED BY <1>2, <2>1, <2>4, <2>5, DrainKept DEF WgDone, DrainInv
<1>7. ASSUME NEW c \in Closers, CloserStep(c) PROVE DrainInv'
  <2>1. UNCHANGED <<cancel, dones, registered, stopper, late, wg, sigDone>>
    BY <1>7 DEF CloserStep, LockMu, SelectDone, SelectTimeout, TimeoutClose, runnerVars, taskVars, wgVars
  <2>2. waiter' = waiter \/ waiter' = "cancel"
    BY <1>7 DEF CloserStep, LockMu, SelectDone, SelectTimeout, TimeoutClose, wgVars
  <2> QED BY <1>1, <2>1, <2>2, DrainKept DEF DrainInv, Released
<1>8. CASE WaiterStep
  <2>1. UNCHANGED <<cancel, dones, registered, stopper, late, wg>>
    BY <1>8 DEF WaiterStep, WaiterCancel, WaiterWait, WaiterWake, WaiterClose, runnerVars, taskVars
  <2>2. /\ Released' => Released \/ wg' = 0
        /\ sigDone' = TRUE \/ (sigDone' = sigDone /\ waiter \in {"wait", "woken", "close"})
    BY <1>8 DEF WaiterStep, WaiterCancel, WaiterWait, WaiterWake, WaiterClose, Released, signalVars
  <2> QED BY <1>1, <2>1, <2>2, DrainKept DEF DrainInv
<1>9. ASSUME NEW s \in {"INT", "TERM"}, OsSignal(s) PROVE DrainInv'
  BY <1>1, <1>9, DrainKept DEF OsSignal, DrainInv, Released, signalVars, runnerVars, taskVars, wgVars
<1>10. ASSUME NEW r \in Runners, ListenStep(r) PROVE DrainInv'
  <2>1. UNCHANGED <<cancel, dones, registered, stopper, late, wg, waiter, sigDone>>
    BY <1>10 DEF ListenStep, ListenCheck, ListenArm, ListenWake, signalVars, runnerVars, taskVars, wgVars
  <2> QED BY <1>1, <2>1, DrainKept DEF DrainInv, Released
<1>11. ASSUME NEW r \in Runners, RunnerStep(r) PROVE DrainInv'
  <2>1. CASE UNCHANGED <<cancel, dones, registered, stopper, late, wg, waiter, sigDone>>
    BY <1>1, <2>1, DrainKept DEF DrainInv, Released
  <2>2. ASSUME NEW b \in BOOLEAN, Open(r, b) PROVE DrainInv'
    <3>1. UNCHANGED <<cancel, dones, sigDone>> /\ registered' \subseteq registered \cup {r}
          /\ \A g \in Grpc : stopper'[g] \in {"armed", "stopping"} => stopper'[g] = stopper[g]
      BY <2>2 DEF Open, signalVars, taskVars, wgVars
    <3>2. Units' \subseteq Units \cup (registered' \ registered) /\ Overdone' = Overdone
      BY <3>1 DEF Units, Held, Overdone, StoppersIn
    <3>3. CASE b
      <4>1. WgAdd(r) BY <2>2, <3>3 DEF Open
      <4> QED BY <1>2, <1>3, <3>1, <3>2, <4>1, DrainKept DEF WgAdd, DrainInv
    <3>4. CASE ~b
      BY <2>2, <3>1, <3>2, <3>4, DrainKept DEF Open, wgVars, DrainInv, Released
    <3> QED BY <3>3, <3>4
  <2>3. CASE Unregister(r)
    <3>1. WgDone /\ UNCHANGED <<cancel, dones, stopper, late, sigDone>> /\ registered' \subseteq registered
      BY <2>3 DEF Unregister, WgDone, signalVars, taskVars
    <3>2. Units' \subseteq Units /\ Overdone' = Overdone
      BY <3>1 DEF Units, Held, Overdone, StoppersIn
    <3> QED BY <1>2, <3>1, <3>2, DrainKept DEF WgDone, DrainInv
  <2> QED BY <1>11, <2>1, <2>2, <2>3
          DEF RunnerStep, Enter, OpenFails, ServeReturns, CallShutdowned, ShutdownedReturns,
              signalVars, taskVars, wgVars
<1>12. ASSUME NEW r \in Grpc, StopperStep(r) PROVE DrainInv'
  <2>1. UNCHANGED <<cancel, dones, registered, sigDone>>
    BY <1>12 DEF StopperStep, StopperAdd, GracefulStop, StopperDone, signalVars, taskVars
  <2>2. Overdone' = Overdone /\ Held' = Held
    BY <2>1 DEF Overdone, Held
  <2>3. CASE StopperAdd(r)
    <3>1. WgAdd(r) /\ Units' \subseteq Units \cup {r}
      BY <1>0, <2>1, <2>2, <2>3 DEF StopperAdd, Units, StoppersIn
    <3> QED BY <1>2, <1>3, <2>1, <2>2, <3>1, DrainKept DEF WgAdd, DrainInv
  <2>4. CASE GracefulStop(r)
    <3>1. UNCHANGED <<late, wg, waiter>> /\ Units' \subseteq Units
      BY <1>0, <2>1, <2>2, <2>4 DEF GracefulStop, Units, StoppersIn, wgVars
    <3> QED BY <2>1, <2>2, <3>1, DrainKept DEF DrainInv, Released
  <2>5. CASE StopperDone(r)
    <3>1. WgDone /\ Units' \subseteq Units
      BY <1>0, <2>1, <2>2, <2>5 DEF StopperDone, Units, StoppersIn
    <3> QED BY <1>2, <2>1, <2>2, <3>1, DrainKept DEF WgDone, DrainInv
  <2> QED BY <1>12, <2>3, <2>4, <2>5 DEF StopperStep
<1>13. CASE UNCHANGED vars
  BY <1>1, <1>13, DrainKept DEF vars, DrainInv, Released, signalVars, runnerVars, taskVars, wgVars
<1>14. ASSUME TaskStep PROVE DrainInv'
  BY <1>4, <1>5, <1>6, <1>14 DEF TaskStep
<1> QED BY <1>7, <1>8, <1>9, <1>10, <1>11, <1>12, <1>13, <1>14 DEF Next

LEMMA DrainedFromInv ==
  Typed /\ AccountInv /\ CloseInv /\ DrainInv => DrainedAtDone
<1> SUFFICES ASSUME Typed, AccountInv, CloseInv, DrainInv, doneClosed, ~timedOut
             PROVE  /\ sigDone
                    /\ Overdone = {} =>
                         /\ \A t \in Tasks : Running(t) => t \in late \/ dones[t] = 1
                         /\ registered \cup StoppersIn \subseteq late
  BY DEF DrainedAtDone
<1>1. waiter = "finished"
  BY DEF CloseInv
<1>2. sigDone
  BY <1>1 DEF DrainInv
<1>3. ASSUME Overdone = {} PROVE Units \subseteq late
  BY <1>1, <1>3 DEF DrainInv, Released
<1>4. ASSUME Overdone = {}, NEW t \in Tasks, Running(t) PROVE t \in late \/ dones[t] = 1
  <2>1. dones[t] = 0 \/ dones[t] = 1
    BY <1>4 DEF AccountInv, DonesBound, Overdone
  <2>2. dones[t] = 0 => t \in Held
    BY <1>4 DEF Running, Held
  <2> QED BY <1>3, <1>4, <2>1, <2>2 DEF Units
<1> QED BY <1>2, <1>3, <1>4 DEF Units

\* When done closes without a timeout the business was told first, and, unless a
\* context was cancelled twice, every handler still running began after the
\* drain was decided or was taken out of the count by its closeNotify.
THEOREM Drained == Spec => []DrainedAtDone
<1>1. Init => DrainInv
  BY DEF Init, DrainInv, Released
<1>2. Init => CloseInv
  BY DEF Init, CloseInv, DoubleCloseNeedsTimeout
<1>3. Typed /\ Fresh /\ AccountInv /\ DrainInv /\ [Next]_vars => DrainInv'
  BY DrainNext, TypedNext, AccountNext
<1> QED BY <1>1, <1>2, <1>3, AccountInit, TypedInit, TypedNext, FreshNext, AccountNext, CloseNext,
           DrainedFromInv, PTL DEF Spec

-----------------------------------------------------------------------------
(* A WaitGroup that is reused while its waiter wakes.                      *)

ReuseInv == crash = "reused WaitGroup" => waiter = "close" /\ wg # 0

LEMMA ReuseNext == ReuseInv /\ [Next]_vars => ReuseInv'
<1> SUFFICES ASSUME ReuseInv, [Next]_vars PROVE ReuseInv'
  OBVIOUS
<1> USE DEF ReuseInv
<1>1. ASSUME crash = "none", crash' = "reused WaitGroup", Next PROVE waiter' = "close" /\ wg' # 0
  <2>1. CASE WaiterStep
    BY <1>1, <2>1 DEF WaiterStep, WaiterCancel, WaiterWait, WaiterWake, WaiterClose, CloseDone
  <2>2. ~ TaskStep
    BY <1>1 DEF TaskStep, Begin, CheckCanceled, CommitCancel
  <2>3. ~ \E c \in Closers : CloserStep(c)
    BY <1>1 DEF CloserStep, LockMu, SelectDone, SelectTimeout, TimeoutClose, CloseDone
  <2>4. ~ \E s \in {"INT", "TERM"} : OsSignal(s)
    BY <1>1 DEF OsSignal
  <2>5. ~ \E r \in Runners : ListenStep(r)
    BY <1>1 DEF ListenStep, ListenCheck, ListenArm, ListenWake
  <2>6. ~ \E r \in Runners : RunnerStep(r)
    BY <1>1 DEF RunnerStep, Enter, OpenFails, Open, ServeReturns, Unregister, CallShutdowned,
                ShutdownedReturns
  <2>7. ~ \E r \in Grpc : StopperStep(r)
    BY <1>1 DEF StopperStep, StopperAdd, GracefulStop, StopperDone
  <2> QED BY <1>1, <2>1, <2>2, <2>3, <2>4, <2>5, <2>6, <2>7 DEF Next
<1>2. CASE UNCHANGED vars
  BY <1>2 DEF vars, wgVars
<1> QED BY <1>1, <1>2 DEF Next

LEMMA ReuseFromInv == Typed /\ AccountInv /\ DrainInv /\ ReuseInv => ReuseNeedsLateWork
<1> SUFFICES ASSUME Typed, AccountInv, DrainInv, waiter = "close", wg # 0, late = {}, Overdone = {}
             PROVE  FALSE
  BY DEF ReuseInv, ReuseNeedsLateWork
<1>1. Held = {} /\ registered = {} /\ StoppersIn = {}
  BY DEF DrainInv, Released, Units
<1>2. wg = 0 + 0 + 0 - 0
  BY <1>1, FS_EmptySet DEF AccountInv, WgAccount
<1> QED BY <1>2

\* waitDone's Wait panics only if something registered itself after the last unit
\* had left, or a context was cancelled twice (WgAdd, waitDone).
THEOREM WaitPanics == Spec => []ReuseNeedsLateWork
<1>1. Init => DrainInv /\ ReuseInv
  BY DEF Init, DrainInv, Released, ReuseInv
<1>2. Typed /\ Fresh /\ AccountInv /\ DrainInv /\ [Next]_vars => DrainInv'
  BY DrainNext, TypedNext, AccountNext
<1> QED BY <1>1, <1>2, AccountInit, TypedInit, TypedNext, FreshNext, AccountNext, ReuseNext,
           ReuseFromInv, PTL DEF Spec

\* None of the panics of the shutdown comes of its own: each needs a timeout, a
\* double Cancel or late work (doShutdownDone, waitDone, Cancel).
THEOREM PanicsNeedCause == Spec => []PanicNeedsCause
BY CloseOnce, NegativeCounter, WaitPanics, PTL DEF PanicNeedsCause

-----------------------------------------------------------------------------
(* The refinement of Drain.                                                *)

\* Nothing but handlers cancel contexts, and nothing but WaitGroup ends the wait.
Orderly == ~Disconnects /\ ~Timers /\ ~LateWork

\* No closer's timer runs out, a context is cancelled when its handler ends and not
\* before, and no task begins once the waiter is released.
OrderlyInv ==
  /\ ~timedOut /\ \A c \in Closers : closer[c] # "expired"
  /\ \A t \in Tasks : dones[t] = IF cancel[Handler(t)] = "end" THEN 1 ELSE 0
  /\ \A t \in Requests : cancel[Watcher(t)] # "commit"
  /\ late \cap Tasks = {}

\* The steps that move no task and no closer.
LEMMA OrderlyKept ==
  ASSUME OrderlyInv, UNCHANGED <<timedOut, closer, cancel, dones>>, late' \cap Tasks \subseteq late
  PROVE  OrderlyInv'
BY DEF OrderlyInv

LEMMA OrderlyTask == Orderly /\ Typed /\ DrainInv /\ OrderlyInv /\ TaskStep => OrderlyInv'
<1> SUFFICES ASSUME Orderly, Typed, DrainInv, OrderlyInv, TaskStep PROVE OrderlyInv'
  OBVIOUS
<1>0. /\ cancel \in [Cancellers -> {"off", "run", "commit", "end"}] /\ dones \in [Tasks -> Nat]
      /\ \A t \in Tasks : Handler(t) \in Cancellers
      /\ \A t \in Requests : Watcher(t) \in Cancellers /\ t \in Tasks
      /\ \A s, t : Handler(s) # Watcher(t) /\ Handler(t)[1] = t /\ Watcher(t)[1] = t
  BY DEF Typed, TypeOK, Cancellers, Tasks, Handler, Watcher
<1>1. ASSUME NEW t \in Tasks, Begin(t) PROVE OrderlyInv'
  <2>1. UNCHANGED <<timedOut, closer, dones>> /\ cancel[Handler(t)] = "off"
        /\ cancel' = [c \in Cancellers |-> IF c[1] = t THEN "run" ELSE cancel[c]]
    BY <1>1 DEF Begin, signalVars
  <2>2. late' = late
    BY <1>1 DEF Begin, WgAdd, Orderly, DrainInv, Released
  <2>3. \A s \in Tasks : cancel'[Handler(s)] = IF s = t THEN "run" ELSE cancel[Handler(s)]
    BY <1>0, <2>1
  <2>4. \A s \in Requests : cancel'[Watcher(s)] # "commit"
    BY <1>0, <2>1 DEF OrderlyInv
  <2> QED BY <2>1, <2>2, <2>3, <2>4 DEF OrderlyInv
<1>2. ASSUME NEW c \in Cancellers, CheckCanceled(c[1], c[2]) PROVE OrderlyInv'
  <2>1. UNCHANGED <<timedOut, closer, dones, late>>
        /\ c[1] \in Tasks /\ c = <<c[1], c[2]>> /\ cancel[c] = "run"
        /\ cancel' = [cancel EXCEPT ![c] = IF dones[c[1]] > 0 THEN "end" ELSE "commit"]
    BY <1>2, CancellersTyped DEF CheckCanceled, signalVars, wgVars
  <2>2. CASE c = Handler(c[1])
    <3>0. dones[c[1]] = 0
      BY <2>1, <2>2 DEF OrderlyInv
    <3>1. cancel' = [cancel EXCEPT ![c] = "commit"]
      BY <2>1, <3>0
    <3>2. \A t \in Tasks : cancel'[Handler(t)] = "end" <=> cancel[Handler(t)] = "end"
      BY <1>0, <2>1, <3>1
    <3>3. \A t \in Requests : cancel'[Watcher(t)] = cancel[Watcher(t)]
      BY <1>0, <2>2, <3>1
    <3> QED BY <2>1, <3>2, <3>3 DEF OrderlyInv
  <2>3. CASE c # Handler(c[1])
    <3>1. c[2] = "watcher" /\ c = Watcher(c[1])
      BY <2>1, <2>3, CancellersTyped DEF Handler, Watcher
    <3>2. dones[c[1]] > 0
      BY <1>2, <2>1, <3>1 DEF CheckCanceled, Orderly, OrderlyInv
    <3>3. \A t \in Tasks : cancel'[Handler(t)] = cancel[Handler(t)]
      BY <1>0, <2>1, <3>1
    <3>4. \A t \in Requests : cancel'[Watcher(t)] # "commit"
      BY <1>0, <2>1, <3>2 DEF OrderlyInv
    <3> QED BY <2>1, <3>3, <3>4 DEF OrderlyInv
  <2> QED BY <2>2, <2>3
<1>3. ASSUME NEW c \in Cancellers, CommitCancel(c[1], c[2]) PROVE OrderlyInv'
  <2>1. UNCHANGED <<timedOut, closer, late>>
        /\ c[1] \in Tasks /\ c = <<c[1], c[2]>> /\ cancel[c] = "commit"
        /\ cancel' = [cancel EXCEPT ![c] = "end"]
        /\ dones' = [dones EXCEPT ![c[1]] = dones[c[1]] + 1]
    BY <1>3, CancellersTyped DEF CommitCancel, WgDone, signalVars
  <2>2. c = Handler(c[1])
    BY <1>0, <2>1, CancellersTyped DEF OrderlyInv, Handler, Watcher, Cancellers
  <2>3. dones[c[1]] = 0
    BY <2>1, <2>2 DEF OrderlyInv
  <2>4. \A t \in Tasks : /\ cancel'[Handler(t)] = IF t = c[1] THEN "end" ELSE cancel[Handler(t)]
                         /\ dones'[t] = IF t = c[1] THEN 1 ELSE dones[t]
    <3> TAKE t \in Tasks
    <3>1. t # c[1] => Handler(t) # c
      BY <1>0
    <3> QED BY <1>0, <2>1, <2>2, <2>3, <3>1
  <2>5. \A t \in Requests : cancel'[Watcher(t)] = cancel[Watcher(t)]
    BY <1>0, <2>1, <2>2
  <2> QED BY <2>1, <2>4, <2>5 DEF OrderlyInv
<1> QED BY <1>1, <1>2, <1>3 DEF TaskStep

LEMMA OrderlyNext ==
  Orderly /\ Typed /\ DrainInv /\ OrderlyInv /\ [Next]_vars => OrderlyInv'
<1> SUFFICES ASSUME Orderly, Typed, DrainInv, OrderlyInv, [Next]_vars PROVE OrderlyInv'
  OBVIOUS
<1>1. CASE TaskStep
  BY <1>1, OrderlyTask
<1>2. ASSUME NEW c \in Closers, CloserStep(c) PROVE OrderlyInv'
  <2>1. UNCHANGED <<timedOut, cancel, dones, late>>
    BY <1>2 DEF CloserStep, LockMu, SelectDone, SelectTimeout, TimeoutClose, Orderly, taskVars, wgVars
  <2>2. \E s \in {"finished", "select"} : closer' = [closer EXCEPT ![c] = s]
    BY <1>2 DEF CloserStep, LockMu, SelectDone, SelectTimeout, TimeoutClose, Orderly
  <2>3. closer \in [Closers -> {"off", "lock", "select", "expired", "finished"}]
    BY DEF Typed, TypeOK
  <2> QED BY <2>1, <2>2, <2>3 DEF OrderlyInv
<1>3. CASE WaiterStep
  BY <1>3, OrderlyKept
     DEF WaiterStep, WaiterCancel, WaiterWait, WaiterWake, WaiterClose, signalVars, taskVars
<1>4. ASSUME NEW s \in {"INT", "TERM"}, OsSignal(s) PROVE OrderlyInv'
  BY <1>4, OrderlyKept DEF OsSignal, signalVars, taskVars, wgVars
<1>5. ASSUME NEW r \in Runners, ListenStep(r) PROVE OrderlyInv'
  <2>1. CASE ListenCheck(r) \/ ListenArm(r)
    BY <2>1, OrderlyKept DEF ListenCheck, ListenArm, signalVars, taskVars, wgVars
  <2>2. CASE ListenWake(r)
    BY <2>2, ClosersTyped DEF ListenWake, taskVars, wgVars, OrderlyInv, Typed, TypeOK
  <2> QED BY <1>5, <2>1, <2>2 DEF ListenStep
<1>6. ASSUME NEW r \in Runners, RunnerStep(r) PROVE OrderlyInv'
  <2>0. r \notin Tasks
    BY ConstantsAssumption
  <2>1. CASE Enter(r) \/ OpenFails(r) \/ ServeReturns(r) \/ ShutdownedReturns(r)
    BY <2>1, OrderlyKept
       DEF Enter, OpenFails, ServeReturns, ShutdownedReturns, signalVars, taskVars, wgVars
  <2>2. ASSUME NEW b \in BOOLEAN, Open(r, b) PROVE OrderlyInv'
    BY <2>0, <2>2, OrderlyKept DEF Open, WgAdd, signalVars, taskVars, wgVars
  <2>3. CASE Unregister(r)
    BY <2>3, OrderlyKept DEF Unregister, WgDone, signalVars, taskVars
  <2>4. CASE CallShutdowned(r)
    BY <2>4, ClosersTyped DEF CallShutdowned, taskVars, wgVars, OrderlyInv, Typed, TypeOK
  <2> QED BY <1>6, <2>1, <2>2, <2>3, <2>4 DEF RunnerStep
<1>7. ASSUME NEW r \in Grpc, StopperStep(r) PROVE OrderlyInv'
  <2>0. r \notin Tasks
    BY ConstantsAssumption DEF Runners
  <2> QED BY <1>7, <2>0, OrderlyKept
          DEF StopperStep, StopperAdd, GracefulStop, StopperDone, WgAdd, WgDone, signalVars, taskVars, wgVars
<1>8. CASE UNCHANGED vars
  BY <1>8, OrderlyKept DEF vars, signalVars, taskVars, wgVars
<1> QED BY <1>1, <1>2, <1>3, <1>4, <1>5, <1>6, <1>7, <1>8 DEF Next

-----------------------------------------------------------------------------
\* What the mapping of a state to Drain looks at.
Phase == IF doneClosed THEN "down" ELSE IF sigDone THEN "draining" ELSE "up"
Work == {t \in Tasks : Running(t)}
Answered == {r \in Runners : runner[r] = "returned"}

LEMMA DrainStep ==
  ASSUME Orderly, Typed, AccountInv, CloseInv, DrainInv, OrderlyInv, [Next]_vars
  PROVE  [Abstract!Next]_(Abstract!vars)
<1> USE DEF Phase, Work, Answered
<1>0. /\ cancel \in [Cancellers -> {"off", "run", "commit", "end"}]
      /\ \A t \in Tasks : Handler(t) \in Cancellers
      /\ runner \in [Runners -> {"called", "opening", "serving", "leaving", "waiting", "returned"}]
      /\ sigDone \in BOOLEAN /\ doneClosed \in BOOLEAN
  BY CancellersTyped DEF Typed, TypeOK
<1>1. doneClosed => sigDone /\ waiter = "finished"
  BY DEF CloseInv, DrainInv, OrderlyInv
<1>2. waiter = "close" => sigDone /\ Work = {}
  <2>1. Overdone = {}
    BY DEF Overdone, OrderlyInv
  <2>2. waiter = "close" => Held \cap Tasks = {}
    BY <2>1 DEF DrainInv, Released, Units, OrderlyInv
  <2>3. Work \subseteq Held \cap Tasks
    BY DEF Running, Held, OrderlyInv
  <2> QED BY <2>2, <2>3 DEF DrainInv
<1>3. ASSUME UNCHANGED <<Phase, Work, Answered>>
      PROVE  [Abstract!Next]_(Abstract!vars)
  BY <1>3 DEF Abstract!vars
<1>4. ASSUME UNCHANGED <<doneClosed, sigDone, cancel, runner>>
      PROVE  [Abstract!Next]_(Abstract!vars)
  BY <1>3, <1>4 DEF Running
<1>5. ASSUME NEW t \in Tasks, Begin(t) PROVE [Abstract!Next]_(Abstract!vars)
  <2>1. Phase = "up" /\ t \notin Work /\ UNCHANGED <<Phase, Answered>>
    BY <1>1, <1>5 DEF Begin, Orderly, Running, signalVars, runnerVars
  <2>2. Work' = Work \cup {t}
    BY <1>0, <1>5 DEF Begin, Running, Handler
  <2>3. Abstract!Begin(t)
    BY <2>1, <2>2 DEF Abstract!Begin
  <2> QED BY <2>3 DEF Abstract!Next
<1>6. ASSUME NEW c \in Cancellers, CheckCanceled(c[1], c[2]) PROVE [Abstract!Next]_(Abstract!vars)
  <2>1. UNCHANGED <<Phase, Answered>> /\ c[1] \in Tasks /\ cancel[c] = "run"
        /\ \E x \in {"end", "commit"} : cancel' = [cancel EXCEPT ![c] = x]
    BY <1>6, CancellersTyped DEF CheckCanceled, signalVars, runnerVars
  <2>2. CASE c = Handler(c[1])
    <3>1. c[1] \in Work /\ Work' = Work \ {c[1]}
      BY <1>0, <2>1, <2>2 DEF Running, Handler
    <3>2. Abstract!End(c[1])
      BY <2>1, <3>1 DEF Abstract!End
    <3> QED BY <2>1, <3>2 DEF Abstract!Next
  <2>3. CASE c # Handler(c[1])
    <3>1. \A t \in Tasks : Handler(t) # c
      <4>1. \A t \in Tasks : Handler(t)[1] = t
        BY DEF Handler
      <4> QED BY <2>3, <4>1
    <3>2. \A t \in Tasks : cancel'[Handler(t)] = cancel[Handler(t)]
      BY <1>0, <2>1, <3>1
    <3> QED BY <1>3, <2>1, <3>2 DEF Running
  <2> QED BY <2>2, <2>3
<1>7. ASSUME NEW c \in Cancellers, CommitCancel(c[1], c[2]) PROVE [Abstract!Next]_(Abstract!vars)
  <2>1. UNCHANGED <<Phase, Answered>> /\ cancel[c] = "commit" /\ cancel' = [cancel EXCEPT ![c] = "end"]
    BY <1>7, CancellersTyped DEF CommitCancel, signalVars, runnerVars
  <2>2. \A t \in Tasks : cancel'[Handler(t)] = "run" <=> cancel[Handler(t)] = "run"
    BY <1>0, <2>1
  <2> QED BY <1>3, <2>1, <2>2 DEF Running
<1>8. ASSUME NEW c \in Closers, CloserStep(c) PROVE [Abstract!Next]_(Abstract!vars)
  BY <1>4, <1>8
     DEF CloserStep, LockMu, SelectDone, SelectTimeout, TimeoutClose, OrderlyInv, runnerVars, taskVars
<1>9. CASE WaiterStep
  <2>1. UNCHANGED <<Work, Answered>>
    BY <1>9 DEF WaiterStep, WaiterCancel, WaiterWait, WaiterWake, WaiterClose, Running, runnerVars, taskVars
  <2>2. CASE WaiterCancel
    <3>1. Phase \in {"up", "draining"} /\ Phase' = "draining"
      BY <1>1, <2>2 DEF WaiterCancel
    <3>2. Phase = "up" => Abstract!Stop
      BY <2>1, <3>1 DEF Abstract!Stop
    <3> QED BY <1>3, <2>1, <3>1, <3>2 DEF Abstract!Next
  <2>3. CASE WaiterClose
    <3>1. Phase = "draining" /\ Phase' = "down" /\ Work = {}
      BY <1>1, <1>2, <2>3 DEF WaiterClose, CloseDone
    <3>2. Abstract!Down
      BY <2>1, <3>1 DEF Abstract!Down
    <3> QED BY <3>2 DEF Abstract!Next
  <2>4. CASE WaiterWait \/ WaiterWake
    BY <1>4, <2>4 DEF WaiterWait, WaiterWake, signalVars, runnerVars, taskVars
  <2> QED BY <1>9, <2>2, <2>3, <2>4 DEF WaiterStep
<1>10. ASSUME NEW s \in {"INT", "TERM"}, OsSignal(s) PROVE [Abstract!Next]_(Abstract!vars)
  BY <1>4, <1>10 DEF OsSignal, signalVars, runnerVars, taskVars
<1>11. ASSUME NEW r \in Runners, ListenStep(r) PROVE [Abstract!Next]_(Abstract!vars)
  BY <1>4, <1>11 DEF ListenStep, ListenCheck, ListenArm, ListenWake, signalVars, runnerVars, taskVars
<1>12. ASSUME NEW r \in Runners, RunnerStep(r) PROVE [Abstract!Next]_(Abstract!vars)
  <2>1. UNCHANGED <<doneClosed, sigDone, cancel>>
    BY <1>12 DEF RunnerStep, Enter, OpenFails, Open, ServeReturns, Unregister, CallShutdowned,
                 ShutdownedReturns, signalVars, taskVars
  <2>2. UNCHANGED <<Phase, Work>>
    BY <2>1 DEF Running
  <2>3. CASE ShutdownedReturns(r)
    <3>1. Phase = "down" /\ Answered' = Answered \cup {r}
      BY <1>0, <2>3 DEF ShutdownedReturns
    <3>2. Abstract!Answer(r)
      BY <2>2, <3>1 DEF Abstract!Answer
    <3> QED BY <3>2 DEF Abstract!Next
  <2>4. CASE ~ShutdownedReturns(r)
    <3>1. \A q \in Runners : runner'[q] = "returned" <=> runner[q] = "returned"
      BY <1>0, <1>12, <2>4 DEF RunnerStep, Enter, OpenFails, Open, ServeReturns, Unregister, CallShutdowned
    <3> QED BY <1>3, <2>2, <3>1
  <2> QED BY <2>3, <2>4
<1>13. ASSUME NEW r \in Grpc, StopperStep(r) PROVE [Abstract!Next]_(Abstract!vars)
  BY <1>4, <1>13 DEF StopperStep, StopperAdd, GracefulStop, StopperDone, signalVars, taskVars
<1>14. CASE UNCHANGED vars
  BY <1>4, <1>14 DEF vars, signalVars, runnerVars, taskVars
<1>15. CASE TaskStep
  BY <1>5, <1>6, <1>7, <1>15 DEF TaskStep
<1> QED BY <1>8, <1>9, <1>10, <1>11, <1>12, <1>13, <1>14, <1>15 DEF Next

\* Without timeouts, disconnects and late work the steps of all goroutines together
\* do what Drain promises: done closes, and Shutdowned returns, when no handler is
\* left (waitDone, doShutdownDone, Cancel).
THEOREM IsADrainWhenOrderly ==
  ASSUME ~Disconnects, ~Timers, ~LateWork
  PROVE  Spec => IsADrain
<1>1. Orderly
  BY DEF Orderly
<1>2. Init => CloseInv /\ DrainInv /\ OrderlyInv /\ Abstract!Init
  <2>1. Init => CloseInv /\ DrainInv
    BY DEF Init, CloseInv, DrainInv, Released, DoubleCloseNeedsTimeout
  <2>2. Init => OrderlyInv
    BY CancellersTyped DEF Init, OrderlyInv, Cancellers, Watcher
  <2>3. Init => Abstract!Init
    BY CancellersTyped DEF Init, Abstract!Init, Running
  <2> QED BY <2>1, <2>2, <2>3
<1>3. Typed /\ Fresh /\ AccountInv /\ DrainInv /\ [Next]_vars => DrainInv'
  BY DrainNext, TypedNext, AccountNext
<1>4. Typed /\ DrainInv /\ OrderlyInv /\ [Next]_vars => OrderlyInv'
  BY <1>1, OrderlyNext
<1>5. Typed /\ AccountInv /\ CloseInv /\ DrainInv /\ OrderlyInv /\ [Next]_vars
        => [Abstract!Next]_(Abstract!vars)
  BY <1>1, DrainStep
<1> QED BY <1>2, <1>3, <1>4, <1>5, AccountInit, TypedInit, TypedNext, FreshNext, AccountNext, CloseNext,
           PTL DEF Spec, IsADrain, Abstract!Spec

-----------------------------------------------------------------------------
(* The waits that must not be in vain.                                     *)

\* A doShutdownDone goroutine does not run before its Listen woke or its runner
\* called Shutdowned.
NotBefore ==
  \A r \in Runners :
    /\ runner[r] = "called" => listener[r] = "off"
    /\ listener[r] # "finished" => closer[<<r, "Listen">>] = "off"
    /\ runner[r] \notin {"waiting", "returned"} => closer[<<r, "Shutdowned">>] = "off"

\* Whoever started the shutdown closed done or still holds mu; waitDone cancels
\* the context first; and its Wait is blocked on a counter that is not zero.
WaitInv ==
  /\ NotBefore
  /\ doing => doneClosed \/ MuHeld
  /\ doing => sigDone \/ waiter = "cancel"
  /\ sigDone \/ waiter # "off" => doing
  /\ waiter = "blocked" => wg # 0
  /\ SignalOnItsWay
  /\ \A r \in Runners :
       runner[r] = "waiting" => doneClosed \/ MuHeld \/ closer[<<r, "Shutdowned">>] = "lock"

\* The steps of tasks, stoppers and registrations move nothing but the counter.
LEMMA WaitMove ==
  ASSUME Typed, WaitInv, NEW d, WgMove(d), UNCHANGED <<signalVars, listenVars, runner>>
  PROVE  WaitInv'
<1>1. /\ wg' = wg + d
      /\ waiter' = IF waiter = "blocked" /\ wg + d = 0 THEN "woken" ELSE waiter
  BY DEF WgMove
<1>2. waiter' = "blocked" => wg' # 0
  BY <1>1
<1>3. (waiter' = "cancel" <=> waiter = "cancel") /\ (waiter' # "off" <=> waiter # "off")
  BY <1>1
<1> QED BY <1>2, <1>3 DEF WaitInv, NotBefore, SignalOnItsWay, MuHeld, signalVars, listenVars

LEMMA WaitKept ==
  ASSUME WaitInv, UNCHANGED <<signalVars, listenVars, runner, wg, waiter>>
  PROVE  WaitInv'
BY DEF WaitInv, NotBefore, SignalOnItsWay, MuHeld, signalVars, listenVars

LEMMA WaitTask == Typed /\ WaitInv /\ TaskStep => WaitInv'
<1> SUFFICES ASSUME Typed, WaitInv, TaskStep PROVE WaitInv'
  OBVIOUS
<1>1. ASSUME NEW t \in Tasks, Begin(t) PROVE WaitInv'
  BY <1>1, WaitMove DEF Begin, WgAdd, runnerVars
<1>2. ASSUME NEW t, NEW who, CheckCanceled(t, who) PROVE WaitInv'
  BY <1>2, WaitKept DEF CheckCanceled, runnerVars, wgVars
<1>3. ASSUME NEW t, NEW who, CommitCancel(t, who) PROVE WaitInv'
  BY <1>3, WaitMove DEF CommitCancel, WgDone, runnerVars
<1> QED BY <1>1, <1>2, <1>3 DEF TaskStep

LEMMA WaitStopper == ASSUME NEW r \in Grpc PROVE Typed /\ WaitInv /\ StopperStep(r) => WaitInv'
<1> SUFFICES ASSUME Typed, WaitInv, StopperStep(r) PROVE WaitInv'
  OBVIOUS
<1>1. CASE StopperAdd(r)
  BY <1>1, WaitMove DEF StopperAdd, WgAdd
<1>2. CASE GracefulStop(r)
  BY <1>2, WaitKept DEF GracefulStop, wgVars
<1>3. CASE StopperDone(r)
  BY <1>3, WaitMove DEF StopperDone, WgDone
<1> QED BY <1>1, <1>2, <1>3 DEF StopperStep

LEMMA WaitCloser == ASSUME NEW c \in Closers PROVE Typed /\ WaitInv /\ CloserStep(c) => WaitInv'
<1> SUFFICES ASSUME Typed, WaitInv, CloserStep(c) PROVE WaitInv'
  OBVIOUS
<1>0. /\ closer \in [Closers -> {"off", "lock", "select", "expired", "finished"}]
      /\ \A r \in Runners : <<r, "Shutdowned">> \in Closers /\ <<r, "Listen">> \in Closers
      /\ UNCHANGED <<listener, inbox, signalled, runner, wg>>
  BY ClosersTyped DEF Typed, TypeOK, CloserStep, LockMu, SelectDone, SelectTimeout, TimeoutClose,
     listenVars, runnerVars, wgVars
<1>1. CASE LockMu(c) /\ doing
  <2>1. /\ doneClosed /\ UNCHANGED <<sigDone, doneClosed, doing, waiter>>
    BY <1>1 DEF LockMu, WaitInv
  <2>2. closer[c] = "lock" /\ closer' = [closer EXCEPT ![c] = "finished"] /\ (sigDone \/ waiter = "cancel")
    BY <1>1 DEF LockMu, WaitInv
  <2>3. NotBefore'
    BY <1>0, <2>2 DEF WaitInv, NotBefore
  <2>4. SignalOnItsWay'
    BY <2>1, <2>2 DEF SignalOnItsWay
  <2> QED BY <1>0, <2>1, <2>2, <2>3, <2>4 DEF WaitInv
<1>2. CASE LockMu(c) /\ ~doing
  <2>1. /\ closer' = [closer EXCEPT ![c] = "select"] /\ doing' /\ waiter' = "cancel"
    BY <1>2 DEF LockMu
  <2>2. MuHeld'
    BY <1>0, <2>1 DEF MuHeld
  <2>3. closer[c] = "lock"
    BY <1>2 DEF LockMu
  <2>4. NotBefore'
    BY <1>0, <2>1, <2>3 DEF WaitInv, NotBefore
  <2>5. SignalOnItsWay'
    BY <2>1 DEF SignalOnItsWay
  <2> QED BY <1>0, <2>1, <2>2, <2>4, <2>5 DEF WaitInv
<1>3. CASE SelectDone(c)
  <2>1. /\ closer[c] = "select" /\ closer' = [closer EXCEPT ![c] = "finished"]
        /\ doneClosed /\ UNCHANGED <<sigDone, doneClosed, doing, waiter>>
    BY <1>3 DEF SelectDone, wgVars
  <2>2. NotBefore'
    BY <1>0, <2>1 DEF WaitInv, NotBefore
  <2>3. SignalOnItsWay'
    BY <1>0, <2>1 DEF WaitInv, SignalOnItsWay
  <2> QED BY <1>0, <2>1, <2>2, <2>3 DEF WaitInv
<1>4. CASE SelectTimeout(c)
  <2>1. /\ closer[c] = "select" /\ closer' = [closer EXCEPT ![c] = "expired"]
        /\ UNCHANGED <<sigDone, doneClosed, doing, waiter>>
    BY <1>4 DEF SelectTimeout, wgVars
  <2>2. MuHeld'
    BY <1>0, <2>1 DEF MuHeld
  <2> QED BY <1>0, <2>1, <2>2 DEF WaitInv, NotBefore, SignalOnItsWay
<1>5. CASE TimeoutClose(c)
  <2>1. /\ closer[c] = "expired" /\ closer' = [closer EXCEPT ![c] = "finished"]
        /\ doneClosed' /\ UNCHANGED <<sigDone, doing, waiter>>
    BY <1>5 DEF TimeoutClose, CloseDone, wgVars
  <2> QED BY <1>0, <2>1 DEF WaitInv, NotBefore, SignalOnItsWay
<1> QED BY <1>1, <1>2, <1>3, <1>4, <1>5 DEF CloserStep

LEMMA WaitWaiter == Typed /\ WaitInv /\ WaiterStep => WaitInv'
<1> SUFFICES ASSUME Typed, WaitInv, WaiterStep PROVE WaitInv'
  OBVIOUS
<1>1. UNCHANGED <<doing, closer, listener, inbox, signalled, runner, wg>> /\ (MuHeld <=> MuHeld')
  BY DEF WaiterStep, WaiterCancel, WaiterWait, WaiterWake, WaiterClose, MuHeld, signalVars,
         listenVars, runnerVars
<1>a. NotBefore'
  BY <1>1 DEF WaitInv, NotBefore
<1>b. /\ doneClosed => doneClosed'
      /\ waiter = "cancel" \/ sigDone => sigDone'
      /\ waiter # "off" /\ waiter' \notin {"off", "cancel"}
      /\ waiter' = "blocked" => wg' # 0
      /\ sigDone' => sigDone \/ waiter # "off"
  <2> USE DEF signalVars
  <2>1. CASE WaiterCancel
    BY <2>1 DEF WaiterCancel
  <2>2. CASE WaiterWait
    BY <1>1, <2>2 DEF WaiterWait
  <2>3. CASE WaiterWake
    BY <2>3 DEF WaiterWake
  <2>4. CASE WaiterClose
    BY <2>4 DEF WaiterClose, CloseDone
  <2> QED BY <2>1, <2>2, <2>3, <2>4 DEF WaiterStep
<1>c. SignalOnItsWay'
  BY <1>1, <1>b DEF WaitInv, SignalOnItsWay
<1> QED BY <1>1, <1>a, <1>b, <1>c DEF WaitInv

LEMMA WaitListen == ASSUME NEW r \in Runners PROVE Typed /\ WaitInv /\ ListenStep(r) => WaitInv'
<1> SUFFICES ASSUME Typed, WaitInv, ListenStep(r) PROVE WaitInv'
  OBVIOUS
<1>0. /\ closer \in [Closers -> {"off", "lock", "select", "expired", "finished"}]
      /\ listener \in [Runners -> {"off", "start", "checked", "armed", "finished"}]
      /\ <<r, "Listen">> \in Closers
      /\ UNCHANGED <<sigDone, doneClosed, doing, runner, wg, waiter, signalled>>
  BY ClosersTyped DEF Typed, TypeOK, ListenStep, ListenCheck, ListenArm, ListenWake, signalVars,
     runnerVars, wgVars
<1>1. CASE ListenCheck(r) \/ ListenArm(r)
  <2>1. /\ UNCHANGED <<closer, inbox>> /\ listener[r] # "armed"
        /\ \A q \in Runners \ {r} : listener'[q] = listener[q]
    BY <1>0, <1>1 DEF ListenCheck, ListenArm, signalVars
  <2>2. listener[r] \notin {"off", "finished"}
    BY <1>1 DEF ListenCheck, ListenArm
  <2>3. NotBefore'
    BY <1>0, <2>1, <2>2 DEF WaitInv, NotBefore
  <2>4. SignalOnItsWay' /\ (MuHeld <=> MuHeld')
    BY <1>0, <2>1 DEF WaitInv, SignalOnItsWay, MuHeld
  <2> QED BY <1>0, <2>1, <2>3, <2>4 DEF WaitInv
<1>2. CASE ListenWake(r)
  <2>1. closer' = [closer EXCEPT ![<<r, "Listen">>] = "lock"] /\ (doneClosed <=> doneClosed')
    BY <1>2 DEF ListenWake
  <2>2. closer'[<<r, "Listen">>] = "lock"
    BY <1>0, <2>1
  <2>3. SignalOnItsWay'
    BY <2>2 DEF SignalOnItsWay
  <2>4. \A q \in Runners : closer[<<q, "Shutdowned">>] = closer'[<<q, "Shutdowned">>]
    BY <1>0, <2>1, ClosersTyped
  <2>5. closer[<<r, "Listen">>] = "off" /\ listener[r] = "armed" /\ listener'[r] = "finished"
        /\ \A q \in Runners \ {r} : listener'[q] = listener[q]
    BY <1>0, <1>2 DEF ListenWake, WaitInv, NotBefore
  <2>6. MuHeld => MuHeld'
    BY <1>0, <2>1, <2>5 DEF MuHeld
  <2>7. NotBefore'
    <3> SUFFICES ASSUME NEW q \in Runners
                 PROVE  /\ runner[q] = "called" => listener'[q] = "off"
                        /\ listener'[q] # "finished" => closer'[<<q, "Listen">>] = "off"
                        /\ runner[q] \notin {"waiting", "returned"} => closer'[<<q, "Shutdowned">>] = "off"
      BY <1>0 DEF NotBefore
    <3>1. q # r => closer'[<<q, "Listen">>] = closer[<<q, "Listen">>]
      BY <1>0, <2>1, ClosersTyped
    <3> QED BY <2>4, <2>5, <3>1 DEF WaitInv, NotBefore
  <2> QED BY <1>0, <2>1, <2>3, <2>4, <2>6, <2>7 DEF WaitInv
<1> QED BY <1>1, <1>2 DEF ListenStep

LEMMA WaitRunner == ASSUME NEW r \in Runners PROVE Typed /\ WaitInv /\ RunnerStep(r) => WaitInv'
<1> SUFFICES ASSUME Typed, WaitInv, RunnerStep(r) PROVE WaitInv'
  OBVIOUS
<1>0. /\ runner \in [Runners -> {"called", "opening", "serving", "leaving", "waiting", "returned"}]
      /\ closer \in [Closers -> {"off", "lock", "select", "expired", "finished"}]
      /\ listener \in [Runners -> {"off", "start", "checked", "armed", "finished"}]
      /\ \A q \in Runners : <<q, "Shutdowned">> \in Closers /\ <<q, "Listen">> \in Closers
  BY ClosersTyped DEF Typed, TypeOK
<1>1. CASE Unregister(r)
  BY <1>1, WaitMove DEF Unregister, WgDone
<1>2. CASE Enter(r)
  <2>1. /\ UNCHANGED <<sigDone, doneClosed, doing, closer, inbox, signalled, wg, waiter>>
        /\ listener'[r] = "start" /\ runner[r] = "called" /\ runner'[r] \in {"serving", "opening"}
        /\ \A q \in Runners \ {r} : listener'[q] = listener[q] /\ runner'[q] = runner[q]
        /\ listener[r] = "off"
    BY <1>0, <1>2 DEF Enter, signalVars, wgVars, WaitInv, NotBefore
  <2>2. NotBefore'
    <3>1. /\ closer[<<r, "Listen">>] = "off" /\ closer[<<r, "Shutdowned">>] = "off"
          /\ runner'[r] # "called"
      BY <2>1 DEF WaitInv, NotBefore
    <3> QED BY <2>1, <3>1 DEF WaitInv, NotBefore
  <2>3. SignalOnItsWay' /\ (MuHeld <=> MuHeld')
    BY <2>1 DEF WaitInv, SignalOnItsWay, MuHeld
  <2> QED BY <2>1, <2>2, <2>3 DEF WaitInv
<1>3. CASE OpenFails(r) \/ ServeReturns(r) \/ ShutdownedReturns(r)
  <2>1. /\ UNCHANGED <<sigDone, doneClosed, doing, closer, listener, inbox, signalled, wg, waiter>>
        /\ \/ runner[r] \notin {"waiting", "returned"} /\ runner'[r] = "leaving"
           \/ runner[r] = "waiting" /\ runner'[r] = "returned"
        /\ \A q \in Runners \ {r} : runner'[q] = runner[q]
    BY <1>0, <1>3 DEF OpenFails, ServeReturns, ShutdownedReturns, signalVars, listenVars, wgVars
  <2>2. NotBefore'
    BY <1>0, <2>1 DEF WaitInv, NotBefore
  <2>3. SignalOnItsWay' /\ (MuHeld <=> MuHeld')
    BY <2>1 DEF WaitInv, SignalOnItsWay, MuHeld
  <2> QED BY <1>0, <2>1, <2>2, <2>3 DEF WaitInv
<1>4. ASSUME NEW b \in BOOLEAN, Open(r, b) PROVE WaitInv'
  <2>1. /\ UNCHANGED <<sigDone, doneClosed, doing, closer, listener, inbox, signalled>>
        /\ runner[r] = "opening" /\ runner'[r] = "serving"
        /\ \A q \in Runners \ {r} : runner'[q] = runner[q]
    BY <1>0, <1>4 DEF Open, signalVars, listenVars
  <2>2. /\ waiter' = "blocked" => wg' # 0
        /\ (waiter' = "cancel" <=> waiter = "cancel") /\ (waiter' # "off" <=> waiter # "off")
    BY <1>4 DEF Open, WgAdd, WgMove, WaitInv, wgVars
  <2> QED BY <1>0, <2>1, <2>2 DEF WaitInv, NotBefore, SignalOnItsWay, MuHeld
<1>5. CASE CallShutdowned(r)
  <2>1. /\ UNCHANGED <<sigDone, doneClosed, doing, listener, inbox, signalled, wg, waiter>>
        /\ runner[r] = "leaving" /\ runner'[r] = "waiting"
        /\ \A q \in Runners \ {r} : runner'[q] = runner[q]
        /\ closer' = [closer EXCEPT ![<<r, "Shutdowned">>] = "lock"]
    BY <1>0, <1>5 DEF CallShutdowned, listenVars, wgVars
  <2>2. closer[<<r, "Shutdowned">>] = "off" /\ closer'[<<r, "Shutdowned">>] = "lock"
    BY <1>0, <2>1 DEF WaitInv, NotBefore
  <2>3. MuHeld => MuHeld'
    BY <1>0, <2>1, <2>2 DEF MuHeld
  <2>4. \A q \in Runners : closer'[<<q, "Listen">>] = closer[<<q, "Listen">>]
    BY <1>0, <2>1
  <2>5. \A q \in Runners \ {r} : closer'[<<q, "Shutdowned">>] = closer[<<q, "Shutdowned">>]
    BY <1>0, <2>1
  <2>6. NotBefore'
    <3> SUFFICES ASSUME NEW q \in Runners
                 PROVE  /\ runner'[q] = "called" => listener[q] = "off"
                        /\ listener[q] # "finished" => closer'[<<q, "Listen">>] = "off"
                        /\ runner'[q] \notin {"waiting", "returned"} => closer'[<<q, "Shutdowned">>] = "off"
      BY <2>1 DEF NotBefore
    <3> QED BY <2>1, <2>4, <2>5 DEF WaitInv, NotBefore
  <2>7. SignalOnItsWay'
    BY <1>0, <2>1, <2>4 DEF WaitInv, SignalOnItsWay
  <2> QED BY <1>0, <2>1, <2>2, <2>3, <2>5, <2>6, <2>7 DEF WaitInv
<1> QED BY <1>1, <1>2, <1>3, <1>4, <1>5 DEF RunnerStep

LEMMA WaitSignal == ASSUME NEW s \in {"INT", "TERM"} PROVE Typed /\ WaitInv /\ OsSignal(s) => WaitInv'
<1> SUFFICES ASSUME Typed, WaitInv, OsSignal(s) PROVE WaitInv'
  OBVIOUS
<1>1. UNCHANGED <<sigDone, doneClosed, doing, closer, listener, runner, wg, waiter>>
  BY DEF OsSignal, signalVars, runnerVars, wgVars
<1>2. PICK r \in Runners : listener[r] = "armed"
  BY DEF OsSignal
<1>3. inbox'[r] # "empty"
  BY <1>2 DEF OsSignal, Deliver
<1> QED BY <1>1, <1>2, <1>3 DEF WaitInv, NotBefore, SignalOnItsWay, MuHeld

LEMMA WaitNext == Typed /\ WaitInv /\ [Next]_vars => WaitInv'
BY WaitTask, WaitStopper, WaitCloser, WaitWaiter, WaitListen, WaitRunner, WaitSignal, WaitKept
   DEF Next, vars, runnerVars, wgVars

LEMMA WaitInit == Init => WaitInv
BY ClosersTyped DEF Init, WaitInv, NotBefore, SignalOnItsWay

LEMMA WaitFromInv == Typed /\ AccountInv /\ WaitInv => NobodyWaitsInVain
<1> SUFFICES ASSUME Typed, AccountInv, WaitInv, waiter = "blocked",
                    Held \cup registered \cup StoppersIn \cup Overdone = {}
             PROVE  FALSE
  BY DEF WaitInv, NobodyWaitsInVain
<1>1. Held = {} /\ registered = {} /\ StoppersIn = {} /\ Overdone = {}
  OBVIOUS
<1>2. wg = 0 + 0 + 0 - 0
  BY <1>1, FS_EmptySet DEF AccountInv, WgAccount
<1> QED BY <1>2 DEF WaitInv

\* A received signal is on its way to the shutdown, who waits in Shutdowned is
\* not forgotten, and waitDone is blocked only on work that is registered
\* (Listen, doShutdownDone, waitDone).
THEOREM WaitsAreAnswered == Spec => []NobodyWaitsInVain
<1> QED BY AccountInit, TypedInit, TypedNext, FreshNext, AccountNext, WaitInit, WaitNext,
           WaitFromInv, PTL DEF Spec

=============================================================================
