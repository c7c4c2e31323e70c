-------------------------------- MODULE P2c --------------------------------
(***************************************************************************)
(* The power-of-two-choices balancer of gRPC clients                       *)
(* (grpc/balancer/p2c): a picker compares two connections, takes the less  *)
(* loaded one unless the other has not been picked for forcePick, and      *)
(* learns latency and success of a connection when a call on it is done.   *)
(* A pick runs under the picker's mutex; the callbacks of finished calls   *)
(* run without it, one atomic operation at a time.                         *)
(***************************************************************************)
EXTENDS Integers, FiniteSets, Sequences

CONSTANTS
  Rpcs,         \* goroutines that call the service; each has one call at a time
  MaxConns,     \* bound on the connections of a picker
  MaxBuilds,    \* bound on the pickers built
  MaxPicks,     \* bound on the picks
  MaxNow,       \* bound on the clock
  ForcePick,    \* forcePick, in units of the clock
  InitSuccess   \* initSuccess

ASSUME P2cAssumption ==
  /\ IsFiniteSet(Rpcs)
  /\ {MaxConns, MaxBuilds, MaxPicks, MaxNow, ForcePick} \subseteq Nat
  /\ InitSuccess \in Nat \ {0}

\* The subConns of the g-th picker are <<g, 1>>, <<g, 2>>, ..., in the order of
\* its slice conns; a connection that an earlier picker had too is another one.
SubConns == (1..MaxBuilds) \X (1..MaxConns)

\* The clock starts so far in the past (relativetime.go) that a subConn whose
\* pick is still 0 is overdue.
Epoch == ForcePick + 1

VARIABLES
  now,      \* Now()
  size,     \* size[g]: the number of subConns of the g-th picker
  built,    \* the pickers built so far; the last one is in use
  picks,    \* the picks begun
  rpc,      \* rpc[k]: where the goroutine k is
  draw,     \* draw[k]: the picker k uses, the candidates, when choose was called
            \* and the load of the first
  on,       \* on[k]: the subConn of its call
  answer,   \* answer[k]: what its callback has read so far
  inflight, lag, success, last, pick,  \* fields of the subConns
  passed,   \* history, passed[s][d]: how often, since s was last picked, d was
            \* picked from the candidates s and d although s was overdue
  failed    \* history: the subConns that gave an unacceptable answer

connVars == <<inflight, lag, success, last, pick>>
vars == <<now, size, built, picks, rpc, draw, on, answer, connVars, passed, failed>>

NoDraw == [picker |-> 0, pair |-> <<>>, start |-> 0, load |-> 0]
NoAnswer == [start |-> 0, end |-> 0, sample |-> 0, w |-> "none", old |-> 0]

Pairs == (1..MaxConns) \X (1..MaxConns)
Draws == [picker : 0..MaxBuilds, pair : {<<>>} \cup Pairs, start : Nat, load : Int]
Weights == {"none", "zero", "one", "some"}
Answers == [start : Nat, end : Nat, sample : {0, InitSuccess}, w : Weights, old : Nat]
Picking == {"pick", "choose"}
Ending == {"swap", "loadLag", "storeLag", "loadSuccess", "storeSuccess"}

TypeOK ==
  /\ now \in Nat /\ now >= Epoch /\ built \in 0..MaxBuilds /\ picks \in 0..MaxPicks
  /\ size \in [1..MaxBuilds -> 0..MaxConns]
  /\ rpc \in [Rpcs -> {"idle", "calling"} \cup Picking \cup Ending]
  /\ draw \in [Rpcs -> Draws]
  /\ on \in [Rpcs -> {<<>>} \cup SubConns]
  /\ answer \in [Rpcs -> Answers]
  /\ \A k \in Rpcs :
       /\ rpc[k] \in Picking => draw[k].picker \in 1..built
       /\ rpc[k] = "choose" => draw[k].pair \in Pairs /\ draw[k].start \in Epoch..now
       /\ rpc[k] \in {"calling"} \cup Ending => on[k] \in SubConns /\ answer[k].start <= now
       /\ rpc[k] \in Ending => answer[k].end \in answer[k].start..now
       /\ rpc[k] = "storeSuccess" => answer[k].old <= InitSuccess
  /\ inflight \in [SubConns -> Int]
  /\ lag \in [SubConns -> Nat] /\ success \in [SubConns -> 0..InitSuccess]
  /\ last \in [SubConns -> 0..now] /\ pick \in [SubConns -> 0..now]
  /\ passed \in [SubConns -> [SubConns -> Nat]]
  /\ failed \subseteq SubConns

Init ==
  /\ now = Epoch /\ built = 0 /\ picks = 0
  /\ size = [g \in 1..MaxBuilds |-> 0]
  /\ rpc = [k \in Rpcs |-> "idle"]
  /\ draw = [k \in Rpcs |-> NoDraw]
  /\ on = [k \in Rpcs |-> <<>>]
  /\ answer = [k \in Rpcs |-> NoAnswer]
  /\ inflight = [s \in SubConns |-> 0]
  /\ lag = [s \in SubConns |-> 0]
  /\ success = [s \in SubConns |-> InitSuccess]
  /\ last = [s \in SubConns |-> 0]
  /\ pick = [s \in SubConns |-> 0]
  /\ passed = [s \in SubConns |-> [d \in SubConns |-> 0]]
  /\ failed = {}

-----------------------------------------------------------------------------
Tick ==
  /\ now < MaxNow
  /\ now' = now + 1
  /\ UNCHANGED <<size, built, picks, rpc, draw, on, answer, connVars, passed, failed>>

\* Build: grpc asks for a new picker whenever the set of ready connections
\* changes; without any, calls wait for the next picker.
Build(n) ==
  /\ built < MaxBuilds
  /\ built' = built + 1
  /\ size' = [size EXCEPT ![built + 1] = n]
  /\ UNCHANGED <<now, picks, rpc, draw, on, answer, connVars, passed, failed>>

\* External: grpc takes the picker in use and calls its Pick.
UsePicker(k) ==
  /\ rpc[k] = "idle" /\ picks < MaxPicks
  /\ built > 0 /\ size[built] > 0
  /\ rpc' = [rpc EXCEPT ![k] = "pick"]
  /\ draw' = [draw EXCEPT ![k] = [NoDraw EXCEPT !.picker = built]]
  /\ picks' = picks + 1
  /\ UNCHANGED <<now, size, built, on, answer, connVars, passed, failed>>

Locked(g) == \E k \in Rpcs : rpc[k] = "choose" /\ draw[k].picker = g

\* The candidates: of three or more, the draw stops at a pair that is healthy,
\* or at the third, whatever it is.
Candidates(g) ==
  CASE size[g] = 1 -> {<<1, 1>>}
    [] size[g] = 2 -> {<<1, 2>>}
    [] OTHER -> {p \in (1..size[g]) \X (1..size[g]) : p[1] # p[2]}

\* int64(math.Sqrt(float64(lag + 1))) * (inflight + 1); never 0, as inflight is
\* not negative, so the penalty is not reached.
Root(n) == Cardinality({r \in 1..n : r * r <= n})
Load(s) == Root(lag[s] + 1) * (inflight[s] + 1)

\* Pick: lock, draw the candidates, and in choose read the clock and the first
\* one's load.
Draw(k, p) ==
  /\ rpc[k] = "pick"
  /\ ~Locked(draw[k].picker)
  /\ p \in Candidates(draw[k].picker)
  /\ rpc' = [rpc EXCEPT ![k] = "choose"]
  /\ draw' = [draw EXCEPT ![k].pair = p, ![k].start = now,
                          ![k].load = Load(<<draw[k].picker, p[1]>>)]
  /\ UNCHANGED <<now, size, built, picks, on, answer, connVars, passed, failed>>

Overdue(s, start) == start - pick[s] > ForcePick

\* choose: the more loaded candidate if it is overdue, else the other.
Taken(heavy, light, start) == IF Overdue(heavy, start) THEN heavy ELSE light

\* Variant: a forced pick does not set pick.
TakeUnmarked(k, s, other, start) ==
  /\ rpc' = [rpc EXCEPT ![k] = "calling"]
  /\ on' = [on EXCEPT ![k] = s]
  /\ pick' = IF Overdue(s, start) THEN pick ELSE [pick EXCEPT ![s] = start]
  /\ inflight' = [inflight EXCEPT ![s] = @ + 1]
  /\ answer' = [answer EXCEPT ![k] = [NoAnswer EXCEPT !.start = now]]
  /\ passed' = [x \in SubConns |->
                  CASE x = s -> [d \in SubConns |-> 0]
                    [] x = other /\ x # s /\ Overdue(x, start) -> [passed[x] EXCEPT ![s] = @ + 1]
                    [] OTHER -> passed[x]]

\* The rest of Pick: mark the taken one as picked at the start, count the call;
\* the call itself starts when the callback is built.
Take(k, s, other, start) ==
  /\ rpc' = [rpc EXCEPT ![k] = "calling"]
  /\ on' = [on EXCEPT ![k] = s]
  /\ pick' = [pick EXCEPT ![s] = start]
  /\ inflight' = [inflight EXCEPT ![s] = @ + 1]
  /\ answer' = [answer EXCEPT ![k] = [NoAnswer EXCEPT !.start = now]]
  /\ passed' = [x \in SubConns |->
                  CASE x = s -> [d \in SubConns |-> 0]
                    [] x = other /\ x # s /\ Overdue(x, start) -> [passed[x] EXCEPT ![s] = @ + 1]
                    [] OTHER -> passed[x]]

\* choose and the end of Pick: read the second one's load, swap if the first
\* is more loaded, take one, unlock.
Choose(k) ==
  /\ rpc[k] = "choose"
  /\ LET g == draw[k].picker
         a == <<g, draw[k].pair[1]>>
         b == <<g, draw[k].pair[2]>>
         heavy == IF draw[k].load > Load(b) THEN a ELSE b
         light == IF heavy = a THEN b ELSE a
         s == Taken(heavy, light, draw[k].start)
     IN Take(k, s, IF s = a THEN b ELSE a, draw[k].start)
  /\ draw' = [draw EXCEPT ![k] = NoDraw]
  /\ UNCHANGED <<now, size, built, picks, lag, success, last, failed>>

-----------------------------------------------------------------------------
(* buildDoneFunc's callback.                                               *)

\* Variant: the callback of an unacceptable answer returns before it counts.
FinishCountsGood(k, good) ==
  /\ rpc[k] = "calling"
  /\ rpc' = [rpc EXCEPT ![k] = "swap"]
  /\ inflight' = IF good THEN [inflight EXCEPT ![on[k]] = @ - 1] ELSE inflight
  /\ answer' = [answer EXCEPT ![k].end = now, ![k].sample = IF good THEN InitSuccess ELSE 0]
  /\ failed' = IF good THEN failed ELSE failed \cup {on[k]}
  /\ UNCHANGED <<now, size, built, picks, draw, on, lag, success, last, pick, passed>>

\* Variant: every error counts against the connection.
FinishAnyError(k, good) ==
  /\ rpc[k] = "calling"
  /\ rpc' = [rpc EXCEPT ![k] = "swap"]
  /\ inflight' = [inflight EXCEPT ![on[k]] = @ - 1]
  /\ \E sample \in IF good THEN {0, InitSuccess} ELSE {0} :
       answer' = [answer EXCEPT ![k].end = now, ![k].sample = sample]
  /\ failed' = IF good THEN failed ELSE failed \cup {on[k]}
  /\ UNCHANGED <<now, size, built, picks, draw, on, lag, success, last, pick, passed>>

\* The call is answered, acceptably (Acceptable, accept.go) or not.
Finish(k, good) ==
  /\ rpc[k] = "calling"
  /\ rpc' = [rpc EXCEPT ![k] = "swap"]
  /\ inflight' = [inflight EXCEPT ![on[k]] = @ - 1]
  /\ answer' = [answer EXCEPT ![k].end = now, ![k].sample = IF good THEN InitSuccess ELSE 0]
  /\ failed' = IF good THEN failed ELSE failed \cup {on[k]}
  /\ UNCHANGED <<now, size, built, picks, draw, on, lag, success, last, pick, passed>>

\* The weight of the old value, exp(-td / decayTime): 1 when no time has passed
\* since the last answer, or when a later one was faster here.
SwapLast(k) ==
  /\ rpc[k] = "swap"
  /\ rpc' = [rpc EXCEPT ![k] = "loadLag"]
  /\ answer' = [answer EXCEPT ![k].w = IF answer[k].end > last[on[k]] THEN "some" ELSE "one"]
  /\ last' = [last EXCEPT ![on[k]] = answer[k].end]
  /\ UNCHANGED <<now, size, built, picks, draw, on, inflight, lag, success, pick, passed, failed>>

\* The first sample counts in full.
LoadLag(k) ==
  /\ rpc[k] = "loadLag"
  /\ rpc' = [rpc EXCEPT ![k] = "storeLag"]
  /\ answer' = [answer EXCEPT ![k].old = lag[on[k]],
                              ![k].w = IF lag[on[k]] = 0 THEN "zero" ELSE @]
  /\ UNCHANGED <<now, size, built, picks, draw, on, connVars, passed, failed>>

\* uint64(old * w + new * (1 - w)): rounded down, so that between equal values
\* it may lose one, and towards a smaller value it always does.
Blend(old, new, w) ==
  CASE w = "zero" -> {new}
    [] w = "one" -> {old}
    [] new > old -> old..new
    [] new = old -> {old - 1, old} \cap Nat
    [] OTHER -> new..(old - 1)

StoreLag(k) ==
  /\ rpc[k] = "storeLag"
  /\ rpc' = [rpc EXCEPT ![k] = "loadSuccess"]
  /\ \E v \in Blend(answer[k].old, answer[k].end - answer[k].start, answer[k].w) :
       lag' = [lag EXCEPT ![on[k]] = v]
  /\ UNCHANGED <<now, size, built, picks, draw, on, answer,
                 inflight, success, last, pick, passed, failed>>

LoadSuccess(k) ==
  /\ rpc[k] = "loadSuccess"
  /\ rpc' = [rpc EXCEPT ![k] = "storeSuccess"]
  /\ answer' = [answer EXCEPT ![k].old = success[on[k]]]
  /\ UNCHANGED <<now, size, built, picks, draw, on, connVars, passed, failed>>

StoreSuccess(k) ==
  /\ rpc[k] = "storeSuccess"
  /\ rpc' = [rpc EXCEPT ![k] = "idle"]
  /\ \E v \in Blend(answer[k].old, answer[k].sample, answer[k].w) :
       success' = [success EXCEPT ![on[k]] = v]
  /\ answer' = [answer EXCEPT ![k] = NoAnswer]
  /\ on' = [on EXCEPT ![k] = <<>>]
  /\ UNCHANGED <<now, size, built, picks, draw, inflight, lag, last, pick, passed, failed>>

DoneStep(k) == SwapLast(k) \/ LoadLag(k) \/ StoreLag(k) \/ LoadSuccess(k) \/ StoreSuccess(k)
PickStep(k) ==
  \/ UsePicker(k)
  \/ \E p \in Pairs : Draw(k, p)
  \/ Choose(k)

Next ==
  \/ Tick
  \/ \E n \in 0..MaxConns : Build(n)
  \/ \E k \in Rpcs : PickStep(k) \/ DoneStep(k) \/ \E good \in BOOLEAN : Finish(k, good)

Spec == Init /\ [][Next]_vars

-----------------------------------------------------------------------------
(* Properties.                                                             *)

\* inflight is the number of calls in progress on a subConn, also when pickers
\* were replaced meanwhile (Pick, buildDoneFunc): a late callback does not
\* disturb the counts of the picker in use.
InflightExact ==
  \A s \in SubConns : inflight[s] = Cardinality({k \in Rpcs : rpc[k] = "calling" /\ on[k] = s})

\* However the loads develop, one connection is preferred to another that is
\* overdue at most once in each forcePick (choose).
PassedOverBound ==
  \A s, d \in SubConns :
    passed[s][d] > 0 => (passed[s][d] - 1) * (ForcePick + 1) <= pick[d] - Epoch

\* Rounding and concurrent callbacks do not make a connection unhealthy that
\* never failed (the blend of success in buildDoneFunc, healthy).
HealthyUnlessFailed == \A s \in SubConns : s \notin failed => success[s] >= InitSuccess - 1

\* However callbacks interleave, the average latency of a connection never
\* exceeds the time since the program started, nor does the unsigned value wrap
\* (the blend of lag in buildDoneFunc).
LagWithinTime == \A s \in SubConns : lag[s] \in 0..(now - Epoch)

\* Both averages stay within what was observed (buildDoneFunc).
AveragesHold == HealthyUnlessFailed /\ LagWithinTime
=============================================================================
