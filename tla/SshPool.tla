------------------------------ MODULE SshPool ------------------------------
(***************************************************************************)
(* One shared SSH connection of ssh/ssh.go: the instance that NewSSH hands *)
(* out for one configuration, counted in ref, with its keepalive           *)
(* goroutines; and those who take it: callers that release it once, the    *)
(* proxies of ssh/proxy.go and the remote forwards of ssh/forward.go, whose*)
(* goroutines release it too.                                              *)
(***************************************************************************)
EXTENDS Integers, FiniteSets

CONSTANTS
  Direct,    \* callers that Close once (a local forward is one)
  Proxies,   \* calls of NewProxy
  Forwards,  \* calls of NewForward, REMOTE, with one address to listen on
  Jumpers,   \* the direct callers that reach another host with DialRemote
  MaxDials,  \* bound: contexts that NewSSH creates
  MaxDrops   \* bound: times the peer drops the connection

Users == Direct \cup Proxies \cup Forwards

ASSUME UsersAssumption ==
  /\ IsFiniteSet(Users) /\ Jumpers \subseteq Direct
  /\ Direct \cap (Proxies \cup Forwards) = {} /\ Proxies \cap Forwards = {}
  /\ {"free", "keep"} \cap Users = {}
ASSUME BoundsAssumption == MaxDials \in Nat /\ MaxDrops \in Nat

Gens == 1..MaxDials

\* The goroutines of a user: the body, and the watcher of Proxy.Accept or the
\* acceptor of BindAndAccept.
Routines == {"body", "side"}

VARIABLES
  ref,
  gen,      \* contexts created so far; the last one is the instance's httpCtx
  live,     \* contexts not cancelled: each holds the process's WaitGroup
  conn,     \* the client c
  orphans,  \* open clients that no field points to any more
  mt,       \* who holds the instance's mutex over a dial
  user,     \* user[u]: the body of u
  side,     \* side[u]: its other goroutine
  stop,     \* users whose own httpCtx is cancelled
  owed,     \* owed[u][g]: calls of Close that goroutine is about to make
  closes,   \* closes[u]: calls of Close that u made
  jump,     \* jump[u]: the context its remote instance shares, 0 if none
  isKeepAlive,
  keeper,   \* keeper[k]: the keepalive goroutine of dial k
  watch,    \* watch[k]: the context its select waits on
  drops,    \* times the peer dropped the connection
  failed,   \* dials of NewSSH that failed
  cut       \* some remote instance was closed

instVars == <<ref, gen, live, conn, orphans, mt, failed>>
userVars == <<user, stop, owed, closes>>
keepVars == <<isKeepAlive, keeper, watch>>
vars == <<instVars, userVars, side, jump, cut, keepVars, drops>>

Keepers == {"none", "spawned", "passed", "waiting", "checking", "failed", "redial", "over"}

TypeOK ==
  /\ ref \in Int
  /\ gen \in 0..MaxDials /\ live \subseteq Gens
  /\ conn \in {"nil", "open", "dropped", "closed"}
  /\ orphans \in Nat /\ drops \in 0..MaxDrops /\ failed \in Nat
  /\ mt \in {"free", "keep"} \cup Users
  /\ user \in [Users -> {"idle", "dialing", "failed", "using", "left"}]
  /\ side \in [Users -> {"off", "running", "broken", "over"}]
  /\ stop \subseteq Users
  /\ owed \in [Users -> [Routines -> 0..2]]
  /\ closes \in [Users -> 0..3]
  /\ jump \in [Users -> 0..MaxDials]
  /\ isKeepAlive \in BOOLEAN /\ cut \in BOOLEAN
  /\ keeper \in [Gens -> Keepers]
  /\ watch \in [Gens -> 0..MaxDials]

Init ==
  /\ ref = 0 /\ gen = 0 /\ live = {} /\ conn = "nil" /\ orphans = 0 /\ mt = "free" /\ failed = 0
  /\ user = [u \in Users |-> "idle"]
  /\ side = [u \in Users |-> "off"]
  /\ stop = {}
  /\ owed = [u \in Users |-> [g \in Routines |-> 0]]
  /\ closes = [u \in Users |-> 0]
  /\ jump = [u \in Users |-> 0]
  /\ isKeepAlive = FALSE /\ cut = FALSE
  /\ keeper = [k \in Gens |-> "none"]
  /\ watch = [k \in Gens |-> 0]
  /\ drops = 0

-----------------------------------------------------------------------------
(* NewSSH.                                                                 *)

\* Having the connection, a body starts its other goroutine.
Use(u) ==
  /\ user' = [user EXCEPT ![u] = "using"]
  /\ side' = [side EXCEPT ![u] = IF u \in Direct THEN "off" ELSE "running"]

\* Variant: an instance that is in use is handed out uncounted.
ReuseUncounted(u) ==
  /\ user[u] = "idle" /\ mt = "free"
  /\ ref > 0
  /\ Use(u)
  /\ UNCHANGED <<instVars, stop, owed, closes, jump, cut, keepVars, drops>>

Reuse(u) ==
  /\ user[u] = "idle"
  /\ mt = "free"
  /\ ref > 0
  /\ ref' = ref + 1
  /\ Use(u)
  /\ UNCHANGED <<gen, live, conn, orphans, mt, failed, stop, owed, closes, jump, cut, keepVars, drops>>

\* Variant: every call dials.
StartDialAlways(u) ==
  /\ user[u] = "idle" /\ mt = "free" /\ gen < MaxDials
  /\ gen' = gen + 1 /\ live' = live \cup {gen'} /\ mt' = u
  /\ user' = [user EXCEPT ![u] = "dialing"]
  /\ UNCHANGED <<ref, conn, orphans, failed, side, stop, owed, closes, jump, cut, keepVars, drops>>

\* Nobody is counted: a new context, and a dial under the mutex.
StartDial(u) ==
  /\ user[u] = "idle"
  /\ mt = "free"
  /\ ref <= 0
  /\ gen < MaxDials
  /\ gen' = gen + 1
  /\ live' = live \cup {gen'}
  /\ mt' = u
  /\ user' = [user EXCEPT ![u] = "dialing"]
  /\ UNCHANGED <<ref, conn, orphans, failed, side, stop, owed, closes, jump, cut, keepVars, drops>>

DialSucceeds(u) ==
  /\ mt = u
  /\ mt' = "free"
  /\ orphans' = IF conn = "open" THEN orphans + 1 ELSE orphans
  /\ conn' = "open"
  /\ ref' = ref + 1
  /\ keeper' = [keeper EXCEPT ![gen] = "spawned"]
  /\ Use(u)
  /\ UNCHANGED <<gen, live, failed, stop, owed, closes, jump, cut, isKeepAlive, watch, drops>>

\* The context stays; neither NewProxy nor NewForward closes the instance.
DialFails(u) ==
  /\ mt = u
  /\ mt' = "free"
  /\ orphans' = IF conn = "open" THEN orphans + 1 ELSE orphans
  /\ conn' = "nil"
  /\ failed' = failed + 1
  /\ user' = [user EXCEPT ![u] = "failed"]
  /\ UNCHANGED <<ref, gen, live, side, stop, owed, closes, jump, cut, keepVars, drops>>

-----------------------------------------------------------------------------
(* Close.                                                                  *)

\* The listener of a remote forward ends with its connection.
Broken == [u \in Users |-> IF u \in Forwards /\ side[u] = "running" THEN "broken" ELSE side[u]]

\* The client's own Close, on whatever c points to.
Hangup == IF conn = "nil" THEN "nil" ELSE "closed"

\* Variant: the context is not cancelled.
CloseKeepsContext(u, g) ==
  /\ owed[u][g] > 0 /\ mt = "free"
  /\ owed' = [owed EXCEPT ![u][g] = @ - 1]
  /\ closes' = [closes EXCEPT ![u] = @ + 1]
  /\ ref' = ref - 1
  /\ IF ref' <= 0 THEN conn' = Hangup /\ side' = Broken ELSE UNCHANGED <<conn, side>>
  /\ UNCHANGED <<live, gen, orphans, mt, failed, user, stop, jump, cut, keepVars, drops>>

Close(u, g) ==
  /\ owed[u][g] > 0
  /\ mt = "free"
  /\ owed' = [owed EXCEPT ![u][g] = @ - 1]
  /\ closes' = [closes EXCEPT ![u] = @ + 1]
  /\ ref' = ref - 1
  /\ IF ref' <= 0
     THEN live' = live \ {gen} /\ conn' = Hangup /\ side' = Broken
     ELSE UNCHANGED <<live, conn, side>>
  /\ UNCHANGED <<gen, orphans, mt, failed, user, stop, jump, cut, keepVars, drops>>

-----------------------------------------------------------------------------
(* The users.                                                              *)

Owe(u, g, n) == owed' = [owed EXCEPT ![u][g] = n]

\* The user's httpCtx is cancelled from outside.
StopUser(u) ==
  /\ u \in Proxies \cup Forwards /\ user[u] = "using" /\ u \notin stop
  /\ stop' = stop \cup {u}
  /\ UNCHANGED <<instVars, user, owed, closes, side, jump, cut, keepVars, drops>>

\* A direct caller is finished, or NewForward's context is done: the deferred
\* Close.
Leave(u) ==
  /\ user[u] = "using" /\ u \in Direct \cup Forwards
  /\ u \in Forwards => u \in stop
  /\ user' = [user EXCEPT ![u] = "left"]
  /\ Owe(u, "body", 1)
  /\ UNCHANGED <<instVars, stop, closes, side, jump, cut, keepVars, drops>>

\* Proxy.Accept: the listener was closed, or fails; Proxy.Close, and then the
\* deferred Close of NewProxy.
AcceptFails(u) ==
  /\ user[u] = "using" /\ u \in Proxies
  /\ user' = [user EXCEPT ![u] = "left"]
  /\ stop' = stop \cup {u}
  /\ Owe(u, "body", 2)
  /\ UNCHANGED <<instVars, closes, side, jump, cut, keepVars, drops>>

\* Bind fails: only the deferred Close, and no goroutine waits for the context.
BindFails(u) ==
  /\ user[u] = "using" /\ u \in Proxies /\ side[u] = "running"
  /\ u \notin stop
  /\ user' = [user EXCEPT ![u] = "left"]
  /\ side' = [side EXCEPT ![u] = "over"]
  /\ Owe(u, "body", 1)
  /\ UNCHANGED <<instVars, stop, closes, jump, cut, keepVars, drops>>

\* The goroutine of Proxy.Accept: the context is done, Proxy.Close.
ProxyWatch(u) ==
  /\ u \in Proxies /\ side[u] = "running" /\ u \in stop
  /\ side' = [side EXCEPT ![u] = "over"]
  /\ Owe(u, "side", 1)
  /\ UNCHANGED <<instVars, user, stop, closes, jump, cut, keepVars, drops>>

\* BindAndAccept: the remote listener is gone, Forward.Close.
ForwardAcceptFails(u) ==
  /\ side[u] = "broken"
  /\ side' = [side EXCEPT ![u] = "over"]
  /\ stop' = stop \cup {u}
  /\ Owe(u, "side", 1)
  /\ UNCHANGED <<instVars, user, closes, jump, cut, keepVars, drops>>

\* BindAndAccept cannot listen at all, and just returns.
ForwardListenFails(u) ==
  /\ u \in Forwards /\ side[u] \in {"running", "broken"}
  /\ side' = [side EXCEPT ![u] = "over"]
  /\ UNCHANGED <<instVars, userVars, jump, cut, keepVars, drops>>

\* DialRemote: an instance of its own, on the context of this one.
DialRemote(u) ==
  /\ u \in Jumpers /\ user[u] = "using" /\ jump[u] = 0
  /\ conn = "open"
  /\ jump' = [jump EXCEPT ![u] = gen]
  /\ UNCHANGED <<instVars, userVars, side, cut, keepVars, drops>>

\* Its Close cancels that context.
CloseRemote(u) ==
  /\ jump[u] > 0
  /\ live' = live \ {jump[u]}
  /\ jump' = [jump EXCEPT ![u] = 0]
  /\ cut' = TRUE
  /\ UNCHANGED <<ref, gen, conn, orphans, mt, failed, userVars, side, keepVars, drops>>

\* External: the peer goes away.
PeerDrops ==
  /\ conn = "open" /\ drops < MaxDrops
  /\ conn' = "dropped"
  /\ drops' = drops + 1
  /\ side' = Broken
  /\ UNCHANGED <<ref, gen, live, orphans, mt, failed, userVars, jump, cut, keepVars>>

-----------------------------------------------------------------------------
(* keepalive and keep.                                                     *)

\* A keepalive goroutine goes to the select, on the instance's context of now.
Select(k) ==
  /\ keeper' = [keeper EXCEPT ![k] = "waiting"]
  /\ watch' = [watch EXCEPT ![k] = gen]

\* The unsynchronised check of isKeepAlive, and the assignment after it.
KeeperChecks(k) ==
  /\ keeper[k] = "spawned"
  /\ keeper' = [keeper EXCEPT ![k] = IF isKeepAlive \/ conn = "nil" THEN "over" ELSE "passed"]
  /\ UNCHANGED <<instVars, userVars, side, jump, cut, isKeepAlive, watch, drops>>

KeeperStarts(k) ==
  /\ keeper[k] = "passed"
  /\ isKeepAlive' = TRUE
  /\ Select(k)
  /\ UNCHANGED <<instVars, userVars, side, jump, cut, drops>>

\* Variant: the select has no case for the context.
KeeperStays(k) == FALSE

KeeperEnds(k) ==
  /\ keeper[k] = "waiting"
  /\ watch[k] \notin live
  /\ keeper' = [keeper EXCEPT ![k] = "over"]
  /\ UNCHANGED <<instVars, userVars, side, jump, cut, isKeepAlive, watch, drops>>

\* The timer fires (whenever it likes).
Tick(k) ==
  /\ keeper[k] = "waiting"
  /\ keeper' = [keeper EXCEPT ![k] = "checking"]
  /\ UNCHANGED <<instVars, userVars, side, jump, cut, isKeepAlive, watch, drops>>

\* Check, without the mutex.
CheckPasses(k) ==
  /\ keeper[k] = "checking"
  /\ conn = "open"
  /\ Select(k)
  /\ UNCHANGED <<instVars, userVars, side, jump, cut, isKeepAlive, drops>>

CheckFails(k) ==
  /\ keeper[k] = "checking"
  /\ conn # "open"
  /\ keeper' = [keeper EXCEPT ![k] = "failed"]
  /\ UNCHANGED <<instVars, userVars, side, jump, cut, isKeepAlive, watch, drops>>

\* Variant: keep does not see that the instance was closed.
KeepAnyway(k) ==
  /\ keeper[k] = "failed" /\ mt = "free"
  /\ mt' = "keep" /\ conn' = Hangup /\ side' = Broken
  /\ keeper' = [keeper EXCEPT ![k] = "redial"]
  /\ UNCHANGED <<watch, ref, gen, live, orphans, failed, userVars, jump, cut, isKeepAlive, drops>>

\* Variant: the last user does not count.
KeepUnlessLast(k) ==
  /\ keeper[k] = "failed" /\ mt = "free"
  /\ IF ref <= 1
     THEN Select(k) /\ UNCHANGED <<mt, conn, side>>
     ELSE /\ mt' = "keep" /\ conn' = Hangup /\ side' = Broken
          /\ keeper' = [keeper EXCEPT ![k] = "redial"] /\ UNCHANGED watch
  /\ UNCHANGED <<ref, gen, live, orphans, failed, userVars, jump, cut, isKeepAlive, drops>>

\* keep takes the mutex: closed meanwhile, or close the client and dial again.
Keep(k) ==
  /\ keeper[k] = "failed"
  /\ mt = "free"
  /\ IF ref <= 0
     THEN Select(k) /\ UNCHANGED <<mt, conn, side>>
     ELSE /\ mt' = "keep"
          /\ conn' = Hangup
          /\ side' = Broken
          /\ keeper' = [keeper EXCEPT ![k] = "redial"]
          /\ UNCHANGED watch
  /\ UNCHANGED <<ref, gen, live, orphans, failed, userVars, jump, cut, isKeepAlive, drops>>

Redial(k, ok) ==
  /\ keeper[k] = "redial"
  /\ mt' = "free"
  /\ conn' = IF ok THEN "open" ELSE "nil"
  /\ Select(k)
  /\ UNCHANGED <<ref, gen, live, orphans, failed, userVars, side, jump, cut, isKeepAlive, drops>>

-----------------------------------------------------------------------------
NewSSH(u) == Reuse(u) \/ StartDial(u) \/ DialSucceeds(u) \/ DialFails(u)

UserStep(u) ==
  \/ StopUser(u) \/ Leave(u) \/ AcceptFails(u) \/ BindFails(u)
  \/ ProxyWatch(u) \/ ForwardAcceptFails(u) \/ ForwardListenFails(u)
  \/ DialRemote(u) \/ CloseRemote(u)

KeeperStep(k) ==
  \/ KeeperChecks(k) \/ KeeperStarts(k) \/ KeeperEnds(k) \/ Tick(k)
  \/ CheckPasses(k) \/ CheckFails(k) \/ Keep(k)
  \/ \E ok \in BOOLEAN : Redial(k, ok)

Next ==
  \/ \E u \in Users : NewSSH(u) \/ UserStep(u) \/ \E g \in Routines : Close(u, g)
  \/ \E k \in Gens : KeeperStep(k)
  \/ PeerDrops

\* The scheduler runs ready goroutines, timers fire, a dial ends, and one that
\* is repeated for ever succeeds some time; a select with two ready cases picks
\* each of them some time.  Nothing is assumed of the users.
Fairness ==
  /\ \A u \in Users : WF_vars(DialSucceeds(u) \/ DialFails(u))
  /\ \A k \in Gens : /\ WF_vars(KeeperStep(k))
                     /\ SF_vars(KeeperEnds(k)) /\ SF_vars(Keep(k))
                     /\ SF_vars(Redial(k, TRUE))

Spec == Init /\ [][Next]_vars
FairSpec == Spec /\ Fairness

-----------------------------------------------------------------------------
(* Properties.                                                             *)

\* Those whom NewSSH handed the connection and who have not closed it.
Holders == {u \in Users : user[u] \in {"using", "left"} /\ closes[u] = 0}

\* Somebody closed more often than it acquired.
OverReleased == \E u \in Users : closes[u] > 1

\* NewSSH and Close under any interleaving with dials and keepalive: ref is the
\* number of holders until a user closes twice.
RefCountsHolders == OverReleased \/ ref = Cardinality(Holders)

\* Only a second Close of some user can close the connection under a holder; the
\* keepalive's own close is made up for before it lets go of the mutex.
ClosedUnderHolder ==
  mt = "free" /\ conn = "closed" /\ Holders # {} => OverReleased

\* keep may find out that the connection is dead while the last user closes it
\* (ssh.go:344): it never opens one that nobody holds.
NoneOpenUnheld ==
  mt = "free" /\ conn = "open" /\ Holders = {} => OverReleased

\* The client is open while it is held, and no longer, until somebody closes twice.
OpenWhileHeld == ClosedUnderHolder /\ NoneOpenUnheld

\* The context that ends keepalive, and that holds the process's WaitGroup,
\* lasts while the connection is counted, unless a remote instance, which
\* shares it, was closed.
ContextWhileHeld == ref > 0 /\ gen \notin live => cut

\* A context is left over, and holds up the process's exit, only by a failed
\* dial or a negative count.
ContextLeftOver ==
  mt = "free" /\ (live \ {gen} # {} \/ (ref <= 0 /\ live # {})) => failed > 0 \/ OverReleased

\* During the first use of the instance a keepalive goroutine is at work: it neither
\* finds another one at it nor misses the client, and only a remote instance's
\* Close ends it (ssh.go:317).
KeptAlive == gen = 1 /\ ref > 0 => keeper[1] \notin {"none", "over"} \/ cut

\* The context, and the keepalive that it ends, begin and end with the use of the
\* connection; keepalive is not started again for the next use.
ContextFollowsUse == ContextWhileHeld /\ ContextLeftOver /\ KeptAlive

\* A client is dropped without being closed only after an over-release.
OrphanNeedsOverRelease == orphans > 0 => OverReleased

\* Until the instance is opened a second time, keepalive reconnects.
Reconnects ==
  (conn = "dropped" /\ ref > 0 /\ gen = 1)
    ~> (conn = "open" \/ ref <= 0 \/ cut \/ gen > 1)

\* When the last user is gone and nobody comes back, keepalive ends.
KeepersEnd ==
  \A k \in Gens :
    [](gen = MaxDials /\ live = {} => <>(keeper[k] \in {"none", "over"}))

\* ssh.go:105, Close: the connection is closed when the count gets to zero.
HeldIsOpen == \A u \in Users :
  mt = "free" /\ user[u] = "using" /\ u \notin stop => conn # "closed"
=============================================================================
