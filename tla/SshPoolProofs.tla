--------------------------- MODULE SshPoolProofs ----------------------------
(***************************************************************************)
(* Theorems about SshPool, for any finite set of users and any number of   *)
(* dials and drops.                                                        *)
(***************************************************************************)
EXTENDS SshPool, FiniteSetTheorems, TLAPS

Before == {"idle", "dialing", "failed"}

\* A user that has no connection yet has closed nothing and is about to close
\* nothing.
Fresh(u) ==
  user[u] \in Before =>
    closes[u] = 0 /\ side[u] = "off" /\ owed[u]["body"] = 0 /\ owed[u]["side"] = 0

\* The body of a user closes at most twice and its other goroutine once.
Budget(u) ==
  closes[u] + owed[u]["body"] + owed[u]["side"]
    <= (IF user[u] = "left" THEN 2 ELSE 0) + (IF side[u] = "over" THEN 1 ELSE 0)

\* Who holds the mutex over a dial is dialing.
Dialer(u) == mt = u => user[u] = "dialing"

Typed == TypeOK /\ \A u \in Users : Fresh(u) /\ Budget(u) /\ Dialer(u)

LEMMA UsersTyped ==
  /\ "free" \notin Users /\ "keep" \notin Users /\ IsFiniteSet(Users)
  /\ Direct \subseteq Users /\ Proxies \subseteq Users /\ Forwards \subseteq Users
BY UsersAssumption DEF Users

LEMMA BrokenTyped ==
  ASSUME TypeOK
  PROVE  /\ Broken \in [Users -> {"off", "running", "broken", "over"}]
         /\ \A u \in Users : /\ Broken[u] = "over" <=> side[u] = "over"
                             /\ side[u] = "off" => Broken[u] = "off"
BY DEF TypeOK, Broken

LEMMA HangupTyped == Hangup \in {"nil", "closed"}
BY DEF Hangup

-----------------------------------------------------------------------------
(* Type correctness, action by action.                                     *)

LEMMA TypedInit == Init => Typed
<1> SUFFICES ASSUME Init PROVE Typed
  OBVIOUS
<1>1. TypeOK
  <2>1. /\ owed \in [Users -> [Routines -> 0..2]] /\ closes \in [Users -> 0..3]
        /\ user \in [Users -> {"idle", "dialing", "failed", "using", "left"}]
        /\ side \in [Users -> {"off", "running", "broken", "over"}]
    BY DEF Init
  <2>2. /\ keeper \in [Gens -> Keepers] /\ watch \in [Gens -> 0..MaxDials]
        /\ jump \in [Users -> 0..MaxDials] /\ gen \in 0..MaxDials /\ drops \in 0..MaxDrops
    BY BoundsAssumption DEF Init, Keepers
  <2>3. /\ ref \in Int /\ live \subseteq Gens /\ orphans \in Nat /\ failed \in Nat /\ stop \subseteq Users
        /\ conn \in {"nil", "open", "dropped", "closed"} /\ mt \in {"free", "keep"} \cup Users
    BY DEF Init
  <2>4. isKeepAlive \in BOOLEAN /\ cut \in BOOLEAN
    BY DEF Init
  <2> QED BY <2>1, <2>2, <2>3, <2>4 DEF TypeOK
<1>2. ASSUME NEW u \in Users PROVE Fresh(u) /\ Budget(u) /\ Dialer(u)
  BY UsersTyped DEF Init, Fresh, Budget, Dialer, Routines
<1> QED BY <1>1, <1>2 DEF Typed

\* A step of user u in which the other users keep what Typed says of them.
Others(u) ==
  \A v \in Users \ {u} :
    /\ user'[v] = user[v] /\ closes'[v] = closes[v] /\ owed'[v] = owed[v]
    /\ side'[v] = side[v] \/ side'[v] = Broken[v]
    /\ mt' = mt \/ mt' # v

LEMMA OthersTyped ==
  ASSUME Typed, NEW u \in Users, Others(u)
  PROVE  \A v \in Users \ {u} : Fresh(v)' /\ Budget(v)' /\ Dialer(v)'
<1> TAKE v \in Users \ {u}
<1>1. Fresh(v) /\ Budget(v) /\ Dialer(v) /\ TypeOK
  BY DEF Typed
<1>2. /\ user'[v] = user[v] /\ closes'[v] = closes[v] /\ owed'[v] = owed[v]
      /\ side[v] = "off" => side'[v] = "off"
      /\ side'[v] = "over" <=> side[v] = "over"
      /\ mt' = mt \/ mt' # v
  BY <1>1, BrokenTyped DEF Others
<1>3. Fresh(v)'
  BY <1>1, <1>2 DEF Fresh, Before
<1>4. Budget(v)'
  BY <1>1, <1>2 DEF Budget
<1>5. Dialer(v)'
  BY <1>1, <1>2 DEF Dialer
<1> QED BY <1>3, <1>4, <1>5

LEMMA TypedNewSSH == ASSUME NEW u \in Users PROVE Typed /\ NewSSH(u) => Typed'
<1> SUFFICES ASSUME Typed, NewSSH(u) PROVE Typed'
  OBVIOUS
<1> USE UsersTyped DEF instVars, userVars, keepVars
<1>1. TypeOK /\ Fresh(u) /\ Budget(u) /\ Dialer(u)
  BY DEF Typed
<1>2. CASE Reuse(u)
  <2>1. TypeOK'
    BY <1>1, <1>2 DEF Reuse, Use, TypeOK
  <2>2. Others(u)
    BY <1>1, <1>2 DEF Reuse, Use, Others, TypeOK
  <2>3. Fresh(u)' /\ Budget(u)' /\ Dialer(u)'
    BY <1>1, <1>2 DEF Reuse, Use, Fresh, Budget, Dialer, Before, TypeOK
  <2> QED BY <2>1, <2>2, <2>3, OthersTyped DEF Typed
<1>3. CASE StartDial(u)
  <2>1. TypeOK'
    BY <1>1, <1>3, BoundsAssumption DEF StartDial, TypeOK, Gens
  <2>2. Others(u)
    BY <1>1, <1>3 DEF StartDial, Others, TypeOK
  <2>3. Fresh(u)' /\ Budget(u)' /\ Dialer(u)'
    BY <1>1, <1>3 DEF StartDial, Fresh, Budget, Dialer, Before, TypeOK
  <2> QED BY <2>1, <2>2, <2>3, OthersTyped DEF Typed
<1>4. CASE DialSucceeds(u)
  <2>1. TypeOK'
    <3>1. keeper' \in [Gens -> Keepers]
      BY <1>1, <1>4 DEF DialSucceeds, TypeOK, Keepers
    <3>2. /\ user' \in [Users -> {"idle", "dialing", "failed", "using", "left"}]
          /\ side' \in [Users -> {"off", "running", "broken", "over"}]
      BY <1>1, <1>4 DEF DialSucceeds, Use, TypeOK
    <3> QED BY <1>1, <1>4, <3>1, <3>2 DEF DialSucceeds, TypeOK
  <2>2. Others(u)
    BY <1>1, <1>4 DEF DialSucceeds, Use, Others, TypeOK
  <2>3. Fresh(u)' /\ Budget(u)' /\ Dialer(u)'
    BY <1>1, <1>4 DEF DialSucceeds, Use, Fresh, Budget, Dialer, Before, TypeOK
  <2> QED BY <2>1, <2>2, <2>3, OthersTyped DEF Typed
<1>5. CASE DialFails(u)
  <2>1. TypeOK'
    BY <1>1, <1>5 DEF DialFails, TypeOK
  <2>2. Others(u)
    BY <1>1, <1>5 DEF DialFails, Others, TypeOK
  <2>3. Fresh(u)' /\ Budget(u)' /\ Dialer(u)'
    BY <1>1, <1>5 DEF DialFails, Fresh, Budget, Dialer, Before, TypeOK
  <2> QED BY <2>1, <2>2, <2>3, OthersTyped DEF Typed
<1> QED BY <1>2, <1>3, <1>4, <1>5 DEF NewSSH

\* A goroutine of u makes one of the calls it owes.
LEMMA TypedClose == ASSUME NEW u \in Users, NEW g \in Routines PROVE Typed /\ Close(u, g) => Typed'
<1> SUFFICES ASSUME Typed, Close(u, g) PROVE Typed'
  OBVIOUS
<1> USE UsersTyped, BrokenTyped, HangupTyped DEF keepVars
<1>1. TypeOK /\ Fresh(u) /\ Budget(u) /\ Dialer(u)
  BY DEF Typed
<1>2. /\ closes[u] \in Nat /\ owed[u]["body"] \in 0..2 /\ owed[u]["side"] \in 0..2
      /\ owed[u][g] \in 1..2 /\ g \in {"body", "side"}
  BY <1>1 DEF TypeOK, Close, Routines
<1>3. /\ closes' = [closes EXCEPT ![u] = closes[u] + 1]
      /\ owed' = [owed EXCEPT ![u] = [owed[u] EXCEPT ![g] = owed[u][g] - 1]]
      /\ user' = user /\ mt' = mt /\ side' \in {side, Broken}
  BY DEF Close
<1>4. /\ closes'[u] = closes[u] + 1
      /\ owed'[u]["body"] + owed'[u]["side"] = owed[u]["body"] + owed[u]["side"] - 1
      /\ owed'[u]["body"] \in 0..2 /\ owed'[u]["side"] \in 0..2
  BY <1>1, <1>2, <1>3 DEF TypeOK, Routines
<1>5. Fresh(u)' /\ Dialer(u)'
  <2>1. user[u] \notin Before
    BY <1>1, <1>2 DEF Fresh
  <2> QED BY <1>1, <1>3, <2>1 DEF Fresh, Dialer
<1>6. Budget(u)'
  <2>1. side'[u] = "over" <=> side[u] = "over"
    BY <1>1, <1>3
  <2> QED BY <1>1, <1>2, <1>3, <1>4, <2>1 DEF Budget
<1>7. closes'[u] \in 0..3
  BY <1>2, <1>3, <1>4, <1>6 DEF Budget
<1>8. TypeOK'
  <2>1. closes' \in [Users -> 0..3]
    BY <1>1, <1>3, <1>7 DEF TypeOK
  <2>2. owed' \in [Users -> [Routines -> 0..2]]
    BY <1>1, <1>2, <1>3 DEF TypeOK
  <2>3. side' \in [Users -> {"off", "running", "broken", "over"}]
    BY <1>1, <1>3 DEF TypeOK
  <2> QED BY <1>1, <2>1, <2>2, <2>3 DEF Close, TypeOK
<1>9. Others(u)
  BY <1>1, <1>3 DEF Others, TypeOK
<1> QED BY <1>5, <1>6, <1>8, <1>9, OthersTyped DEF Typed

\* A step that neither touches a user nor the mutex, but may break listeners.
LEMMA TypedAround ==
  ASSUME Typed, TypeOK', UNCHANGED userVars, side' \in {side, Broken}, mt' \in {mt, "free", "keep"}
  PROVE  Typed'
<1> SUFFICES ASSUME NEW v \in Users PROVE Fresh(v)' /\ Budget(v)' /\ Dialer(v)'
  BY DEF Typed
<1>1. Fresh(v) /\ Budget(v) /\ Dialer(v) /\ TypeOK
  BY DEF Typed
<1>2. /\ side[v] = "off" => side'[v] = "off"
      /\ side'[v] = "over" <=> side[v] = "over"
  BY <1>1, BrokenTyped
<1>3. user' = user /\ closes' = closes /\ owed' = owed /\ (mt' = v => mt = v)
  BY UsersTyped DEF userVars
<1> QED BY <1>1, <1>2, <1>3 DEF Fresh, Budget, Dialer

LEMMA OweTyped ==
  ASSUME TypeOK, NEW u \in Users, NEW g \in Routines, NEW n \in 0..2, Owe(u, g, n)
  PROVE  owed' \in [Users -> [Routines -> 0..2]]
BY DEF TypeOK, Owe

LEMMA TypedUser == ASSUME NEW u \in Users PROVE Typed /\ UserStep(u) => Typed'
<1> SUFFICES ASSUME Typed, UserStep(u) PROVE Typed'
  OBVIOUS
<1> USE UsersTyped DEF instVars, userVars, keepVars
<1>1. TypeOK /\ Fresh(u) /\ Budget(u) /\ Dialer(u)
  BY DEF Typed
<1>2. /\ closes[u] \in Nat /\ owed[u]["body"] \in 0..2 /\ owed[u]["side"] \in 0..2
  BY <1>1 DEF TypeOK, Routines
<1>3. CASE StopUser(u)
  <2>1. TypeOK'
    BY <1>1, <1>3 DEF StopUser, TypeOK
  <2>2. UNCHANGED <<user, owed, closes, side, mt>>
    BY <1>3 DEF StopUser
  <2> QED BY <2>1, <2>2 DEF Typed, Fresh, Budget, Dialer
<1>4. CASE Leave(u)
  <2>1. owed'[u]["body"] = 1 /\ owed'[u]["side"] = owed[u]["side"]
    BY <1>1, <1>4 DEF Leave, Owe, TypeOK, Routines
  <2>2. TypeOK'
    <3>1. owed' \in [Users -> [Routines -> 0..2]]
      BY <1>1, <1>4, OweTyped DEF Leave, Routines
    <3> QED BY <1>1, <1>4, <3>1 DEF Leave, TypeOK
  <2>3. Others(u) /\ Fresh(u)' /\ Dialer(u)'
    BY <1>1, <1>4 DEF Leave, Owe, TypeOK, Others, Fresh, Dialer, Before
  <2>4. Budget(u)'
    BY <1>1, <1>2, <1>4, <2>1 DEF Leave, Budget, TypeOK
  <2> QED BY <2>2, <2>3, <2>4, OthersTyped DEF Typed
<1>5. CASE AcceptFails(u)
  <2>1. owed'[u]["body"] = 2 /\ owed'[u]["side"] = owed[u]["side"]
    BY <1>1, <1>5 DEF AcceptFails, Owe, TypeOK, Routines
  <2>2. TypeOK'
    <3>1. owed' \in [Users -> [Routines -> 0..2]]
      BY <1>1, <1>5, OweTyped DEF AcceptFails, Routines
    <3> QED BY <1>1, <1>5, <3>1 DEF AcceptFails, TypeOK
  <2>3. Others(u) /\ Fresh(u)' /\ Dialer(u)'
    BY <1>1, <1>5 DEF AcceptFails, Owe, TypeOK, Others, Fresh, Dialer, Before
  <2>4. Budget(u)'
    BY <1>1, <1>2, <1>5, <2>1 DEF AcceptFails, Budget, TypeOK
  <2> QED BY <2>2, <2>3, <2>4, OthersTyped DEF Typed
<1>6. CASE BindFails(u)
  <2>1. owed'[u]["body"] = 1 /\ owed'[u]["side"] = owed[u]["side"]
    BY <1>1, <1>6 DEF BindFails, Owe, TypeOK, Routines
  <2>2. TypeOK'
    <3>1. owed' \in [Users -> [Routines -> 0..2]]
      BY <1>1, <1>6, OweTyped DEF BindFails, Routines
    <3> QED BY <1>1, <1>6, <3>1 DEF BindFails, TypeOK
  <2>3. Others(u) /\ Fresh(u)' /\ Dialer(u)'
    BY <1>1, <1>6 DEF BindFails, Owe, TypeOK, Others, Fresh, Dialer, Before
  <2>4. Budget(u)'
    BY <1>1, <1>2, <1>6, <2>1 DEF BindFails, Budget, TypeOK
  <2> QED BY <2>2, <2>3, <2>4, OthersTyped DEF Typed
<1>7. CASE ProxyWatch(u)
  <2>1. owed'[u]["side"] = 1 /\ owed'[u]["body"] = owed[u]["body"]
    BY <1>1, <1>7 DEF ProxyWatch, Owe, TypeOK, Routines
  <2>2. TypeOK'
    <3>1. owed' \in [Users -> [Routines -> 0..2]]
      BY <1>1, <1>7, OweTyped DEF ProxyWatch, Routines
    <3> QED BY <1>1, <1>7, <3>1 DEF ProxyWatch, TypeOK
  <2>3. Others(u) /\ Fresh(u)' /\ Dialer(u)'
    BY <1>1, <1>7 DEF ProxyWatch, Owe, TypeOK, Others, Fresh, Dialer, Before
  <2>4. Budget(u)'
    BY <1>1, <1>2, <1>7, <2>1 DEF ProxyWatch, Budget, TypeOK
  <2> QED BY <2>2, <2>3, <2>4, OthersTyped DEF Typed
<1>8. CASE ForwardAcceptFails(u)
  <2>1. owed'[u]["side"] = 1 /\ owed'[u]["body"] = owed[u]["body"]
    BY <1>1, <1>8 DEF ForwardAcceptFails, Owe, TypeOK, Routines
  <2>2. TypeOK'
    <3>1. owed' \in [Users -> [Routines -> 0..2]]
      BY <1>1, <1>8, OweTyped DEF ForwardAcceptFails, Routines
    <3> QED BY <1>1, <1>8, <3>1 DEF ForwardAcceptFails, TypeOK
  <2>3. Others(u) /\ Fresh(u)' /\ Dialer(u)'
    BY <1>1, <1>8 DEF ForwardAcceptFails, Owe, TypeOK, Others, Fresh, Dialer, Before
  <2>4. Budget(u)'
    BY <1>1, <1>2, <1>8, <2>1 DEF ForwardAcceptFails, Budget, TypeOK
  <2> QED BY <2>2, <2>3, <2>4, OthersTyped DEF Typed
<1>9. CASE ForwardListenFails(u)
  <2>1. TypeOK' /\ Others(u) /\ Fresh(u)' /\ Dialer(u)'
    BY <1>1, <1>9 DEF ForwardListenFails, TypeOK, Others, Fresh, Dialer, Before
  <2>2. Budget(u)'
    BY <1>1, <1>2, <1>9 DEF ForwardListenFails, Budget, TypeOK
  <2> QED BY <2>1, <2>2, OthersTyped DEF Typed
<1>10. CASE DialRemote(u)
  <2>1. TypeOK'
    BY <1>1, <1>10 DEF DialRemote, TypeOK
  <2> QED BY <1>10, <2>1, TypedAround DEF DialRemote
<1>11. CASE CloseRemote(u)
  <2>1. TypeOK'
    BY <1>1, <1>11, BoundsAssumption DEF CloseRemote, TypeOK
  <2> QED BY <1>11, <2>1, TypedAround DEF CloseRemote
<1> QED BY <1>3, <1>4, <1>5, <1>6, <1>7, <1>8, <1>9, <1>10, <1>11 DEF UserStep

LEMMA TypedDrop == Typed /\ PeerDrops => Typed'
<1> SUFFICES ASSUME Typed, PeerDrops PROVE Typed'
  OBVIOUS
<1>1. TypeOK /\ MaxDrops \in Nat
  BY BoundsAssumption DEF Typed
<1>2. TypeOK'
  BY <1>1, BrokenTyped DEF PeerDrops, TypeOK, userVars, keepVars
<1> QED BY <1>2, TypedAround DEF PeerDrops

LEMMA TypedKeeper == ASSUME NEW k \in Gens PROVE Typed /\ KeeperStep(k) => Typed'
<1> SUFFICES ASSUME Typed, KeeperStep(k) PROVE Typed'
  OBVIOUS
<1>1. TypeOK
  BY DEF Typed
<1>2. /\ isKeepAlive' \in BOOLEAN
      /\ keeper' \in [Gens -> Keepers] /\ watch' \in [Gens -> 0..MaxDials]
  BY <1>1 DEF KeeperStep, KeeperChecks, KeeperStarts, KeeperEnds, Tick, CheckPasses, CheckFails,
              Keep, Redial, Select, TypeOK, Keepers
<1>3. /\ mt' \in {mt, "free", "keep"} /\ side' \in {side, Broken}
      /\ conn' \in {conn, Hangup, "open", "nil"}
      /\ UNCHANGED <<userVars, ref, gen, live, orphans, failed, jump, cut, drops>>
  BY DEF KeeperStep, KeeperChecks, KeeperStarts, KeeperEnds, Tick, CheckPasses, CheckFails,
         Keep, Redial, instVars
<1>4. TypeOK'
  BY <1>1, <1>2, <1>3, BrokenTyped, HangupTyped DEF TypeOK, userVars
<1> QED BY <1>3, <1>4, TypedAround

LEMMA TypedStep == Typed /\ [Next]_vars => Typed'
<1> SUFFICES ASSUME Typed, [Next]_vars PROVE Typed'
  OBVIOUS
<1>1. CASE UNCHANGED vars
  BY <1>1 DEF vars, instVars, userVars, keepVars, Typed, TypeOK, Fresh, Budget, Dialer
<1>2. CASE Next
  BY <1>2, TypedNewSSH, TypedUser, TypedClose, TypedKeeper, TypedDrop DEF Next
<1> QED BY <1>1, <1>2

\* Every variable of the instance, of its users and of keepalive stays in its
\* range; in particular nobody closes more than three times.
THEOREM TypeCorrect == Spec => []TypeOK
<1>1. Spec => []Typed
  BY TypedInit, TypedStep, PTL DEF Spec
<1>2. Typed => TypeOK
  BY DEF Typed
<1> QED BY <1>1, <1>2, PTL

-----------------------------------------------------------------------------
(* The reference count.                                                    *)

Joins == \E u \in Users : Reuse(u) \/ DialSucceeds(u)
Releases == \E u \in Users, g \in Routines : Close(u, g)
Stays == ref' = ref /\ closes' = closes /\ Holders' = Holders

LEMMA HoldersFinite ==
  IsFiniteSet(Holders) /\ Cardinality(Holders) \in Nat /\ (Holders # {} <=> Cardinality(Holders) > 0)
<1>1. Holders \subseteq Users
  BY DEF Holders
<1>2. IsFiniteSet(Holders)
  BY <1>1, UsersTyped, FS_Subset
<1> QED BY <1>2, FS_CardinalityType, FS_EmptySet

LEMMA UserStays == ASSUME NEW u \in Users PROVE Typed /\ UserStep(u) => Stays
<1> SUFFICES ASSUME Typed, UserStep(u) PROVE Stays
  OBVIOUS
<1>1. user \in [Users -> {"idle", "dialing", "failed", "using", "left"}]
  BY DEF Typed, TypeOK
<1>2. ref' = ref /\ closes' = closes
  BY DEF UserStep, StopUser, Leave, AcceptFails, BindFails, ProxyWatch, ForwardAcceptFails,
         ForwardListenFails, DialRemote, CloseRemote, instVars, userVars
<1>3. user' = user \/ (user[u] = "using" /\ user' = [user EXCEPT ![u] = "left"])
  BY DEF UserStep, StopUser, Leave, AcceptFails, BindFails, ProxyWatch, ForwardAcceptFails,
         ForwardListenFails, DialRemote, CloseRemote, instVars, userVars
<1> QED BY <1>1, <1>2, <1>3 DEF Stays, Holders

LEMMA KeeperQuiet ==
  ASSUME NEW k \in Gens, KeeperStep(k)
  PROVE  UNCHANGED <<userVars, ref, gen, live, orphans, failed, cut>>
BY DEF KeeperStep, KeeperChecks, KeeperStarts, KeeperEnds, Tick, CheckPasses, CheckFails,
       Keep, Redial, instVars

LEMMA Moves == Typed /\ [Next]_vars => Joins \/ Releases \/ Stays
<1> SUFFICES ASSUME Typed, [Next]_vars PROVE Joins \/ Releases \/ Stays
  OBVIOUS
<1>1. CASE UNCHANGED vars
  BY <1>1 DEF vars, instVars, userVars, Stays, Holders
<1>2. ASSUME NEW u \in Users, NewSSH(u) PROVE Joins \/ Releases \/ Stays
  <2>1. user \in [Users -> {"idle", "dialing", "failed", "using", "left"}] /\ Dialer(u)
    BY DEF Typed, TypeOK
  <2>2. CASE StartDial(u)
    BY <2>1, <2>2 DEF StartDial, Stays, Holders
  <2>3. CASE DialFails(u)
    BY <2>1, <2>3 DEF DialFails, Stays, Holders, Dialer
  <2> QED BY <1>2, <2>2, <2>3 DEF NewSSH, Joins
<1>3. ASSUME NEW k \in Gens, KeeperStep(k) PROVE Stays
  BY <1>3, KeeperQuiet DEF userVars, Stays, Holders
<1>4. CASE PeerDrops
  BY <1>4 DEF PeerDrops, userVars, Stays, Holders
<1> QED BY <1>1, <1>2, <1>3, <1>4, UserStays DEF Next, Releases

LEMMA JoinCounts ==
  ASSUME Typed, Joins
  PROVE  /\ ref' = ref + 1 /\ closes' = closes
         /\ Cardinality(Holders') = Cardinality(Holders) + 1
<1>1. PICK u \in Users : Reuse(u) \/ DialSucceeds(u)
  BY DEF Joins
<1>2. /\ user \in [Users -> {"idle", "dialing", "failed", "using", "left"}]
      /\ Dialer(u) /\ Fresh(u)
  BY DEF Typed, TypeOK
<1>3. /\ user[u] \in Before /\ user' = [user EXCEPT ![u] = "using"]
      /\ ref' = ref + 1 /\ closes' = closes
  BY <1>1, <1>2 DEF Reuse, DialSucceeds, Use, Dialer, Before
<1>4. u \notin Holders /\ Holders' = Holders \cup {u}
  BY <1>2, <1>3 DEF Holders, Fresh, Before
<1> QED BY <1>3, <1>4, HoldersFinite, FS_AddElement

LEMMA ReleaseCounts ==
  ASSUME Typed, Releases, ~OverReleased'
  PROVE  /\ ref' = ref - 1 /\ ~OverReleased
         /\ Cardinality(Holders') = Cardinality(Holders) - 1
<1>1. PICK u \in Users, g \in Routines : Close(u, g)
  BY DEF Releases
<1>2. Fresh(u) /\ closes \in [Users -> 0..3] /\ owed \in [Users -> [Routines -> 0..2]]
      /\ user \in [Users -> {"idle", "dialing", "failed", "using", "left"}]
  BY DEF Typed, TypeOK
<1>3. /\ owed[u][g] > 0 /\ user' = user /\ ref' = ref - 1
      /\ closes' = [closes EXCEPT ![u] = closes[u] + 1]
  BY <1>1 DEF Close
<1>4. closes[u] = 0
  BY <1>2, <1>3 DEF OverReleased
<1>5. ~OverReleased
  BY <1>2, <1>3, <1>4 DEF OverReleased
<1>6. u \in Holders
  BY <1>2, <1>3, <1>4 DEF Holders, Fresh, Before, Routines
<1>7. Holders' = Holders \ {u}
  BY <1>2, <1>3, <1>4 DEF Holders
<1> QED BY <1>3, <1>5, <1>6, <1>7, HoldersFinite, FS_RemoveElement

\* Closes are never taken back.
LEMMA OverReleaseStays == Typed /\ [Next]_vars /\ OverReleased => OverReleased'
<1> SUFFICES ASSUME Typed, [Next]_vars, OverReleased PROVE OverReleased'
  OBVIOUS
<1>1. CASE Releases
  BY <1>1, ReleaseCounts
<1>2. CASE Joins \/ Stays
  BY <1>2, JoinCounts DEF Stays, OverReleased
<1> QED BY <1>1, <1>2, Moves

LEMMA CountStep == Typed /\ RefCountsHolders /\ [Next]_vars => RefCountsHolders'
<1> SUFFICES ASSUME Typed, RefCountsHolders, [Next]_vars, ~OverReleased'
             PROVE  ref' = Cardinality(Holders')
  BY DEF RefCountsHolders
<1>1. ~OverReleased /\ ref = Cardinality(Holders) /\ Cardinality(Holders) \in Nat
  BY OverReleaseStays, HoldersFinite DEF RefCountsHolders
<1>2. CASE Joins
  BY <1>1, <1>2, JoinCounts
<1>3. CASE Releases
  BY <1>1, <1>3, ReleaseCounts
<1>4. CASE Stays
  BY <1>1, <1>4 DEF Stays
<1> QED BY <1>2, <1>3, <1>4, Moves

LEMMA CountInit == Init => RefCountsHolders
<1> SUFFICES ASSUME Init PROVE Cardinality(Holders) = 0
  BY DEF Init, RefCountsHolders
<1>1. Holders = {}
  BY DEF Init, Holders
<1> QED BY <1>1, FS_EmptySet

\* ref is the number of users that were handed the connection and have not
\* closed it, until one of them closes twice (NewSSH, SSH.Close).
THEOREM References == Spec => []RefCountsHolders
<1>1. Spec => [](Typed /\ RefCountsHolders)
  BY TypedInit, TypedStep, CountInit, CountStep, PTL DEF Spec
<1> QED BY <1>1, PTL

-----------------------------------------------------------------------------
(* The connection and its context.                                         *)

\* One keepalive goroutine at a time dials, and it holds the mutex.
OneRedial ==
  \A k \in Gens : keeper[k] = "redial" =>
    mt = "keep" /\ \A l \in Gens : keeper[l] = "redial" => l = k

\* Between two dials the client is open while, and only while, it is counted.
ClientFollowsCount ==
  /\ mt = "free" /\ conn = "closed" => ref <= 0
  /\ mt = "free" /\ conn = "open" => ref > 0 \/ OverReleased
  /\ mt \in Users /\ conn = "open" => OverReleased
  /\ mt = "keep" => ref > 0

\* The context of a dial or of a counted connection lives.
ContextFollowsCount ==
  mt \in Users \/ ref > 0 => gen \in live \/ cut

\* No other context does.
OneContext ==
  failed > 0 \/ OverReleased \/
    (live \subseteq {gen} /\ (mt \notin Users /\ ref <= 0 => live = {}))

Linked ==
  /\ OneRedial /\ ClientFollowsCount /\ ContextFollowsCount /\ OneContext
  /\ OrphanNeedsOverRelease

Counted == Typed /\ RefCountsHolders

LEMMA LinkedInit == Init => Linked
BY UsersTyped DEF Init, Linked, OneRedial, ClientFollowsCount, ContextFollowsCount, OneContext,
                  OrphanNeedsOverRelease

LEMMA RefTyped == Typed => ref \in Int /\ failed \in Nat /\ orphans \in Nat /\ gen \in Nat /\ live \subseteq Nat
BY BoundsAssumption DEF Typed, TypeOK, Gens

LEMMA CountedNotNegative == Counted => OverReleased \/ ref >= 0
BY HoldersFinite DEF Counted, RefCountsHolders

LEMMA LinkedNewSSH == ASSUME NEW u \in Users PROVE Counted /\ Linked /\ NewSSH(u) => Linked'
<1> SUFFICES ASSUME Counted, Linked, NewSSH(u) PROVE Linked'
  OBVIOUS
<1> USE UsersTyped, RefTyped, CountedNotNegative DEF Counted
<1>1. /\ OverReleased' <=> OverReleased
  BY DEF NewSSH, Reuse, StartDial, DialSucceeds, DialFails, OverReleased, userVars
<1>2. CASE Reuse(u)
  BY <1>1, <1>2 DEF Reuse, Linked, OneRedial, ClientFollowsCount, ContextFollowsCount, OneContext,
                    OrphanNeedsOverRelease, keepVars
<1>3. CASE StartDial(u)
  <2>1. OneRedial' /\ ClientFollowsCount'
    BY <1>1, <1>3 DEF StartDial, Linked, OneRedial, ClientFollowsCount, keepVars
  <2>2. ContextFollowsCount' /\ OneContext' /\ OrphanNeedsOverRelease'
    BY <1>1, <1>3 DEF StartDial, Linked, ContextFollowsCount, OneContext, OrphanNeedsOverRelease
  <2> QED BY <2>1, <2>2 DEF Linked
<1>4. CASE DialSucceeds(u)
  <2>1. OneRedial'
    BY <1>4 DEF DialSucceeds, Linked, OneRedial, Typed, TypeOK
  <2>2. ClientFollowsCount'
    BY <1>1, <1>4 DEF DialSucceeds, Linked, ClientFollowsCount
  <2>3. ContextFollowsCount' /\ OneContext' /\ OrphanNeedsOverRelease'
    BY <1>1, <1>4 DEF DialSucceeds, Linked, ClientFollowsCount, ContextFollowsCount, OneContext,
                      OrphanNeedsOverRelease
  <2> QED BY <2>1, <2>2, <2>3 DEF Linked
<1>5. CASE DialFails(u)
  <2>1. OneRedial' /\ ClientFollowsCount'
    BY <1>1, <1>5 DEF DialFails, Linked, OneRedial, ClientFollowsCount, keepVars
  <2>2. ContextFollowsCount' /\ OneContext' /\ OrphanNeedsOverRelease'
    BY <1>1, <1>5 DEF DialFails, Linked, ClientFollowsCount, ContextFollowsCount, OneContext,
                      OrphanNeedsOverRelease
  <2> QED BY <2>1, <2>2 DEF Linked
<1> QED BY <1>2, <1>3, <1>4, <1>5 DEF NewSSH

LEMMA LinkedClose ==
  ASSUME NEW u \in Users, NEW g \in Routines PROVE Counted /\ Linked /\ Close(u, g) => Linked'
<1> SUFFICES ASSUME Counted, Linked, Close(u, g) PROVE Linked'
  OBVIOUS
<1> USE UsersTyped, RefTyped DEF Counted
<1>1. OverReleased => OverReleased'
  <2>1. Next
    BY DEF Next
  <2> QED BY <2>1, OverReleaseStays
<1>2. OneRedial'
  BY DEF Close, Linked, OneRedial, keepVars
<1>3. ClientFollowsCount'
  BY <1>1, HangupTyped DEF Close, Linked, ClientFollowsCount
<1>4. ContextFollowsCount' /\ OneContext' /\ OrphanNeedsOverRelease'
  BY <1>1 DEF Close, Linked, ContextFollowsCount, OneContext, OrphanNeedsOverRelease
<1> QED BY <1>2, <1>3, <1>4 DEF Linked

LEMMA LinkedUser == ASSUME NEW u \in Users PROVE Counted /\ Linked /\ UserStep(u) => Linked'
<1> SUFFICES ASSUME Counted, Linked, UserStep(u) PROVE Linked'
  OBVIOUS
<1>1. UNCHANGED <<ref, gen, conn, orphans, mt, failed, keeper, closes>>
  BY DEF UserStep, StopUser, Leave, AcceptFails, BindFails, ProxyWatch, ForwardAcceptFails,
         ForwardListenFails, DialRemote, CloseRemote, instVars, userVars, keepVars
<1>2. (live' = live /\ cut' = cut) \/ (live' \subseteq live /\ cut' = TRUE)
  BY DEF UserStep, StopUser, Leave, AcceptFails, BindFails, ProxyWatch, ForwardAcceptFails,
         ForwardListenFails, DialRemote, CloseRemote, instVars, userVars, keepVars
<1>3. OneRedial' /\ ClientFollowsCount' /\ OrphanNeedsOverRelease'
  BY <1>1 DEF Linked, OneRedial, ClientFollowsCount, OrphanNeedsOverRelease, OverReleased
<1>4. ContextFollowsCount' /\ OneContext'
  BY <1>1, <1>2 DEF Linked, ContextFollowsCount, OneContext, OverReleased
<1> QED BY <1>3, <1>4 DEF Linked

LEMMA LinkedKeeper == ASSUME NEW k \in Gens PROVE Counted /\ Linked /\ KeeperStep(k) => Linked'
<1> SUFFICES ASSUME Counted, Linked, KeeperStep(k) PROVE Linked'
  OBVIOUS
<1> USE UsersTyped, RefTyped DEF Counted
<1>1. UNCHANGED <<closes, ref, gen, live, orphans, failed, cut>>
  BY KeeperQuiet DEF userVars
<1>2. keeper \in [Gens -> Keepers]
  BY DEF Typed, TypeOK
<1>3. CASE UNCHANGED <<mt, conn>> /\ keeper[k] # "redial" /\ \E x \in Keepers \ {"redial"} : keeper' = [keeper EXCEPT ![k] = x]
  BY <1>1, <1>2, <1>3 DEF Linked, OneRedial, ClientFollowsCount, ContextFollowsCount, OneContext,
                          OrphanNeedsOverRelease, OverReleased
<1>4. CASE Keep(k) /\ ref > 0
  <2>1. /\ mt = "free" /\ mt' = "keep" /\ keeper' = [keeper EXCEPT ![k] = "redial"]
    BY <1>4, RefTyped DEF Keep
  <2> QED BY <1>1, <1>2, <1>4, <2>1
             DEF Linked, OneRedial, ClientFollowsCount, ContextFollowsCount, OneContext,
                 OrphanNeedsOverRelease, OverReleased
<1>5. ASSUME NEW ok \in BOOLEAN, Redial(k, ok) PROVE Linked'
  <2>1. /\ mt = "keep" /\ mt' = "free" /\ conn' \in {"open", "nil"}
        /\ keeper' = [keeper EXCEPT ![k] = "waiting"] /\ keeper[k] = "redial"
    BY <1>5 DEF Redial, Select, Linked, OneRedial
  <2>2. OneRedial'
    BY <1>2, <2>1 DEF Linked, OneRedial
  <2>3. ClientFollowsCount' /\ ContextFollowsCount' /\ OneContext' /\ OrphanNeedsOverRelease'
    BY <1>1, <2>1 DEF Linked, ClientFollowsCount, ContextFollowsCount, OneContext,
                      OrphanNeedsOverRelease, OverReleased
  <2> QED BY <2>2, <2>3 DEF Linked
<1>6. KeeperChecks(k) \/ KeeperStarts(k) \/ KeeperEnds(k) \/ Tick(k) \/ CheckPasses(k) \/ CheckFails(k)
        => UNCHANGED <<mt, conn>> /\ keeper[k] # "redial" /\ \E x \in Keepers \ {"redial"} : keeper' = [keeper EXCEPT ![k] = x]
  BY DEF KeeperChecks, KeeperStarts, KeeperEnds, Tick, CheckPasses, CheckFails, Select, Keepers, instVars
<1>7. Keep(k) /\ ~(ref > 0)
        => UNCHANGED <<mt, conn>> /\ keeper[k] # "redial" /\ \E x \in Keepers \ {"redial"} : keeper' = [keeper EXCEPT ![k] = x]
  BY DEF Keep, Select, Keepers
<1> QED BY <1>3, <1>4, <1>5, <1>6, <1>7 DEF KeeperStep

LEMMA LinkedDrop == Counted /\ Linked /\ PeerDrops => Linked'
BY UsersTyped, RefTyped
   DEF PeerDrops, Linked, OneRedial, ClientFollowsCount, ContextFollowsCount, OneContext,
       OrphanNeedsOverRelease, OverReleased, userVars, keepVars, Counted

LEMMA LinkedStep == Counted /\ Linked /\ [Next]_vars => Linked'
<1> SUFFICES ASSUME Counted, Linked, [Next]_vars PROVE Linked'
  OBVIOUS
<1>1. CASE UNCHANGED vars
  BY <1>1 DEF vars, instVars, userVars, keepVars, Linked, OneRedial, ClientFollowsCount,
              ContextFollowsCount, OneContext, OrphanNeedsOverRelease, OverReleased
<1> QED BY <1>1, LinkedNewSSH, LinkedClose, LinkedUser, LinkedKeeper, LinkedDrop DEF Next

LEMMA Invariance == Spec => [](Counted /\ Linked)
<1>1. Init => Counted
  BY TypedInit, CountInit DEF Counted
<1>2. Counted /\ [Next]_vars => Counted'
  BY TypedStep, CountStep DEF Counted
<1> QED BY <1>1, <1>2, LinkedInit, LinkedStep, PTL DEF Spec

\* The connection is not closed under a user that still holds it (SSH.Close,
\* SSH.keep), until some user has closed twice.
THEOREM NotClosedUnderHolder == Spec => []ClosedUnderHolder
<1>1. Counted /\ Linked => ClosedUnderHolder
  BY HoldersFinite, RefTyped DEF Counted, Linked, ClientFollowsCount, RefCountsHolders, ClosedUnderHolder
<1> QED BY <1>1, Invariance, PTL

\* keepalive never opens, and Close never leaves open, a connection nobody
\* holds, until some user has closed twice.
THEOREM NotOpenUnheld == Spec => []NoneOpenUnheld
<1>1. Counted /\ Linked => NoneOpenUnheld
  BY HoldersFinite, RefTyped DEF Counted, Linked, ClientFollowsCount, RefCountsHolders, NoneOpenUnheld
<1> QED BY <1>1, Invariance, PTL

\* The client is open exactly while it is held (NewSSH, SSH.Close, SSH.keep), until
\* some user has closed twice.
THEOREM HeldIsOpenOnly == Spec => []OpenWhileHeld
BY NotClosedUnderHolder, NotOpenUnheld, PTL DEF OpenWhileHeld

\* While the connection is counted its context lives, unless a remote instance
\* that shares it was closed (SSH.dialRemote, SSH.Close).
THEOREM ContextHeld == Spec => []ContextWhileHeld
<1>1. Counted /\ Linked => ContextWhileHeld
  BY DEF Linked, ContextFollowsCount, ContextWhileHeld
<1> QED BY <1>1, Invariance, PTL

\* What keeps the process from exiting is the context of a held connection, or
\* a dial failed, or some user closed twice (NewSSH, SSH.Close).
THEOREM NoContextLeft == Spec => []ContextLeftOver
<1>1. Counted /\ Linked => ContextLeftOver
  BY UsersTyped DEF Linked, OneContext, ContextLeftOver
<1> QED BY <1>1, Invariance, PTL

\* SSH.Dial overwrites an open client only after some user closed twice.
THEOREM NoOrphan == Spec => []OrphanNeedsOverRelease
<1>1. Linked => OrphanNeedsOverRelease
  BY DEF Linked
<1> QED BY <1>1, Invariance, PTL

-----------------------------------------------------------------------------
(* Keepalive during the first use of the instance.                         *)

\* Keepalive goroutines are started by dials that succeeded.
Unstarted ==
  /\ \A k \in Gens : k > gen => keeper[k] = "none"
  /\ mt \in Users => gen \in Gens /\ keeper[gen] = "none" /\ ref <= 0

\* The first of them finds nothing that would keep it from its select, and waits
\* for the first context there.
FirstAtWork ==
  /\ gen = 0 => ref <= 0 /\ ~isKeepAlive
  /\ gen = 1 =>
       /\ isKeepAlive => keeper[1] \notin {"none", "spawned", "passed"}
       /\ keeper[1] = "spawned" => conn # "nil"
       /\ keeper[1] = "waiting" => watch[1] = 1
       /\ ref > 0 => keeper[1] \notin {"none", "over"} \/ cut

AtWork == Unstarted /\ FirstAtWork

LEMMA AtWorkInit == Init => AtWork
BY UsersTyped DEF Init, AtWork, Unstarted, FirstAtWork

LEMMA KeepersTyped ==
  ASSUME Typed
  PROVE  /\ keeper \in [Gens -> Keepers] /\ watch \in [Gens -> 0..MaxDials]
         /\ gen \in Nat /\ gen <= MaxDials /\ MaxDials \in Nat /\ ref \in Int
         /\ \A k \in Gens : k \in Nat /\ k >= 1
BY BoundsAssumption DEF Typed, TypeOK, Gens

LEMMA AtWorkNewSSH == ASSUME NEW u \in Users PROVE Typed /\ AtWork /\ NewSSH(u) => AtWork'
<1> SUFFICES ASSUME Typed, AtWork, NewSSH(u) PROVE AtWork'
  OBVIOUS
<1> USE UsersTyped, KeepersTyped DEF AtWork
<1>1. CASE Reuse(u)
  BY <1>1 DEF Reuse, Unstarted, FirstAtWork, keepVars
<1>2. CASE StartDial(u)
  <2>1. gen' = gen + 1 /\ gen' \in Gens /\ ref' = ref /\ ref <= 0 /\ mt' = u
        /\ UNCHANGED <<keeper, watch, isKeepAlive, conn, cut>>
    BY <1>2 DEF StartDial, keepVars, Gens
  <2>2. keeper[gen'] = "none"
    BY <2>1 DEF Unstarted
  <2> QED BY <2>1, <2>2 DEF Unstarted, FirstAtWork
<1>3. CASE DialSucceeds(u)
  <2>1. /\ gen \in Gens /\ keeper[gen] = "none" /\ ref <= 0 /\ mt' = "free" /\ conn' = "open"
        /\ keeper' = [keeper EXCEPT ![gen] = "spawned"] /\ UNCHANGED <<gen, watch, isKeepAlive, cut>>
    BY <1>3 DEF DialSucceeds, Unstarted
  <2> QED BY <2>1 DEF Unstarted, FirstAtWork, Gens
<1>4. CASE DialFails(u)
  <2>1. /\ gen \in Gens /\ keeper[gen] = "none" /\ ref <= 0 /\ mt' = "free" /\ conn' = "nil"
        /\ UNCHANGED <<keeper, gen, ref, watch, isKeepAlive, cut>>
    BY <1>4 DEF DialFails, Unstarted, keepVars
  <2> QED BY <2>1 DEF Unstarted, FirstAtWork, Gens
<1> QED BY <1>1, <1>2, <1>3, <1>4 DEF NewSSH

\* Whoever else moves may take references and cut the context, but starts no dial.
LEMMA AtWorkAround ==
  ASSUME Typed, AtWork, UNCHANGED <<gen, keepVars>>,
         mt' = mt, mt \in Users => ref' = ref, ref' \in Int, ref' <= ref, cut => cut',
         conn' = "nil" => conn = "nil"
  PROVE  AtWork'
BY UsersTyped, KeepersTyped DEF AtWork, Unstarted, FirstAtWork, keepVars

LEMMA AtWorkOthers ==
  ASSUME Typed, AtWork,
         (\E u \in Users : UserStep(u) \/ \E g \in Routines : Close(u, g)) \/ PeerDrops
  PROVE  AtWork'
<1> USE UsersTyped, KeepersTyped
<1>1. ASSUME NEW u \in Users, UserStep(u) PROVE AtWork'
  <2>1. UNCHANGED <<gen, keepVars, mt, ref, conn>> /\ (cut => cut')
    BY <1>1 DEF UserStep, StopUser, Leave, AcceptFails, BindFails, ProxyWatch, ForwardAcceptFails,
                ForwardListenFails, DialRemote, CloseRemote, instVars
  <2> QED BY <2>1, AtWorkAround
<1>2. ASSUME NEW u \in Users, NEW g \in Routines, Close(u, g) PROVE AtWork'
  <2>1. /\ UNCHANGED <<gen, keepVars, mt, cut>> /\ mt = "free" /\ ref' = ref - 1
        /\ conn' = "nil" => conn = "nil"
    BY <1>2 DEF Close, Hangup
  <2> QED BY <2>1, AtWorkAround
<1>3. CASE PeerDrops
  <2>1. UNCHANGED <<gen, keepVars, mt, ref, cut>> /\ conn' = "dropped"
    BY <1>3 DEF PeerDrops
  <2> QED BY <2>1, AtWorkAround
<1> QED BY <1>1, <1>2, <1>3

LEMMA AtWorkKeeper == ASSUME NEW k \in Gens PROVE Typed /\ Linked /\ AtWork /\ KeeperStep(k) => AtWork'
<1> SUFFICES ASSUME Typed, Linked, AtWork, KeeperStep(k) PROVE AtWork'
  OBVIOUS
<1> USE UsersTyped, KeepersTyped DEF AtWork
<1>1. UNCHANGED <<ref, gen, live, cut>>
  BY KeeperQuiet
<1>2. keeper[k] # "none" /\ k <= gen /\ keeper' = [keeper EXCEPT ![k] = keeper'[k]] /\ keeper'[k] # "none"
  BY DEF KeeperStep, KeeperChecks, KeeperStarts, KeeperEnds, Tick, CheckPasses, CheckFails, Keep, Redial,
         Select, Unstarted
<1>3. mt' = mt \/ mt' \in {"free", "keep"}
  BY DEF KeeperStep, KeeperChecks, KeeperStarts, KeeperEnds, Tick, CheckPasses, CheckFails, Keep, Redial,
         instVars
<1>4. Unstarted'
  BY <1>1, <1>2, <1>3 DEF Unstarted
<1>5. ASSUME gen = 0 \/ gen = 1 PROVE FirstAtWork'
  <2>1. k = 1 /\ gen = 1
    BY <1>2, <1>5
  <2>2. CASE KeeperChecks(k)
    BY <1>1, <2>1, <2>2 DEF KeeperChecks, FirstAtWork, instVars
  <2>3. CASE KeeperStarts(k)
    BY <1>1, <2>1, <2>3 DEF KeeperStarts, Select, FirstAtWork, instVars
  <2>4. CASE KeeperEnds(k)
    <3>1. gen \notin live
      BY <2>1, <2>4 DEF KeeperEnds, FirstAtWork
    <3>2. ref > 0 => cut
      BY <3>1 DEF Linked, ContextFollowsCount
    <3> QED BY <1>1, <2>1, <2>4, <3>2 DEF KeeperEnds, FirstAtWork, instVars
  <2>5. CASE Tick(k) \/ CheckFails(k)
    BY <1>1, <2>1, <2>5 DEF Tick, CheckFails, FirstAtWork, instVars
  <2>6. CASE CheckPasses(k)
    BY <1>1, <2>1, <2>6 DEF CheckPasses, Select, FirstAtWork, instVars
  <2>7. CASE Keep(k)
    BY <1>1, <2>1, <2>7 DEF Keep, Select, FirstAtWork
  <2>8. ASSUME NEW ok \in BOOLEAN, Redial(k, ok) PROVE FirstAtWork'
    BY <1>1, <2>1, <2>8 DEF Redial, Select, FirstAtWork
  <2> QED BY <2>2, <2>3, <2>4, <2>5, <2>6, <2>7, <2>8 DEF KeeperStep
<1> QED BY <1>1, <1>4, <1>5 DEF FirstAtWork

LEMMA AtWorkStep == Counted /\ Linked /\ AtWork /\ [Next]_vars => AtWork'
<1> SUFFICES ASSUME Typed, Linked, AtWork, [Next]_vars PROVE AtWork'
  BY DEF Counted
<1>1. CASE UNCHANGED vars
  BY <1>1 DEF vars, instVars, keepVars, AtWork, Unstarted, FirstAtWork
<1>2. CASE Next
  BY <1>2, AtWorkNewSSH, AtWorkOthers, AtWorkKeeper DEF Next
<1> QED BY <1>1, <1>2

\* As long as the first connection is counted a keepalive goroutine is on its way to
\* the select, in it, or mending the connection, unless a remote instance ended it
\* (SSH.keepalive, SSH.keep).
THEOREM SomeoneKeepsAlive == Spec => []KeptAlive
<1>1. AtWork => KeptAlive
  BY DEF AtWork, FirstAtWork, KeptAlive
<1> QED BY <1>1, Invariance, AtWorkInit, AtWorkStep, PTL DEF Spec

\* The shared context, and the first keepalive that it ends, follow the use of the
\* connection (NewSSH, SSH.Close, SSH.keepalive).
THEOREM ContextOfUse == Spec => []ContextFollowsUse
BY ContextHeld, NoContextLeft, SomeoneKeepsAlive, PTL DEF ContextFollowsUse

=============================================================================
