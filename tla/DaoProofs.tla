----------------------------- MODULE DaoProofs ------------------------------
(***************************************************************************)
(* Theorems about Dao and the Engine it extends, for any sets of daos,     *)
(* DSNs, tables and models.                                                *)
(***************************************************************************)
EXTENDS Dao, SequenceTheorems, TLAPS

\* A call that still looks engines up has not got all of them.
Unfinished == \A d \in Daos : at[d] \in {"load", "store"} => Len(got[d]) < Len(Conf[d])

\* Every engine is among those of the call that made it.
MakersHave ==
  /\ \A s \in Dsns : engineMap[s] # NoEngine => engineMap[s] \in Range(got[engineMap[s][1]])
  /\ \A d \in Daos : \A e \in Range(got[d]) : e \in Range(got[e[1]])

\* Past its ping, a call has limited what it made.
MakersLimit ==
  \A d \in Daos : at[d] \in {"cacher", "open"} =>
    \A e \in Range(got[d]) : e[1] = d => e \in limited

EngineInv == EngineTypeOK /\ Unfinished /\ MakersHave /\ MakersLimit

LEMMA EngineFacts ==
  /\ \A e \in Engines : e[1] \in Daos /\ e # NoEngine
  /\ \A d \in Daos : \A i \in 1..Len(Conf[d]) :
       <<d, i>> \in Engines /\ Conf[d][i] \in Dsns /\ <<d, i>>[1] = d
  /\ \A d \in Daos : Conf[d] \in Seq(Dsns) /\ Conf[d] # <<>>
<1>1. \A d \in Daos : Conf[d] \in Seq(Dsns) /\ Conf[d] # <<>>
  BY EngineAssumption
<1>2. \A d \in Daos : DOMAIN Conf[d] = 1..Len(Conf[d]) /\ Len(Conf[d]) \in Nat
  BY <1>1
<1>3. ASSUME NEW d \in Daos, NEW i \in 1..Len(Conf[d])
      PROVE  <<d, i>> \in Engines /\ Conf[d][i] \in Dsns /\ <<d, i>>[1] = d
  BY <1>1, <1>2 DEF Engines
<1>4. ASSUME NEW e \in Engines PROVE e[1] \in Daos /\ e # NoEngine
  BY DEF Engines, NoEngine
<1> QED BY <1>1, <1>3, <1>4

LEMMA RangeSeq ==
  ASSUME NEW S, NEW q \in Seq(S)
  PROVE  Range(q) = {q[i] : i \in 1..Len(q)} /\ Range(q) \subseteq S
BY DEF Range

LEMMA RangeAppend ==
  ASSUME NEW S, NEW q \in Seq(S), NEW e \in S
  PROVE  Range(Append(q, e)) = Range(q) \cup {e}
<1>1. /\ Append(q, e) \in Seq(S) /\ Len(Append(q, e)) = Len(q) + 1
      /\ \A i \in 1..Len(q) : Append(q, e)[i] = q[i]
      /\ Append(q, e)[Len(q) + 1] = e
  BY AppendProperties
<1>2. Range(Append(q, e)) = {Append(q, e)[i] : i \in 1..(Len(q) + 1)}
  BY <1>1, RangeSeq
<1>3. Len(q) \in Nat
  OBVIOUS
<1>4. ASSUME NEW x \in Range(Append(q, e)) PROVE x \in Range(q) \cup {e}
  <2>1. PICK i \in 1..(Len(q) + 1) : x = Append(q, e)[i]
    BY <1>2
  <2>2. CASE i = Len(q) + 1
    BY <1>1, <2>1, <2>2
  <2>3. CASE i \in 1..Len(q)
    BY <1>1, <2>1, <2>3, RangeSeq
  <2> QED BY <1>3, <2>2, <2>3
<1>5. ASSUME NEW x \in Range(q) PROVE x \in Range(Append(q, e))
  <2>1. PICK i \in 1..Len(q) : x = q[i]
    BY RangeSeq
  <2>2. i \in 1..(Len(q) + 1) /\ x = Append(q, e)[i]
    BY <1>1, <1>3, <2>1
  <2> QED BY <1>2, <2>2
<1>6. e \in Range(Append(q, e))
  <2>1. Len(q) + 1 \in 1..(Len(q) + 1)
    BY <1>3
  <2> QED BY <1>1, <1>2, <2>1
<1> QED BY <1>4, <1>5, <1>6

-----------------------------------------------------------------------------
(* The engines.                                                            *)

LEMMA EngineInvInit == EngineInit => EngineInv
<1> SUFFICES ASSUME EngineInit PROVE EngineInv
  OBVIOUS
<1> DEFINE own == [i \in DOMAIN Conf[Default] |-> <<Default, i>>]
<1>1. Default \in Daos /\ Conf[Default] \in Seq(Dsns)
  BY EngineAssumption
<1>2. DOMAIN Conf[Default] = 1..Len(Conf[Default]) /\ Len(Conf[Default]) \in Nat
  BY <1>1
<1>3. own \in Seq(Engines) /\ DOMAIN own = 1..Len(Conf[Default]) /\ Len(own) = Len(Conf[Default])
  <2>1. \A i \in 1..Len(Conf[Default]) : own[i] \in Engines
    BY <1>1, <1>2, EngineFacts
  <2>2. own = [i \in 1..Len(Conf[Default]) |-> own[i]] /\ DOMAIN own = 1..Len(Conf[Default])
    BY <1>2
  <2>3. own \in Seq(Engines)
    <3> HIDE DEF own
    <3>1. own \in [1..Len(Conf[Default]) -> Engines]
      BY <2>1, <2>2
    <3> QED BY <1>2, <3>1, SMT
  <2> QED BY <1>2, <2>2, <2>3, LenProperties
<1>4. Range(own) \subseteq Engines /\ \A e \in Range(own) : e[1] = Default
  <2>1. \A i \in DOMAIN own : own[i][1] = Default /\ own[i] \in Engines
    BY <1>1, <1>2, <1>3, EngineFacts
  <2> HIDE DEF own
  <2> QED BY <2>1 DEF Range
<1> HIDE DEF own
<1>5. /\ at = [d \in Daos |-> IF d = Default THEN "open" ELSE "load"]
      /\ got = [d \in Daos |-> IF d = Default THEN own ELSE <<>>]
      /\ limited = Range(own)
  BY DEF EngineInit, own
<1>6. ASSUME NEW s \in Dsns
      PROVE  engineMap[s] = NoEngine \/ engineMap[s] \in Range(own)
  <2>1. engineMap[s] = IF s \in Range(Conf[Default])
                         THEN own[CHOOSE i \in DOMAIN own : Conf[Default][i] = s] ELSE NoEngine
    BY DEF EngineInit, own
  <2>2. CASE s \in Range(Conf[Default])
    <3>1. \E i \in DOMAIN own : Conf[Default][i] = s
      BY <1>2, <1>3, <2>2 DEF Range
    <3>2. (CHOOSE i \in DOMAIN own : Conf[Default][i] = s) \in DOMAIN own
      BY <3>1
    <3> QED BY <2>1, <2>2, <3>2 DEF Range
  <2> QED BY <2>1, <2>2
<1>7. engineMap \in [Dsns -> Engines \cup {NoEngine}]
  <2>1. engineMap = [s \in Dsns |-> engineMap[s]]
    BY DEF EngineInit
  <2> QED BY <1>4, <1>6, <2>1
<1>8. EngineTypeOK
  <2>1. got \in [Daos -> Seq(Engines)]
    BY <1>3, <1>5
  <2>2. at \in [Daos -> {"load", "store", "ping", "cacher", "open", "failed"}] /\ limited \subseteq Engines
    BY <1>4, <1>5
  <2> QED BY <1>7, <2>1, <2>2 DEF EngineTypeOK
<1>9. Unfinished
  <2> SUFFICES ASSUME NEW d \in Daos, at[d] \in {"load", "store"} PROVE Len(got[d]) < Len(Conf[d])
    BY DEF Unfinished
  <2>1. d # Default /\ got[d] = <<>> /\ Len(got[d]) = 0
    BY <1>5
  <2>2. Conf[d] \in Seq(Dsns) /\ Conf[d] # <<>>
    BY EngineFacts
  <2> QED BY <2>1, <2>2, EmptySeq
<1>10. MakersHave /\ MakersLimit
  <2>1. \A d \in Daos : Range(got[d]) = IF d = Default THEN Range(own) ELSE {}
    BY <1>5 DEF Range
  <2> QED BY <1>1, <1>4, <1>5, <1>6, <2>1 DEF MakersHave, MakersLimit
<1> QED BY <1>8, <1>9, <1>10 DEF EngineInv

LEMMA TakeInv ==
  ASSUME EngineInv, NEW d \in Daos, NEW e \in Engines, at[d] \in {"load", "store"},
         Take(d, e), UNCHANGED limited,
         e[1] = d \/ e \in Range(got[e[1]]),
         \/ UNCHANGED engineMap
         \/ e[1] = d /\ engineMap' = [engineMap EXCEPT ![Dsn(d)] = e]
  PROVE  EngineInv'
<1> USE DEF EngineInv
<1>1. /\ got[d] \in Seq(Engines) /\ Len(got[d]) \in Nat /\ Len(got[d]) < Len(Conf[d])
      /\ got \in [Daos -> Seq(Engines)] /\ Conf[d] \in Seq(Dsns) /\ Len(Conf[d]) \in Nat
      /\ e[1] \in Daos
  BY EngineFacts DEF EngineTypeOK, Unfinished
<1>2. /\ got' = [got EXCEPT ![d] = Append(@, e)]
      /\ got'[d] = Append(got[d], e) /\ \A c \in Daos \ {d} : got'[c] = got[c]
      /\ Append(got[d], e) \in Seq(Engines) /\ Len(got'[d]) = Len(got[d]) + 1
  BY <1>1, AppendProperties DEF Take
<1>3. Range(got'[d]) = Range(got[d]) \cup {e}
  BY <1>1, <1>2, RangeAppend
<1>4. /\ \A c \in Daos \ {d} : at'[c] = at[c]
      /\ at'[d] \in {"load", "ping", "cacher"}
      /\ at'[d] = "load" => Place(d) < Len(Conf[d])
      /\ at'[d] = "cacher" => ~\E i \in DOMAIN got'[d] : got'[d][i][1] = d
      /\ at' \in [Daos -> {"load", "store", "ping", "cacher", "open", "failed"}]
  BY DEF Take, EngineTypeOK
<1>5. got' \in [Daos -> Seq(Engines)]
  BY <1>1, <1>2
<1>6. Dsn(d) \in Dsns
  BY <1>1, EngineFacts DEF Dsn, Place
<1>7. engineMap' \in [Dsns -> Engines \cup {NoEngine}]
  BY <1>6 DEF EngineTypeOK
<1>8. EngineTypeOK'
  BY <1>4, <1>5, <1>7 DEF EngineTypeOK
<1>9. Unfinished'
  BY <1>1, <1>2, <1>4 DEF Unfinished, Place
<1>10. \A c \in Daos : Range(got[c]) \subseteq Range(got'[c])
  BY <1>2, <1>3
<1>11. e \in Range(got'[e[1]])
  BY <1>1, <1>3, <1>10
<1>12. MakersHave'
  <2>1. \A s \in Dsns : engineMap'[s] = engineMap[s] \/ engineMap'[s] = e
    BY <1>6 DEF EngineTypeOK
  <2>2. ASSUME NEW s \in Dsns, engineMap'[s] # NoEngine
        PROVE  engineMap'[s] \in Range(got'[engineMap'[s][1]])
    <3>1. CASE engineMap'[s] = e
      BY <1>11, <3>1
    <3>2. CASE engineMap'[s] = engineMap[s]
      <4>1. engineMap[s] \in Engines /\ engineMap[s] \in Range(got[engineMap[s][1]])
        BY <2>2, <3>2 DEF EngineTypeOK, MakersHave
      <4> QED BY <1>10, <3>2, <4>1, EngineFacts
    <3> QED BY <2>1, <3>1, <3>2
  <2>3. ASSUME NEW c \in Daos, NEW f \in Range(got'[c]) PROVE f \in Range(got'[f[1]])
    <3>1. f = e \/ f \in Range(got[c])
      BY <1>2, <1>3
    <3>2. CASE f \in Range(got[c])
      <4>1. f \in Engines
        BY <3>2, RangeSeq DEF EngineTypeOK
      <4>2. f \in Range(got[f[1]])
        BY <3>2 DEF MakersHave
      <4> QED BY <1>10, <4>1, <4>2, EngineFacts
    <3> QED BY <1>11, <3>1, <3>2
  <2> QED BY <2>2, <2>3 DEF MakersHave
<1>13. MakersLimit'
  <2> SUFFICES ASSUME NEW c \in Daos, at'[c] \in {"cacher", "open"},
                      NEW f \in Range(got'[c]), f[1] = c
               PROVE  f \in limited'
    BY DEF MakersLimit
  <2>1. CASE c = d
    BY <1>4, <2>1 DEF Range
  <2>2. CASE c # d
    BY <1>2, <1>4, <2>2 DEF MakersLimit
  <2> QED BY <2>1, <2>2
<1> QED BY <1>8, <1>9, <1>12, <1>13

LEMMA EngineInvNext == EngineInv /\ [\E d \in Daos : NewXormDao(d)]_engineVars => EngineInv'
<1> SUFFICES ASSUME EngineInv, [\E d \in Daos : NewXormDao(d)]_engineVars PROVE EngineInv'
  OBVIOUS
<1>1. ASSUME NEW d \in Daos, Load(d) PROVE EngineInv'
  <2>1. Dsn(d) \in Dsns
    BY <1>1, EngineFacts DEF Load, EngineInv, EngineTypeOK, Unfinished, Dsn, Place
  <2>2. CASE engineMap[Dsn(d)] = NoEngine
    <3>1. UNCHANGED <<engineMap, got, limited>> /\ at[d] = "load" /\ at' = [at EXCEPT ![d] = "store"]
      BY <1>1, <2>2 DEF Load
    <3>2. EngineTypeOK' /\ Unfinished'
      BY <3>1 DEF EngineInv, EngineTypeOK, Unfinished
    <3>3. MakersHave' /\ MakersLimit'
      BY <3>1 DEF EngineInv, EngineTypeOK, MakersHave, MakersLimit
    <3> QED BY <3>2, <3>3 DEF EngineInv
  <2>3. CASE engineMap[Dsn(d)] # NoEngine
    <3> DEFINE e == engineMap[Dsn(d)]
    <3>1. e \in Engines /\ e \in Range(got[e[1]])
      BY <2>1, <2>3 DEF EngineInv, EngineTypeOK, MakersHave
    <3>2. Take(d, e) /\ UNCHANGED <<engineMap, limited>> /\ at[d] = "load"
      BY <1>1, <2>3 DEF Load
    <3> HIDE DEF e
    <3> QED BY <3>1, <3>2, TakeInv
  <2> QED BY <2>2, <2>3
<1>2. ASSUME NEW d \in Daos, Store(d) PROVE EngineInv'
  <2> DEFINE e == <<d, Place(d)>>
  <2>1. e \in Engines /\ e[1] = d
    <3>1. Place(d) \in 1..Len(Conf[d])
      BY <1>2, EngineFacts DEF Store, EngineInv, EngineTypeOK, Unfinished, Place
    <3> QED BY <3>1, EngineFacts
  <2>2. /\ Take(d, e) /\ UNCHANGED limited /\ at[d] = "store"
        /\ engineMap' = [engineMap EXCEPT ![Dsn(d)] = e]
    BY <1>2 DEF Store
  <2> HIDE DEF e
  <2> QED BY <2>1, <2>2, TakeInv
<1>3. ASSUME NEW d \in Daos, Ping(d) PROVE EngineInv'
  <2>1. /\ UNCHANGED <<engineMap, got>> /\ limited \subseteq limited'
        /\ limited' \subseteq limited \cup Range(got[d])
        /\ at'[d] \in {"cacher", "failed"} /\ \A c \in Daos \ {d} : at'[c] = at[c]
        /\ at'[d] = "cacher" => Range(got[d]) \subseteq limited'
        /\ at' \in [Daos -> {"load", "store", "ping", "cacher", "open", "failed"}]
    BY <1>3 DEF Ping, EngineInv, EngineTypeOK
  <2>2. limited' \subseteq Engines
    BY <2>1, RangeSeq DEF EngineInv, EngineTypeOK
  <2>3. EngineTypeOK' /\ Unfinished'
    BY <2>1, <2>2 DEF EngineInv, EngineTypeOK, Unfinished
  <2>4. MakersHave' /\ MakersLimit'
    BY <2>1 DEF EngineInv, MakersHave, MakersLimit
  <2> QED BY <2>3, <2>4 DEF EngineInv
<1>4. ASSUME NEW d \in Daos, GetCacher(d) PROVE EngineInv'
  <2>1. /\ UNCHANGED <<engineMap, got, limited>> /\ at[d] = "cacher"
        /\ at'[d] \in {"open", "failed"} /\ \A c \in Daos \ {d} : at'[c] = at[c]
        /\ at' \in [Daos -> {"load", "store", "ping", "cacher", "open", "failed"}]
    BY <1>4 DEF GetCacher, EngineInv, EngineTypeOK
  <2>2. EngineTypeOK' /\ Unfinished'
    BY <2>1 DEF EngineInv, EngineTypeOK, Unfinished
  <2>3. MakersHave' /\ MakersLimit'
    BY <2>1 DEF EngineInv, MakersHave, MakersLimit
  <2> QED BY <2>2, <2>3 DEF EngineInv
<1>5. CASE UNCHANGED engineVars
  BY <1>5 DEF engineVars, EngineInv, EngineTypeOK, Unfinished, MakersHave, MakersLimit
<1> QED BY <1>1, <1>2, <1>3, <1>4, <1>5 DEF NewXormDao

\* What a step of the specification does to the engines.
LEMMA EngineSteps == [Next]_vars => [\E d \in Daos : NewXormDao(d)]_engineVars
BY DEF Next, vars, engineVars, Step, Idle, GetDao, NewModel, EnableCache, DisableCache, ClearCache,
       BuildCond, Search, Query, Update, Delete, Exec, Begin, Commit, Rollback, Close, CommitFails

-----------------------------------------------------------------------------
(* Types.                                                                  *)

ModelTypeOK ==
  /\ pc \in [Models -> {"new", "idle", "clear"}]
  /\ sess \in [Daos -> {"nil", "auto", "tx"}]
  /\ left \in [Daos -> SUBSET Models] /\ pend \in [Daos -> SUBSET Tables]
  /\ isCache \subseteq Cached /\ mapped \subseteq Tables
  /\ cache \in [Tables -> {"empty", "fresh", "stale"}]
  /\ part \in [Models -> {"out", "in", "wrote"}]
  /\ undone \subseteq Models /\ cut \subseteq Models /\ halved \subseteq Models
  /\ disorder \in BOOLEAN

LEMMA ModelFacts ==
  ASSUME NEW m \in Models PROVE DaoOf[m] \in Daos /\ TableOf[m] \in Tables
BY DaoAssumption

LEMMA SharersTyped ==
  ASSUME NEW m \in Models PROVE Sharers(m) \subseteq Models /\ Overruled(m) \subseteq Sharers(m)
BY DEF Sharers, Overruled

LEMMA OutdatedTyped ==
  ASSUME NEW c \in [Tables -> {"empty", "fresh", "stale"}], NEW S
  PROVE  Outdated(c, S) \in [Tables -> {"empty", "fresh", "stale"}]
BY DEF Outdated

LEMMA WrittenTyped ==
  ASSUME ModelTypeOK, NEW m \in Models, NEW c \in [Tables -> {"empty", "fresh", "stale"}],
         Written(m, c), pc' \in [Models -> {"new", "idle", "clear"}]
  PROVE  ModelTypeOK'
<1>1. /\ UNCHANGED <<sess, isCache, mapped, undone, cut>>
      /\ left' = [left EXCEPT ![DaoOf[m]] = {}]
  BY DEF Written, Executed
<1>2. left' \in [Daos -> SUBSET Models]
  BY <1>1, ModelFacts DEF ModelTypeOK
<1>3. pend' \in [Daos -> SUBSET Tables]
  BY ModelFacts DEF ModelTypeOK, Written
<1>4. part' \in [Models -> {"out", "in", "wrote"}] /\ disorder' \in BOOLEAN /\ halved' \subseteq Models
  <2>1. CASE Session(m) = "tx"
    <3>1. /\ part' = [part EXCEPT ![m] = IF @ = "in" THEN "wrote" ELSE @]
          /\ disorder' = TRUE /\ UNCHANGED halved
      BY <2>1 DEF Written
    <3> QED BY <3>1 DEF ModelTypeOK
  <2>2. CASE Session(m) # "tx"
    <3>1. UNCHANGED <<part, disorder>> /\ halved' \subseteq halved \cup {m}
      BY <2>2 DEF Written
    <3> QED BY <3>1 DEF ModelTypeOK
  <2> QED BY <2>1, <2>2
<1>5. cache' \in [Tables -> {"empty", "fresh", "stale"}]
  BY OutdatedTyped DEF Written
<1> QED BY <1>1, <1>2, <1>3, <1>4, <1>5 DEF ModelTypeOK

LEMMA StepTyped ==
  ASSUME ModelTypeOK, NEW m \in Models, Step(m)
  PROVE  ModelTypeOK'
<1> USE ModelFacts, SharersTyped
<1>1. CASE GetDao(m)
  BY <1>1 DEF GetDao, Off, txVars, ModelTypeOK
<1>11. CASE NewModel(m)
  BY <1>11 DEF NewModel, txVars, ModelTypeOK
<1>2. CASE EnableCache(m) \/ DisableCache(m)
  BY <1>2 DEF EnableCache, DisableCache, Off, txVars, ModelTypeOK
<1>3. CASE ClearCache(m)
  BY <1>3 DEF ClearCache, txVars, ModelTypeOK
<1>4. CASE BuildCond(m)
  BY <1>4 DEF BuildCond, txVars, ModelTypeOK
<1>5. CASE Search(m) \/ Query(m)
  BY <1>5 DEF Search, Query, Executed, Fill, txVars, ModelTypeOK
<1>6. CASE Update(m) \/ Delete(m)
  <2>1. Dropped(TableOf[m]) \in [Tables -> {"empty", "fresh", "stale"}]
    BY DEF Dropped, ModelTypeOK
  <2> QED BY <1>6, <2>1, WrittenTyped DEF Update, Delete, ModelTypeOK
<1>7. CASE Exec(m)
  <2>1. cache \in [Tables -> {"empty", "fresh", "stale"}] /\ pc' \in [Models -> {"new", "idle", "clear"}]
    BY <1>7 DEF Exec, ModelTypeOK
  <2> QED BY <1>7, <2>1, WrittenTyped DEF Exec
<1>8. CASE Begin(m) \/ CommitFails(m)
  BY <1>8 DEF Begin, CommitFails, ModelTypeOK
<1>9. CASE Commit(m)
  <2>1. cache' \in [Tables -> {"empty", "fresh", "stale"}]
    BY <1>9, OutdatedTyped DEF Commit, ModelTypeOK
  <2> QED BY <1>9, <2>1 DEF Commit, Ended, ModelTypeOK
<1>10. CASE Rollback(m) \/ Close(m)
  BY <1>10 DEF Rollback, Close, Ended, ModelTypeOK
<1> QED BY <1>1, <1>2, <1>3, <1>4, <1>5, <1>6, <1>7, <1>8, <1>9, <1>10, <1>11 DEF Step

Typed == EngineInv /\ ModelTypeOK

LEMMA TypedInit == Init => Typed
<1> SUFFICES ASSUME Init PROVE Typed
  OBVIOUS
<1>1. EngineInv
  BY EngineInvInit DEF Init
<1>2. /\ pc \in [Models -> {"new", "idle", "clear"}] /\ sess \in [Daos -> {"nil", "auto", "tx"}]
      /\ part \in [Models -> {"out", "in", "wrote"}] /\ cache \in [Tables -> {"empty", "fresh", "stale"}]
  BY DEF Init
<1>3. left \in [Daos -> SUBSET Models] /\ pend \in [Daos -> SUBSET Tables]
  BY DEF Init
<1>4. /\ isCache \subseteq Cached /\ mapped \subseteq Tables /\ disorder \in BOOLEAN
      /\ undone \subseteq Models /\ cut \subseteq Models /\ halved \subseteq Models
  BY DEF Init
<1> QED BY <1>1, <1>2, <1>3, <1>4 DEF Typed, ModelTypeOK

LEMMA TypedNext == Typed /\ [Next]_vars => Typed'
<1> SUFFICES ASSUME Typed, [Next]_vars PROVE Typed'
  OBVIOUS
<1>1. EngineInv'
  BY EngineSteps, EngineInvNext DEF Typed
<1>2. ModelTypeOK'
  <2>1. CASE UNCHANGED modelVars /\ UNCHANGED txVars
    BY <2>1 DEF Typed, ModelTypeOK, modelVars, txVars
  <2>2. CASE \E m \in Models : Step(m)
    BY <2>2, StepTyped DEF Typed
  <2> QED BY <2>1, <2>2 DEF Next, vars
<1> QED BY <1>1, <1>2 DEF Typed

THEOREM AlwaysTyped == Spec => []Typed
<1>1. Init => Typed
  BY TypedInit
<1>2. Typed /\ [Next]_vars => Typed'
  BY TypedNext
<1> QED BY <1>1, <1>2, PTL DEF Spec

\* Every state of the specification has the types of TypeOK.
THEOREM TypeCorrect == Spec => []TypeOK
<1>1. Typed => TypeOK
  BY DEF Typed, EngineInv, ModelTypeOK, TypeOK
<1> QED BY <1>1, AlwaysTyped, PTL

\* An open dao has an engine without limits only while its maker has not pinged it,
\* or after that ping failed (InitDb).
THEOREM LimitedUnlessUnpinged == Spec => []UnlimitedNeedsMaker
<1>1. ASSUME Typed, NEW d \in Daos, at[d] = "open", NEW e \in Range(got[d]) \ limited
      PROVE  at[e[1]] \in {"load", "store", "ping", "failed"}
  <2>1. e \in Engines /\ e[1] \in Daos /\ e \in Range(got[e[1]])
    BY <1>1, RangeSeq, EngineFacts DEF Typed, EngineInv, EngineTypeOK, MakersHave
  <2>2. at[e[1]] \notin {"cacher", "open"}
    BY <1>1, <2>1 DEF Typed, EngineInv, MakersLimit
  <2> QED BY <1>1, <2>1, <2>2 DEF Typed, EngineInv, EngineTypeOK
<1>2. Typed => UnlimitedNeedsMaker
  BY <1>1 DEF UnlimitedNeedsMaker
<1> QED BY <1>2, AlwaysTyped, PTL

-----------------------------------------------------------------------------
(* Conditions.                                                             *)

LEMMA ConditionsStep ==
  ASSUME ModelTypeOK, ConditionsStayInSession, NEW m \in Models, Step(m)
  PROVE  ConditionsStayInSession'
<1> USE ModelFacts DEF ConditionsStayInSession, ModelTypeOK
<1>1. CASE GetDao(m) \/ EnableCache(m) \/ DisableCache(m) \/ ClearCache(m) \/ CommitFails(m)
  BY <1>1 DEF GetDao, EnableCache, DisableCache, ClearCache, CommitFails
<1>2. CASE NewModel(m) \/ Begin(m) \/ Commit(m) \/ Rollback(m)
  BY <1>2 DEF NewModel, Begin, Commit, Rollback, Session
<1>3. CASE BuildCond(m)
  BY <1>3 DEF BuildCond, Session
<1>4. CASE Search(m) \/ Query(m) \/ Update(m) \/ Delete(m) \/ Exec(m)
  BY <1>4 DEF Search, Query, Update, Delete, Exec, Written, Executed
<1>5. CASE Close(m)
  BY <1>5 DEF Close
<1> QED BY <1>1, <1>2, <1>3, <1>4, <1>5 DEF Step

\* The conditions that a failed call leaves behind never get out of the session
\* that the models of one dao share.
THEOREM SessionKeepsConditions == Spec => []ConditionsStayInSession
<1>1. Init => ConditionsStayInSession
  BY DEF Init, ConditionsStayInSession
<1>2. Typed /\ ConditionsStayInSession /\ [Next]_vars => ConditionsStayInSession'
  <2> SUFFICES ASSUME Typed, ConditionsStayInSession, [Next]_vars PROVE ConditionsStayInSession'
    OBVIOUS
  <2>1. CASE UNCHANGED modelVars
    BY <2>1 DEF ConditionsStayInSession, modelVars
  <2>2. CASE \E m \in Models : Step(m)
    BY <2>2, ConditionsStep DEF Typed
  <2> QED BY <2>1, <2>2 DEF Next, vars
<1> QED BY <1>1, <1>2, AlwaysTyped, PTL DEF Spec

-----------------------------------------------------------------------------
(* Transactions.                                                           *)

\* Whoever is in a transaction that nobody else has ended has a session in one.
InTransaction == \A m \in Models : part[m] # "out" /\ m \notin cut => sess[DaoOf[m]] = "tx"

WholeInv == InTransaction /\ undone \subseteq cut /\ halved \subseteq cut

LEMMA EndsForAll ==
  ASSUME ModelTypeOK, InTransaction, NEW m \in Models, Ended(m),
         NEW s, sess' = [sess EXCEPT ![DaoOf[m]] = s]
  PROVE  InTransaction' /\ cut \subseteq cut' /\ Overruled(m) \subseteq cut'
<1> USE ModelFacts DEF ModelTypeOK
<1>1. cut \subseteq cut' /\ Overruled(m) \subseteq cut'
  BY DEF Ended, Overruled
<1>2. ASSUME NEW n \in Models, part'[n] # "out", n \notin cut' PROVE sess'[DaoOf[n]] = "tx"
  <2>1. n # m /\ part'[n] = part[n] /\ n \notin cut
    BY <1>1, <1>2 DEF Ended
  <2>2. sess[DaoOf[n]] = "tx"
    BY <1>2, <2>1 DEF InTransaction
  <2>3. DaoOf[n] # DaoOf[m]
    BY <1>2, <2>1, <2>2 DEF Ended, Session, Sharers
  <2> QED BY <2>2, <2>3
<1> QED BY <1>1, <1>2 DEF InTransaction

LEMMA WholeStep ==
  ASSUME ModelTypeOK, WholeInv, NEW m \in Models, Step(m)
  PROVE  WholeInv'
<1> USE ModelFacts DEF ModelTypeOK
<1>1. CASE \/ GetDao(m) \/ EnableCache(m) \/ DisableCache(m) \/ ClearCache(m) \/ BuildCond(m)
           \/ Search(m) \/ Query(m)
  BY <1>1 DEF GetDao, EnableCache, DisableCache, ClearCache, BuildCond, Search, Query, txVars,
              WholeInv, InTransaction
<1>2. CASE NewModel(m)
  BY <1>2 DEF NewModel, txVars, WholeInv, InTransaction
<1>3. CASE Update(m) \/ Delete(m) \/ Exec(m)
  <2>1. \E c : Written(m, c)
    BY <1>3 DEF Update, Delete, Exec
  <2>2. /\ UNCHANGED <<sess, undone, cut>>
        /\ \A n \in Models : part'[n] # "out" => part[n] # "out"
        /\ halved' \subseteq IF sess[DaoOf[m]] # "tx" /\ part[m] # "out" THEN halved \cup {m} ELSE halved
    BY <2>1 DEF Written, Session
  <2> QED BY <2>2 DEF WholeInv, InTransaction
<1>4. CASE Begin(m)
  BY <1>4 DEF Begin, WholeInv, InTransaction
<1>5. CASE Commit(m)
  BY <1>5, EndsForAll DEF Commit, WholeInv
<1>6. CASE Rollback(m)
  BY <1>6, EndsForAll DEF Rollback, WholeInv
<1>7. CASE Close(m)
  BY <1>7, EndsForAll DEF Close, WholeInv
<1>8. CASE CommitFails(m)
  BY <1>8 DEF CommitFails, WholeInv, InTransaction
<1> QED BY <1>1, <1>2, <1>3, <1>4, <1>5, <1>6, <1>7, <1>8 DEF Step

\* A transaction whose session no other model ends is durable as a whole by its
\* Commit, and otherwise not at all.
THEOREM WholeTransactions == Spec => []WholeUnlessCut
<1>1. Init => WholeInv
  BY DEF Init, WholeInv, InTransaction
<1>2. Typed /\ WholeInv /\ [Next]_vars => WholeInv'
  <2> SUFFICES ASSUME Typed, WholeInv, [Next]_vars PROVE WholeInv'
    OBVIOUS
  <2>1. CASE UNCHANGED modelVars /\ UNCHANGED txVars
    BY <2>1 DEF WholeInv, InTransaction, modelVars, txVars
  <2>2. CASE \E m \in Models : Step(m)
    BY <2>2, WholeStep DEF Typed
  <2> QED BY <2>1, <2>2 DEF Next, vars
<1>3. WholeInv => WholeUnlessCut
  BY DEF WholeInv, WholeUnlessCut
<1> QED BY <1>1, <1>2, <1>3, AlwaysTyped, PTL DEF Spec

-----------------------------------------------------------------------------
(* The cache.                                                              *)

\* In good order nothing is uncommitted, and rows are cached only of mapped tables.
CacheInv ==
  /\ StaleNeedsDisorder
  /\ ~disorder => /\ \A d \in Daos : pend[d] = {}
                  /\ \A t \in Tables : cache[t] # "empty" => t \in mapped

LEMMA WrittenCache ==
  ASSUME ModelTypeOK, CacheInv, NEW m \in Models, Written(m, Dropped(TableOf[m])), UNCHANGED pc
  PROVE  CacheInv'
<1> USE ModelFacts DEF ModelTypeOK
<1> DEFINE d == DaoOf[m] t == TableOf[m]
<1>1. CASE Session(m) = "tx"
  BY <1>1 DEF Written, CacheInv, StaleNeedsDisorder
<1>2. CASE Session(m) # "tx"
  <2>1. UNCHANGED <<pend, disorder, mapped>> /\ cache' = Outdated(Dropped(t), {t})
    BY <1>2 DEF Written
  <2>2. ASSUME NEW u \in Tables, u # t PROVE cache'[u] = cache[u]
    BY <2>1, <2>2 DEF Outdated, Dropped
  <2>3. ~disorder => cache'[t] = "empty"
    BY <2>1 DEF Outdated, Dropped, CacheInv
  <2> QED BY <2>1, <2>2, <2>3 DEF CacheInv, StaleNeedsDisorder
<1> QED BY <1>1, <1>2

LEMMA CacheStep ==
  ASSUME ModelTypeOK, CacheInv, NEW m \in Models, Step(m)
  PROVE  CacheInv'
<1> USE ModelFacts DEF ModelTypeOK
<1>1. CASE GetDao(m)
  BY <1>1 DEF GetDao, Off, CacheInv, StaleNeedsDisorder
<1>2. CASE DisableCache(m)
  BY <1>2 DEF DisableCache, Off, Idle, CacheInv, StaleNeedsDisorder
<1>3. CASE NewModel(m)
  BY <1>3 DEF NewModel, CacheInv, StaleNeedsDisorder
<1>4. CASE EnableCache(m) \/ BuildCond(m) \/ Query(m)
  BY <1>4 DEF EnableCache, BuildCond, Query, CacheInv, StaleNeedsDisorder
<1>5. CASE ClearCache(m)
  <2>1. CASE ~disorder'
    <3>1. UNCHANGED <<pend, mapped>> /\ ~disorder
      BY <1>5, <2>1 DEF ClearCache
    <3>2. \A u \in Tables : u # TableOf[m] => cache'[u] = cache[u]
      BY <1>5 DEF ClearCache
    <3>3. cache'[TableOf[m]] = "empty"
      BY <1>5, <2>1, <3>1 DEF ClearCache, CacheInv
    <3>4. \A n \in Models : n # m => pc'[n] = pc[n]
      BY <1>5 DEF ClearCache
    <3> QED BY <3>1, <3>2, <3>3, <3>4 DEF CacheInv, StaleNeedsDisorder
  <2>2. CASE disorder'
    BY <2>2 DEF CacheInv, StaleNeedsDisorder
  <2> QED BY <2>1, <2>2
<1>6. CASE Search(m)
  BY <1>6 DEF Search, Fill, CacheInv, StaleNeedsDisorder
<1>7. CASE Update(m) \/ Delete(m)
  BY <1>7, WrittenCache DEF Update, Delete
<1>8. CASE Exec(m)
  <2>1. CASE Session(m) = "tx"
    BY <1>8, <2>1 DEF Exec, Written, CacheInv, StaleNeedsDisorder
  <2>2. CASE Session(m) # "tx"
    BY <1>8, <2>2 DEF Exec, Idle, Written, Outdated, CacheInv, StaleNeedsDisorder
  <2> QED BY <2>1, <2>2
<1>9. CASE Begin(m) \/ CommitFails(m)
  BY <1>9 DEF Begin, CommitFails, CacheInv, StaleNeedsDisorder
<1>10. CASE Commit(m)
  <2>1. UNCHANGED <<pc, disorder, mapped>> /\ cache' = Outdated(cache, pend[DaoOf[m]])
        /\ \A d \in Daos : pend'[d] \subseteq pend[d]
    BY <1>10 DEF Commit, Ended
  <2>2. ~disorder => cache' = cache
    BY <2>1 DEF Outdated, CacheInv
  <2> QED BY <2>1, <2>2 DEF CacheInv, StaleNeedsDisorder
<1>11. CASE Rollback(m)
  BY <1>11 DEF Rollback, Ended, CacheInv, StaleNeedsDisorder
<1>12. CASE Close(m)
  BY <1>12 DEF Close, Ended, Idle, CacheInv, StaleNeedsDisorder
<1> QED BY <1>1, <1>2, <1>3, <1>4, <1>5, <1>6, <1>7, <1>8, <1>9, <1>10, <1>11, <1>12 DEF Step

\* Old rows outlast the ClearCache calls only after a transaction wrote, the cache
\* was switched off, or a dao that does not use it skipped a ClearCache.
THEOREM FreshInGoodOrder == Spec => []StaleNeedsDisorder
<1>1. Init => CacheInv
  BY DEF Init, CacheInv, StaleNeedsDisorder
<1>2. Typed /\ CacheInv /\ [Next]_vars => CacheInv'
  <2> SUFFICES ASSUME Typed, CacheInv, [Next]_vars PROVE CacheInv'
    OBVIOUS
  <2>1. CASE UNCHANGED modelVars
    BY <2>1 DEF CacheInv, StaleNeedsDisorder, modelVars
  <2>2. CASE \E m \in Models : Step(m)
    BY <2>2, CacheStep DEF Typed
  <2> QED BY <2>1, <2>2 DEF Next, vars
<1>3. CacheInv => StaleNeedsDisorder
  BY DEF CacheInv
<1> QED BY <1>1, <1>2, <1>3, AlwaysTyped, PTL DEF Spec
=============================================================================
