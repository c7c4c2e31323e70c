------------------------------- MODULE Engine -------------------------------
(***************************************************************************)
(* The database engines of db/db.go and the daos over them (NewXormDao):   *)
(* one engine per DSN in engineMap, which goroutines look up and fill      *)
(* without a lock between the two. Whoever made an engine pings it, limits *)
(* its pool and starts its keepalive; the others take it as it is.         *)
(***************************************************************************)
EXTENDS Naturals, Sequences, FiniteSets, Functions

CONSTANTS
  Dsns,       \* data source names
  Daos,       \* calls of NewXormDao
  Conf,       \* Conf[d]: the DSNs of d's configuration, the master's first
  Default,    \* db.DefaultDao, which Init opens before anything else runs
  Cached      \* the daos whose configuration has a CacheType

ASSUME EngineAssumption ==
  /\ Conf \in [Daos -> Seq(Dsns)]
  /\ \A d \in Daos : Conf[d] # <<>>
  /\ Default \in Daos /\ Cached \subseteq Daos

\* An engine is named after the call that made it and the place of its DSN there.
Engines == {e \in Daos \X Nat : e[2] \in DOMAIN Conf[e[1]]}
NoEngine == <<>>

VARIABLES
  engineMap,    \* engineMap[s]: the engine that is stored for the DSN s
  at,           \* at[d]: where NewXormDao is
  got,          \* got[d]: the engines it has got, in the order of Conf[d]
  limited       \* the engines that were pinged and whose pool is limited

engineVars == <<engineMap, at, got, limited>>

EngineTypeOK ==
  /\ engineMap \in [Dsns -> Engines \cup {NoEngine}]
  /\ at \in [Daos -> {"load", "store", "ping", "cacher", "open", "failed"}]
  /\ got \in [Daos -> Seq(Engines)]
  /\ limited \subseteq Engines

EngineInit ==
  LET own == [i \in DOMAIN Conf[Default] |-> <<Default, i>>] IN
  /\ IsInjective(Conf[Default])
  /\ engineMap = [s \in Dsns |->
       IF s \in Range(Conf[Default]) THEN own[CHOOSE i \in DOMAIN own : Conf[Default][i] = s] ELSE NoEngine]
  /\ at = [d \in Daos |-> IF d = Default THEN "open" ELSE "load"]
  /\ got = [d \in Daos |-> IF d = Default THEN own ELSE <<>>]
  /\ limited = Range(own)

Place(d) == Len(got[d]) + 1
Dsn(d) == Conf[d][Place(d)]

\* Variant: only the engine of the master decides.
TakeFirst(d, e) ==
  /\ got' = [got EXCEPT ![d] = Append(@, e)]
  /\ at' = [at EXCEPT ![d] =
       IF Place(d) < Len(Conf[d]) THEN "load" ELSE IF got'[d][1][1] = d THEN "ping" ELSE "cacher"]

\* getEngine returns e; InitDb goes on to the next slave, and after the last one
\* pings if any of its engines is new.
Take(d, e) ==
  /\ got' = [got EXCEPT ![d] = Append(@, e)]
  /\ at' = [at EXCEPT ![d] =
       IF Place(d) < Len(Conf[d]) THEN "load"
       ELSE IF \E i \in DOMAIN got'[d] : got'[d][i][1] = d THEN "ping" ELSE "cacher"]

Load(d) ==
  /\ at[d] = "load"
  /\ IF engineMap[Dsn(d)] = NoEngine
       THEN at' = [at EXCEPT ![d] = "store"] /\ UNCHANGED got
       ELSE Take(d, engineMap[Dsn(d)])
  /\ UNCHANGED <<engineMap, limited>>

\* The new engine replaces one that another call stored since Load.
Store(d) ==
  /\ at[d] = "store"
  /\ engineMap' = [engineMap EXCEPT ![Dsn(d)] = <<d, Place(d)>>]
  /\ Take(d, <<d, Place(d)>>)
  /\ UNCHANGED limited

\* The limits of the configuration are set for all engines of the group. A ping
\* that fails leaves its engines in engineMap.
Ping(d) ==
  /\ at[d] = "ping"
  /\ \/ /\ at' = [at EXCEPT ![d] = "cacher"]
        /\ limited' = limited \cup Range(got[d])
     \/ /\ at' = [at EXCEPT ![d] = "failed"]
        /\ UNCHANGED limited
  /\ UNCHANGED <<engineMap, got>>

GetCacher(d) ==
  /\ at[d] = "cacher"
  /\ \/ at' = [at EXCEPT ![d] = "open"]
     \/ d \in Cached /\ at' = [at EXCEPT ![d] = "failed"]
  /\ UNCHANGED <<engineMap, got, limited>>

NewXormDao(d) == Load(d) \/ Store(d) \/ Ping(d) \/ GetCacher(d)

-----------------------------------------------------------------------------
\* A dao that is open works on an engine without limits and keepalive only if the
\* call that made the engine has not got to them yet, or its ping failed.
UnlimitedNeedsMaker ==
  \A d \in Daos : at[d] = "open" =>
    \A e \in Range(got[d]) \ limited : at[e[1]] \in {"load", "store", "ping", "failed"}
=============================================================================
