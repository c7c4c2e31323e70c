-------------------------------- MODULE Dao --------------------------------
(***************************************************************************)
(* The daos of db/xorm_dao.go over one database, used through generated    *)
(* models (xorm/struct.go.tpl): statements with their conditions, the      *)
(* transaction session that models may share, and the cache of rows, which *)
(* is switched per table in the engine and per dao by a flag.              *)
(* External: xorm resets a session's statement when it has executed it, a  *)
(* write through it drops the cached rows of a table that is mapped, reads *)
(* in a transaction pass the cache by; the database locks written rows.    *)
(***************************************************************************)
EXTENDS Engine

CONSTANTS
  Tables,
  Models,     \* generated models, each used by one goroutine
  TableOf,    \* the table of a model
  DaoOf       \* its dao; those of Default are the global models

ASSUME DaoAssumption ==
  /\ TableOf \in [Models -> Tables] /\ DaoOf \in [Models -> Daos]
  /\ \A m \in Models : Conf[DaoOf[m]][1] = Conf[Default][1]

VARIABLES
  pc,         \* pc[m]: "new" before the model has its dao, "clear" between
              \* an Exec and the ClearCache deferred behind it
  sess,       \* sess[d]: d.sess is nil, commits every statement, or is in a transaction
  left,       \* left[d]: the models whose conditions are in the statement of d.sess
  pend,       \* external, pend[d]: the tables with uncommitted rows of d
  isCache,    \* the daos with isCache set
  mapped,     \* the tables that are mapped to the cacher in the engine
  cache,      \* external, cache[t]: what is cached of the committed rows of t
  part,       \* history, part[m]: m's transaction, and whether it has written
  undone,     \* history: models in a transaction that lost a write to a rollback
  cut,        \* history: models whose session another model ended since their Begin
  halved,     \* history: models of whose transaction a write is durable without
              \* their Commit, or undone in spite of it
  disorder    \* history: the cache was switched off, a dao that does not use it
              \* skipped a ClearCache, or a transaction wrote

modelVars == <<pc, sess, left, pend, isCache, mapped, cache, disorder>>
txVars == <<part, undone, cut, halved>>
vars == <<engineVars, modelVars, txVars>>

TypeOK ==
  /\ EngineTypeOK
  /\ pc \in [Models -> {"new", "idle", "clear"}]
  /\ sess \in [Daos -> {"nil", "auto", "tx"}]
  /\ left \in [Daos -> SUBSET Models] /\ pend \in [Daos -> SUBSET Tables]
  /\ isCache \subseteq Cached /\ mapped \subseteq Tables
  /\ cache \in [Tables -> {"empty", "fresh", "stale"}]
  /\ part \in [Models -> {"out", "in", "wrote"}]
  /\ undone \subseteq Models /\ cut \subseteq Models /\ halved \subseteq Models
  /\ disorder \in BOOLEAN

Init ==
  /\ EngineInit
  /\ pc = [m \in Models |-> "new"]
  /\ sess = [d \in Daos |-> "nil"]
  /\ left = [d \in Daos |-> {}] /\ pend = [d \in Daos |-> {}]
  /\ isCache = {} /\ mapped = {}
  /\ cache = [t \in Tables |-> "empty"]
  /\ part = [m \in Models |-> "out"]
  /\ undone = {} /\ cut = {} /\ halved = {} /\ disorder = FALSE

Idle(m) == pc[m] = "idle" /\ UNCHANGED engineVars
Session(m) == sess[DaoOf[m]]
Sharers(m) == {n \in Models \ {m} : DaoOf[n] = DaoOf[m] /\ part[n] # "out"}

-----------------------------------------------------------------------------
(* Models and the switching of the cache.                                  *)

Off(d, t) ==
  /\ isCache' = isCache \ {d}
  /\ mapped' = mapped \ {t}
  /\ disorder' = (disorder \/ d \in isCache \/ t \in mapped)

\* A global model takes the default dao, and switches the cache off.
GetDao(m) ==
  /\ pc[m] = "new" /\ DaoOf[m] = Default
  /\ pc' = [pc EXCEPT ![m] = "idle"]
  /\ Off(Default, TableOf[m])
  /\ UNCHANGED <<engineVars, sess, left, pend, cache, txVars>>

\* Variant: NewSession without looking for a session that is there.
NewModelAfresh(m) ==
  /\ pc[m] = "new" /\ DaoOf[m] # Default /\ at[DaoOf[m]] = "open"
  /\ pc' = [pc EXCEPT ![m] = "idle"]
  /\ sess' = [sess EXCEPT ![DaoOf[m]] = "auto"]
  /\ UNCHANGED <<engineVars, left, pend, isCache, mapped, cache, disorder, txVars>>

\* New...() with a configuration or with the dao of another model: NewSession.
NewModel(m) ==
  /\ pc[m] = "new" /\ DaoOf[m] # Default /\ at[DaoOf[m]] = "open"
  /\ pc' = [pc EXCEPT ![m] = "idle"]
  /\ sess' = [sess EXCEPT ![DaoOf[m]] = IF @ = "nil" THEN "auto" ELSE @]
  /\ UNCHANGED <<engineVars, left, pend, isCache, mapped, cache, disorder, txVars>>

EnableCache(m) ==
  /\ Idle(m) /\ DaoOf[m] \in Cached
  /\ isCache' = isCache \cup {DaoOf[m]}
  /\ mapped' = mapped \cup {TableOf[m]}
  /\ UNCHANGED <<pc, sess, left, pend, cache, disorder, txVars>>

DisableCache(m) ==
  /\ Idle(m) /\ Off(DaoOf[m], TableOf[m])
  /\ UNCHANGED <<pc, sess, left, pend, cache, txVars>>

ClearCache(m) ==
  /\ pc[m] = "clear"
  /\ pc' = [pc EXCEPT ![m] = "idle"]
  /\ LET t == TableOf[m] IN
     IF DaoOf[m] \in isCache
       THEN /\ cache' = [cache EXCEPT ![t] = IF t \in mapped THEN "empty" ELSE @]
            /\ UNCHANGED disorder
       ELSE UNCHANGED cache /\ disorder' = (disorder \/ t \in mapped)
  /\ UNCHANGED <<engineVars, sess, left, pend, isCache, mapped, txVars>>

-----------------------------------------------------------------------------
(* Statements.                                                             *)

\* Without d.sess a call has a session of its own, which takes its statement along.
Executed(m) == left' = [left EXCEPT ![DaoOf[m]] = {}]

\* Variant: without a session, too.
BuildCondAnywhere(m) ==
  /\ Idle(m)
  /\ left' = [left EXCEPT ![DaoOf[m]] = @ \cup {m}]
  /\ UNCHANGED <<pc, sess, pend, isCache, mapped, cache, disorder, txVars>>

\* A key of three words: the call fails, and what the keys before it in the random
\* order of the map have put into d.sess stays there.
BuildCond(m) ==
  /\ Idle(m)
  /\ Session(m) # "nil"
  /\ left' = [left EXCEPT ![DaoOf[m]] = @ \cup {m}]
  /\ UNCHANGED <<pc, sess, pend, isCache, mapped, cache, disorder, txVars>>

\* A read may find its rows in the cache, or puts them there.
Fill(m) ==
  LET t == TableOf[m] IN
  IF t \in mapped /\ Session(m) # "tx" /\ cache[t] = "empty"
    THEN cache' = [cache EXCEPT ![t] = "fresh"]
    ELSE UNCHANGED cache

Search(m) ==
  /\ Idle(m) /\ Executed(m) /\ Fill(m)
  /\ UNCHANGED <<pc, sess, pend, isCache, mapped, disorder, txVars>>

\* SQL of the caller's, and counts, are not cached.
Query(m) ==
  /\ Idle(m) /\ Executed(m)
  /\ UNCHANGED <<pc, sess, pend, isCache, mapped, cache, disorder, txVars>>

\* The rows of t change in the database; those in the cache, c, do not.
Outdated(c, S) == [t \in Tables |-> IF t \in S /\ c[t] # "empty" THEN "stale" ELSE c[t]]

\* m writes a row of its table, with the cache c: durable at once, or in the
\* transaction of its session.
Written(m, c) ==
  LET d == DaoOf[m] t == TableOf[m] IN
  /\ \A e \in Daos \ {d} : t \notin pend[e]
  /\ Executed(m)
  /\ IF Session(m) = "tx"
       THEN /\ pend' = [pend EXCEPT ![d] = @ \cup {t}]
            /\ part' = [part EXCEPT ![m] = IF @ = "in" THEN "wrote" ELSE @]
            /\ disorder' = TRUE
            /\ cache' = c
            /\ UNCHANGED halved
       ELSE /\ cache' = Outdated(c, {t})
            /\ halved' = IF part[m] = "out" THEN halved ELSE halved \cup {m}
            /\ UNCHANGED <<pend, part, disorder>>
  /\ UNCHANGED <<sess, isCache, mapped, undone, cut>>

Dropped(t) == [cache EXCEPT ![t] = IF t \in mapped THEN "empty" ELSE @]

Update(m) ==
  Idle(m) /\ Written(m, Dropped(TableOf[m])) /\ UNCHANGED pc

Delete(m) ==
  Idle(m) /\ Written(m, Dropped(TableOf[m])) /\ UNCHANGED pc

\* Variant: Exec without ClearCache.
ExecOnly(m) ==
  Idle(m) /\ Written(m, cache) /\ UNCHANGED pc

\* Exec, and Replace by it, leave the cache alone; the model defers ClearCache.
Exec(m) ==
  Idle(m) /\ Written(m, cache) /\ pc' = [pc EXCEPT ![m] = "clear"]

-----------------------------------------------------------------------------
(* Transactions.                                                           *)

Begin(m) ==
  /\ Idle(m) /\ part[m] = "out"
  /\ Session(m) # "nil"
  /\ sess' = [sess EXCEPT ![DaoOf[m]] = "tx"]
  /\ part' = [part EXCEPT ![m] = "in"]
  /\ undone' = undone \ {m} /\ cut' = cut \ {m} /\ halved' = halved \ {m}
  /\ UNCHANGED <<pc, left, pend, isCache, mapped, cache, disorder>>

\* What ends the transaction of m's session, if it is in one, for all who share it.
Ended(m) ==
  /\ pend' = [pend EXCEPT ![DaoOf[m]] = {}]
  /\ part' = [part EXCEPT ![m] = "out"]
  /\ cut' = IF Session(m) = "tx" THEN cut \cup Sharers(m) ELSE cut

\* Those who have uncommitted writes in the transaction that m ends.
Overruled(m) == IF Session(m) = "tx" THEN {n \in Sharers(m) : part[n] = "wrote"} ELSE {}

\* Without a session Commit and Rollback only return an error. A Commit of a
\* session that is in no transaction returns none.
Commit(m) ==
  /\ Idle(m) /\ Session(m) # "nil"
  /\ sess' = [sess EXCEPT ![DaoOf[m]] = "auto"]
  /\ Ended(m)
  /\ cache' = Outdated(cache, pend[DaoOf[m]])
  /\ halved' = halved \cup Overruled(m) \cup (undone \cap {m})
  /\ undone' = undone \ {m}
  /\ UNCHANGED <<pc, left, isCache, mapped, disorder>>

Rollback(m) ==
  /\ Idle(m) /\ Session(m) # "nil"
  /\ sess' = [sess EXCEPT ![DaoOf[m]] = "auto"]
  /\ Ended(m)
  /\ undone' = (undone \cup Overruled(m)) \ {m}
  /\ UNCHANGED <<pc, left, cache, isCache, mapped, disorder, halved>>

\* A transaction that was not committed is rolled back. The instance is given up,
\* and its name stands for the next one.
Close(m) ==
  /\ Idle(m) /\ DaoOf[m] # Default
  /\ pc' = [pc EXCEPT ![m] = "new"]
  /\ sess' = [sess EXCEPT ![DaoOf[m]] = "nil"]
  /\ left' = [left EXCEPT ![DaoOf[m]] = {}]
  /\ Ended(m)
  /\ undone' = (undone \cup Overruled(m)) \ {m}
  /\ halved' = halved \ {m}
  /\ UNCHANGED <<cache, isCache, mapped, disorder>>

\* Commit without a session: the model's transaction is over, with an error.
CommitFails(m) ==
  /\ Idle(m) /\ Session(m) = "nil" /\ part[m] # "out"
  /\ part' = [part EXCEPT ![m] = "out"]
  /\ undone' = undone \ {m}
  /\ UNCHANGED <<pc, sess, left, pend, isCache, mapped, cache, disorder, cut, halved>>

Step(m) ==
  \/ GetDao(m) \/ NewModel(m) \/ EnableCache(m) \/ DisableCache(m) \/ ClearCache(m)
  \/ BuildCond(m) \/ Search(m) \/ Query(m) \/ Update(m) \/ Delete(m) \/ Exec(m)
  \/ Begin(m) \/ Commit(m) \/ Rollback(m) \/ Close(m) \/ CommitFails(m)

Next ==
  \/ \E d \in Daos : NewXormDao(d) /\ UNCHANGED <<modelVars, txVars>>
  \/ \E m \in Models : Step(m)

Spec == Init /\ [][Next]_vars

-----------------------------------------------------------------------------
\* The conditions of a call that failed stay in the session whose models share it,
\* and are gone when it is closed: no other statement is ever restricted by them.
ConditionsStayInSession ==
  \A d \in Daos : left[d] # {} => sess[d] # "nil" /\ \A m \in left[d] : DaoOf[m] = d

\* A write of a transaction is durable without its Commit, or undone in spite of
\* it, only if another model that shares the session has ended it since Begin.
WholeUnlessCut == halved \subseteq cut

\* Rows older than the committed ones stay in the cache, with no ClearCache still to
\* come, only after a transaction wrote, the cache was switched off, or a dao that
\* does not use it wrote SQL of its own.
StaleNeedsDisorder ==
  \A t \in Tables : cache[t] = "stale" =>
    disorder \/ \E m \in Models : pc[m] = "clear" /\ TableOf[m] = t
=============================================================================
