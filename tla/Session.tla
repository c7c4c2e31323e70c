------------------------------ MODULE Session -------------------------------
(***************************************************************************)
(* The sessions of session/session.go in redis, one browser with several   *)
(* requests under way at a time: each takes the session id from the cookie *)
(* or makes one, the handler works on the hash of that id, and at its end  *)
(* the hash is renamed to a new id, which the response tells the browser.  *)
(* All errors of the store are ignored by the callers.                     *)
(***************************************************************************)
EXTENDS RedisPool

CONSTANTS
  Requests,  \* of the browser; the uuid each makes for itself bears its name
  none,      \* no cookie
  MaxFails   \* bound: commands that fail, and responses that are lost

ASSUME SessionAssumption == none \notin Requests /\ MaxFails \in Nat

VARIABLES
  reName, expires, cluster,  \* the configuration
  pc,       \* pc[r]: where request r is
  id,       \* id[r]: the session id it uses
  isNew,    \* the requests that set the cookie
  flushed,  \* those whose handler has written the header before Finish
  jar,      \* the browser's cookie
  cookie,   \* cookie[r]: what the response sets
  hash,     \* external, hash[i]: what the requests have put under the id i; no
            \* key if nothing
  ttl,      \* external: the ids whose keys expire
  fails,
  kept,     \* history: values that were put, and neither deleted nor expired
  unset,    \* history: ids whose keys a Put has created, or which EXPIRE did not reach
  disorder  \* history: requests overlapped that do not share a fixed id, or a
            \* response did not bring its cookie, or a command failed

config == <<reName, expires, cluster>>
redisVars == <<hash, ttl>>
requestVars == <<pc, id, isNew, flushed, jar, cookie>>
historyVars == <<kept, unset, disorder>>
vars == <<poolVars, config, redisVars, requestVars, fails, historyVars>>

Ids == Requests \cup {none}

TypeOK ==
  /\ PoolTypeOK
  /\ reName \in BOOLEAN /\ expires \in BOOLEAN /\ cluster \in BOOLEAN
  /\ pc \in [Requests -> {"idle", "handler", "expire", "close", "sent", "over"}]
  /\ id \in [Requests -> Ids] /\ cookie \in [Requests -> Ids] /\ jar \in Ids
  /\ isNew \subseteq Requests /\ flushed \subseteq Requests
  /\ hash \in [Requests -> SUBSET Requests] /\ ttl \subseteq Requests
  /\ fails \in 0..MaxFails
  /\ kept \subseteq Requests /\ unset \subseteq Requests /\ disorder \in BOOLEAN

Init ==
  /\ PoolInit
  /\ reName \in BOOLEAN /\ expires \in BOOLEAN /\ cluster \in BOOLEAN
  /\ pc = [r \in Requests |-> "idle"]
  /\ id = [r \in Requests |-> none] /\ cookie = [r \in Requests |-> none]
  /\ isNew = {} /\ flushed = {} /\ jar = none
  /\ hash = [i \in Requests |-> {}] /\ ttl = {}
  /\ fails = 0 /\ kept = {} /\ unset = {} /\ disorder = FALSE

Busy == {r \in Requests : pc[r] \notin {"idle", "over"}}

-----------------------------------------------------------------------------
(* Commands. A command is executed or not, and the client told so or not.  *)

Fail == fails < MaxFails /\ fails' = fails + 1 /\ disorder' = TRUE
Fine == Up(DefaultIns) /\ UNCHANGED <<fails, disorder>>
Down == ~Up(DefaultIns) /\ UNCHANGED fails /\ disorder' = TRUE

\* The key of i holds S from now on. It is deleted with its last field.
Holds(i, S) ==
  /\ hash' = [hash EXCEPT ![i] = S]
  /\ ttl' = IF S = {} THEN ttl \ {i} ELSE ttl
  /\ unset' = IF S = {} THEN unset \ {i} ELSE IF hash[i] = {} THEN unset \cup {i} ELSE unset

\* What the command does that leaves S under i, and the values of kept.
Command(i, S, K) ==
  \/ Fine /\ Holds(i, S) /\ kept' = K
  \/ Up(DefaultIns) /\ Fail /\ Holds(i, S) /\ kept' = K
  \/ Fail /\ UNCHANGED <<hash, ttl, unset, kept>>
  \/ Down /\ UNCHANGED <<hash, ttl, unset, kept>>

HSet(i, v) == Command(i, hash[i] \cup {v}, kept \cup {v})
HDel(i, v) == Command(i, hash[i] \ {v}, kept \ {v})
DelKey(i) == Command(i, {}, kept \ hash[i])

-----------------------------------------------------------------------------
(* A request.                                                              *)

\* Requests that overlap go astray if one of them makes or renames an id.
NewSession(r) ==
  /\ pc[r] = "idle"
  /\ pc' = [pc EXCEPT ![r] = "handler"]
  /\ id' = [id EXCEPT ![r] = IF jar = none THEN r ELSE jar]
  /\ isNew' = IF jar = none THEN isNew \cup {r} ELSE isNew
  /\ disorder' = (disorder \/ (Busy # {} /\ (reName \/ jar = none)))
  /\ UNCHANGED <<poolVars, config, redisVars, flushed, jar, cookie, fails, kept, unset>>

Put(r) ==
  /\ pc[r] = "handler" /\ r \notin kept
  /\ HSet(id[r], r)
  /\ UNCHANGED <<poolVars, config, requestVars>>

Del(r) ==
  /\ pc[r] = "handler"
  /\ \E v \in hash[id[r]] : HDel(id[r], v)
  /\ UNCHANGED <<poolVars, config, requestVars>>

Destroy(r) ==
  /\ pc[r] = "handler"
  /\ DelKey(id[r])
  /\ UNCHANGED <<poolVars, config, requestVars>>

\* ReturnFileContent, or a handler that writes on its own.
WriteHeader(r) ==
  /\ pc[r] = "handler"
  /\ flushed' = flushed \cup {r}
  /\ UNCHANGED <<poolVars, config, redisVars, pc, id, isNew, jar, cookie, fails, historyVars>>

\* Finish of a request that was upgraded or hijacked: the session is not closed.
Hijacked(r) ==
  /\ pc[r] = "handler"
  /\ pc' = [pc EXCEPT ![r] = "over"]
  /\ disorder' = (disorder \/ r \in isNew)
  /\ UNCHANGED <<poolVars, config, redisVars, id, isNew, flushed, jar, cookie, fails, kept, unset>>

\* RenameNx of a key that exists to the uuid of r, which no key has.
Moved(r) ==
  /\ hash' = [hash EXCEPT ![r] = hash[id[r]], ![id[r]] = {}]
  /\ ttl' = IF id[r] \in ttl THEN (ttl \ {id[r]}) \cup {r} ELSE ttl

Renames(r) == r \notin isNew /\ reName

\* Variant: the old key stays, as in Rename of a cluster.
RenameCopies(r) ==
  /\ pc[r] = "handler" /\ Renames(r) /\ ~cluster /\ hash[id[r]] # {} /\ Fine
  /\ hash' = [hash EXCEPT ![r] = hash[id[r]]]
  /\ pc' = [pc EXCEPT ![r] = "expire"]
  /\ UNCHANGED <<poolVars, config, ttl, unset, id, isNew, flushed, jar, cookie, kept>>

Rename(r) ==
  /\ pc[r] = "handler" /\ Renames(r) /\ ~cluster /\ hash[id[r]] # {} /\ Fine
  /\ Moved(r) /\ unset' = unset \ {id[r]}
  /\ pc' = [pc EXCEPT ![r] = "expire"]
  /\ UNCHANGED <<poolVars, config, id, isNew, flushed, jar, cookie, kept>>

\* There is no such key, redis is a cluster, where RenameNx reads the key as a string,
\* or the answer does not come: the id stays as it was.
RenameFails(r) ==
  /\ pc[r] = "handler" /\ Renames(r)
  /\ \/ (cluster \/ hash[id[r]] = {}) /\ Fine /\ UNCHANGED <<hash, ttl, unset>>
     \/ (Down \/ Fail) /\ UNCHANGED <<hash, ttl, unset>>
     \/ /\ Up(DefaultIns) /\ Fail /\ ~cluster /\ hash[id[r]] # {}
        /\ Moved(r) /\ unset' = (unset \ {id[r]}) \cup {r}
  /\ pc' = [pc EXCEPT ![r] = "close"]
  /\ UNCHANGED <<poolVars, config, id, isNew, flushed, jar, cookie, kept>>

\* Variant: the old key is told to expire.
ExpireOld(r) ==
  /\ pc[r] = "expire"
  /\ ttl' = IF expires /\ hash[id[r]] # {} THEN ttl \cup {id[r]} ELSE ttl
  /\ pc' = [pc EXCEPT ![r] = "close"]
  /\ id' = [id EXCEPT ![r] = r] /\ isNew' = isNew \cup {r}
  /\ UNCHANGED <<poolVars, config, hash, flushed, jar, cookie, fails, kept, unset, disorder>>

\* The rest of Rename, and the new id. An error of Expire is not looked at.
Expire(r) ==
  /\ pc[r] = "expire"
  /\ \/ Fine /\ ttl' = (IF expires /\ hash[r] # {} THEN ttl \cup {r} ELSE ttl) /\ UNCHANGED unset
     \/ expires /\ (Down \/ Fail) /\ unset' = unset \cup {r} /\ UNCHANGED ttl
  /\ pc' = [pc EXCEPT ![r] = "close"]
  /\ id' = [id EXCEPT ![r] = r] /\ isNew' = isNew \cup {r}
  /\ UNCHANGED <<poolVars, config, hash, flushed, jar, cookie, kept>>

\* Variant: only a session that was made by this request sets the cookie.
SetCookieFirst(r) ==
  /\ pc[r] = "close" \/ (pc[r] = "handler" /\ ~Renames(r))
  /\ pc' = [pc EXCEPT ![r] = "sent"]
  /\ cookie' = [cookie EXCEPT ![r] = IF r \in isNew \ flushed /\ jar = none THEN id[r] ELSE none]
  /\ disorder' = (disorder \/ r \in isNew \cap flushed)
  /\ UNCHANGED <<poolVars, config, redisVars, id, isNew, flushed, jar, fails, kept, unset>>

\* The end of Close. SetCookie comes too late if the header is written.
SetCookie(r) ==
  /\ pc[r] = "close" \/ (pc[r] = "handler" /\ ~Renames(r))
  /\ pc' = [pc EXCEPT ![r] = "sent"]
  /\ cookie' = [cookie EXCEPT ![r] = IF r \in isNew \ flushed THEN id[r] ELSE none]
  /\ disorder' = (disorder \/ r \in isNew \cap flushed)
  /\ UNCHANGED <<poolVars, config, redisVars, id, isNew, flushed, jar, fails, kept, unset>>

\* The browser gets the response, or never does.
Response(r) ==
  /\ pc[r] = "sent"
  /\ pc' = [pc EXCEPT ![r] = "over"]
  /\ \/ /\ jar' = IF cookie[r] = none THEN jar ELSE cookie[r]
        /\ UNCHANGED <<fails, disorder>>
     \/ Fail /\ UNCHANGED jar
  /\ UNCHANGED <<poolVars, config, redisVars, id, isNew, flushed, cookie, kept, unset>>

\* Time passes.
KeyExpires(i) ==
  /\ i \in ttl
  /\ Holds(i, {}) /\ kept' = kept \ hash[i]
  /\ UNCHANGED <<poolVars, config, requestVars, fails, disorder>>

Step(r) ==
  \/ NewSession(r) \/ Put(r) \/ Del(r) \/ Destroy(r) \/ WriteHeader(r) \/ Hijacked(r)
  \/ Rename(r) \/ RenameFails(r) \/ Expire(r) \/ SetCookie(r) \/ Response(r)

Next ==
  \/ \E c \in Clients : PoolStep(c) /\ UNCHANGED <<config, redisVars, requestVars, fails, historyVars>>
  \/ \E r \in Requests : Step(r) \/ KeyExpires(r)

Spec == Init /\ [][Next]_vars

-----------------------------------------------------------------------------
\* What a request has put is under the id that the browser has when all requests are
\* over, unless they overlapped while ids changed, a response did not bring its
\* cookie or a command failed.
LostNeedsDisorder ==
  Busy = {} /\ ~disorder => \A v \in kept : jar # none /\ v \in hash[jar]

\* However requests rename, write and destroy a session at a time, it is never there
\* twice: what is destroyed does not come back under another id.
NeverTwice ==
  \A i, j \in Requests : i # j => hash[i] \cap hash[j] = {}

\* A session that was renamed expires, unless EXPIRE is still to come or did not reach
\* it, or the key was gone in between and a late Put made it again.
EndlessNeedsCause ==
  expires => \A i \in Requests :
    hash[i] # {} /\ i \notin ttl => i \in unset \/ pc[i] = "expire"
=============================================================================
