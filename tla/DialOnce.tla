------------------------------ MODULE DialOnce ------------------------------
(***************************************************************************)
(* What grpc/client/conn.go promises: the first call for a service that    *)
(* succeeds connects, every other call for it gets that connection, and a  *)
(* call that fails leaves nothing behind.                                  *)
(***************************************************************************)
EXTENDS Naturals

CONSTANTS Callers, Services

VARIABLES
  made,   \* services with a connection
  dials,  \* connections made
  got     \* got[c]: the service c has a connection to, "none" yet or "error"
vars == <<made, dials, got>>

Init == made = {} /\ dials = 0 /\ got = [c \in Callers |-> "none"]

Make(c, s) ==
  /\ got[c] = "none" /\ s \notin made
  /\ made' = made \cup {s}
  /\ dials' = dials + 1
  /\ got' = [got EXCEPT ![c] = s]

Take(c, s) ==
  /\ got[c] = "none" /\ s \in made
  /\ got' = [got EXCEPT ![c] = s]
  /\ UNCHANGED <<made, dials>>

Fail(c) ==
  /\ got[c] = "none"
  /\ got' = [got EXCEPT ![c] = "error"]
  /\ UNCHANGED <<made, dials>>

Next == \E c \in Callers : Fail(c) \/ \E s \in Services : Make(c, s) \/ Take(c, s)

Spec == Init /\ [][Next]_vars
=============================================================================
