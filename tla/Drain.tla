------------------------------- MODULE Drain -------------------------------
(***************************************************************************)
(* What signal.go promises its callers, without goroutines or counters:    *)
(* work begins while the process is up, the process is told to stop, and   *)
(* only when no work is left is it down and are those who asked answered.  *)
(***************************************************************************)
CONSTANTS Tasks, Askers

VARIABLES phase, work, answered
vars == <<phase, work, answered>>

Init == phase = "up" /\ work = {} /\ answered = {}

Begin(t) ==
  /\ phase = "up"
  /\ t \notin work
  /\ work' = work \cup {t}
  /\ UNCHANGED <<phase, answered>>

End(t) ==
  /\ t \in work
  /\ work' = work \ {t}
  /\ UNCHANGED <<phase, answered>>

Stop ==
  /\ phase = "up"
  /\ phase' = "draining"
  /\ UNCHANGED <<work, answered>>

Down ==
  /\ phase = "draining"
  /\ work = {}
  /\ phase' = "down"
  /\ UNCHANGED <<work, answered>>

Answer(a) ==
  /\ phase = "down"
  /\ answered' = answered \cup {a}
  /\ UNCHANGED <<phase, work>>

Next ==
  \/ \E t \in Tasks : Begin(t) \/ End(t)
  \/ Stop \/ Down
  \/ \E a \in Askers : Answer(a)

Spec == Init /\ [][Next]_vars
=============================================================================
