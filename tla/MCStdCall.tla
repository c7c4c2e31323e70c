----------------------------- MODULE MCStdCall ------------------------------
(* StdCall with one server that comes and goes and one that stays.         *)
EXTENDS StdCall
CONSTANTS s1, s2, c1, w1
\* Bound: users race for the resolver, and close it, while no call is made; a
\* Download, which has nothing to do with the resolver, is made before there is one.
NoCall == \A c \in Callers : pc[c] \in {"idle", "over"}
Apart ==
  /\ canceled \/ (\E u \in Users : user[u] \in {"missed", "creating"}) => NoCall
  /\ watch # "none" => \A c \in downloads : pc[c] = "over"
=============================================================================
