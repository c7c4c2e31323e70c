----------------------------- MODULE MCSession ------------------------------
EXTENDS Session, TLC
Symmetry == Permutations(Requests) \cup Permutations(Clients \ {DefaultIns})
\* Bound: all of a second pool comes before the requests, or not at all: they see
\* no more of the pools than whether that of DefaultIns, the first, is closed.
PoolsFirst == dialed = 1 \/ \A r \in Requests : pc[r] = "idle"
=============================================================================
