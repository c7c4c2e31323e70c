------------------------------- MODULE MCP2c -------------------------------
EXTENDS P2c, TLC
Symmetry == Permutations(Rpcs)
\* Bound: connections in all; the subConns of two pickers have nothing in common.
FewConns == size[1] + size[2] <= 3
=============================================================================
