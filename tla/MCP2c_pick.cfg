SPECIFICATION Spec
CONSTANTS
  Rpcs = {k1, k2}
  MaxConns = 3
  MaxBuilds = 2
  MaxPicks = 2
  MaxNow = 4
  ForcePick = 1
  InitSuccess = 2
SYMMETRY Symmetry
INVARIANTS InflightExact PassedOverBound AveragesHold
CHECK_DEADLOCK FALSE
CONSTRAINT FewConns
