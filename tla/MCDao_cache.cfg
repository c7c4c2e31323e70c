SPECIFICATION Spec
CONSTANTS
  g = g
  x = x
  y = y
  main = main
  other = other
  a = a
  b = b
  ga = ga
  xa = xa
  xb = xb
  Dsns = {main, other}
  Daos = {g, x, y}
  Conf <- MCConf
  Default = g
  Cached = {x}
  Tables = {a, b}
  Models = {ga, xa, xb}
  TableOf <- MCTableOf
  DaoOf <- MCDaoOf
INVARIANTS   WholeUnlessCut 
CHECK_DEADLOCK FALSE
CONSTRAINT RaceFirst
