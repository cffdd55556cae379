CONSTANTS
  m1 = m1
  m2 = m2
  Minters = {m1, m2}
  Labels = {"a"}
  Unclaimed = "nobody"
  Commands <- MCCommands
  MaxCommands = 2
  Endpoints = 2
  Funds = 2
  Purchases = {p1}
  MaxSends = 1
INIT Buying
NEXT Next
INVARIANT ZeroHashIsFree
CHECK_DEADLOCK FALSE
