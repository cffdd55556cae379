\* Two commands side by side: the second simulates before the first is mined.
CONSTANTS
  m1 = m1
  m2 = m2
  Minters = {m1, m2}
  Labels = {"a"}
  Unclaimed = "nobody"
  Commands <- MCCommands
  MaxCommands = 2
  Endpoints = 2
  Funds = 2
  Purchases = {p1}
  MaxSends = 1
INIT Operating
NEXT Next
INVARIANT SwapFailuresSurface
CHECK_DEADLOCK FALSE
