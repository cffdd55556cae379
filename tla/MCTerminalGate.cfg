\* Two dispatchers side by side, of five kinds, and one new terminal; two enforced
\* runs on one cap of 2 per period of 2, three instants of time: a period that
\* begins at the last one overflows the uint64 of this instance (3).
CONSTANTS
  Kinds <- MCKinds
  MaxDispatches = 2
  MaxRestarts = 1
  alice = alice
  usdc = usdc
  default = default
  r1 = r1
  r2 = r2
  Principals = {alice, owner}
  Accounts = {alice}
  Assets = {usdc}
  PermissionIds = {default}
  DefaultBucket = default
  NoOwner = NoOwner
  Limits <- MCLimits
  Periods <- MCPeriods
  Expiries <- MCExpiries
  Amounts <- MCAmounts
  MaxTime = 2
  MaxU64 = 3
  Runs = {r1, r2}
  RunKey <- MCRunKey
  RunAmount <- MCRunAmount
  Enforce = {r1, r2}
SPECIFICATION MCSpec
INVARIANTS FlowTellsTheRun LabelHasAnOwner WindowBound
PROPERTIES GrantIsWhatWasShown EveryDispatchEnds DeadCapIsInert RevertHasACause EveryRunSettles
