\* Two enforced runs that race for the last unit of the cap.
CONSTANTS
  alice = alice
  usdc = usdc
  default = default
  r1 = r1
  r2 = r2
  Principals = {alice, owner}
  Accounts = {alice}
  Assets = {usdc}
  PermissionIds = {default}
  DefaultBucket = default
  NoOwner = NoOwner
  Limits <- MCLimits
  Periods <- MCPeriods
  Expiries <- MCExpiries
  Amounts <- MCAmounts
  MaxTime = 2
  MaxU64 = 3
  Runs = {r1, r2}
  RunKey <- MCRunKey
  RunAmount <- MCRunAmount
  Enforce = {r1, r2}
SPECIFICATION GateSpec
INVARIANT EnforcedMeansDebited
