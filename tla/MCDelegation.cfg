CONSTANTS
  wallet = wallet
  alice = alice
  bob = bob
  agent = agent
  shop = shop
  usdc = usdc
  default = default
  saltA = saltA
  saltB = saltB
  Principals = {wallet, alice, bob, agent}
  Accounts = {wallet}
  Assets = {usdc}
  PermissionIds = {default}
  DefaultBucket = default
  NoOwner = NoOwner
  Limits = {2}
  Periods = {2}
  Expiries = {0}
  Amounts = {1}
  MaxTime = 2
  MaxU64 = 100
  Owners = {alice, bob}
  Nobody = Nobody
  Delegations <- MCDelegations
  ThisManager = ThisManager
  OtherManager = OtherManager
  NoManager = NoManager
  CapTarget = CapTarget
  NoAsset = NoAsset
  Values = {0, 2}
  Funds = 3
  MaxBatch = 2
  NoBatch = NoBatch
SPECIFICATION DelegationSpec
INVARIANT CapBoundsBatch
PROPERTY ImplementsAuthority
