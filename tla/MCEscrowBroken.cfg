\* A vault whose balanceOf reverts.
CONSTANTS
  Principals = {client, agent}
  Nobody = Nobody
  Escrow = Escrow
  Treasury = Treasury
  FeeBps = 2500
  Tokens = {token}
  Supply = 14
  Budgets = {7, 11}
  Deadlines = {1}
  MaxJobs = 2
  MaxTime = 2
  MaxU256 = 25000
  Payees = {alice, bob, keeperhub, zhgg, commons}
  Keeperhub = keeperhub
  Zhgg = zhgg
  Commons = commons
  Fragile = {alice}
  Splitter = splitter
  TokenHolders = {alice, bob, keeperhub, zhgg, commons, wallet, splitter}
  Wallet = wallet
  TokenOwners = {alice, bob}
  Burnt = Burnt
  Vaults = {vaultA, vaultB}
  vaultA = vaultA
  Faults <- MCFaults
  NoVault = NoVault
  Payments = {6000, 10019}
  Parts = {4000}
  Yield = 7
  MaxIncome = 2
SPECIFICATION MCSpec
INVARIANT BrokenVaultNeverBricksSplit
CHECK_DEADLOCK FALSE
