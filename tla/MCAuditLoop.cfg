CONSTANTS
  a = a
  other = other
  agent = agent
  owner = owner
  wallet = wallet
  Tokens = {agent}
  Callers = {owner, wallet}
  Plans = {bare, full}
  BarePlan = bare
  FullPlan = full
  Oversized = {full}
  Nobody = Nobody
  Roots = {a, other}
  NoRoot = NoRoot
  Results = {a, other}
  MaxBlock = 1
  Runs = {a}
  AgentOf <- MCAgentOf
  Wallet = wallet
  Probes = {p1, p2, p3}
  Quorum = "majority"
  Other = other
  OtherPlans = {bare}
  None = None
  ProbeCount = 2
  TeeProviders = {"tee"}
  Envelopes <- MCEnvelopes
SPECIFICATION MCSpec
INVARIANTS TranscriptIsHonest RevealFindsItsCommit EveryTraceIsStored EvidenceChecksOut TeeClaimIsTraced
PROPERTY EveryRunEnds
CHECK_DEADLOCK FALSE
