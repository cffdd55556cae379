\* Two programs, two commands, or one purchase whose payload is sent three times;
\* or two well-signed calls of one intent, a badly signed one and an empty one.
CONSTANTS
  m1 = m1
  m2 = m2
  Minters = {m1, m2}
  Labels = {"a"}
  Unclaimed = "nobody"
  Commands <- MCCommands
  MaxCommands = 2
  Endpoints = 2
  Funds = 2
  Purchases = {p1}
  MaxSends = 3
  trip = trip
  stay = stay
  void = void
  base = base
  c1 = c1
  c2 = c2
  c3 = c3
  c4 = c4
  Calls = {c1, c2, c3, c4}
  Intents = {trip, stay, void}
  Nonces = {trip, stay, void}
  IntentOf <- MCIntentOf
  WellSigned = {c1, c2}
  NonceOf <- MCNonceOf
  DeadlineOf <- MCDeadlineOf
  LegsOf <- MCLegsOf
  Executors = {base}
  UnknownChain = UnknownChain
  MinSplit = 2
  RelayerFunds = 6
  MaxTime = 1
SPECIFICATION MCSpec
CHECK_DEADLOCK FALSE
INVARIANTS
  ReportIsTrue
  OutcomeIsTrue
  RouterKeepsNothing
  MoneyForWork
  AnswerTellsThePayment
  SubmittedIsAuthorised
  RetryIsRefused
  EveryLegIsReported
PROPERTIES
  EveryAgentEnds
  EveryRelayReturns
