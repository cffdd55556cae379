\* Two concurrent calls of one intent.
CONSTANTS
  trip = trip
  stay = stay
  void = void
  base = base
  c1 = c1
  c2 = c2
  c3 = c3
  c4 = c4
  Calls = {c1, c2}
  Intents = {trip, stay, void}
  Nonces = {trip, stay, void}
  IntentOf <- MCIntentOf
  WellSigned = {c1, c2}
  NonceOf <- MCNonceOf
  DeadlineOf <- MCDeadlineOf
  LegsOf <- MCLegsOf
  Executors = {base}
  UnknownChain = UnknownChain
  MinSplit = 2
  RelayerFunds = 6
  MaxTime = 1
SPECIFICATION RelaySpec
INVARIANT PaidAtMostOnce
CHECK_DEADLOCK FALSE
