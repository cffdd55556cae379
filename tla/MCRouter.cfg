CONSTANTS
  Requests = {r1}
  MaxInFlight = 1
  Providers <- MCProviders
  ZgProviders = {4}
  Price <- MCPrice
  Latency <- MCLatency
  Intents <- MCIntents
  Classifications <- MCClassifications
  Overrides <- MCOverrides
  RootScope <- MCRootScope
  MaxTime = 2
  Answers <- MCAnswers
  NaN = NaN
  Malformed = Malformed
  Blank = Blank
  MaxEvents = 6
  MaxQueueSize = 2
SPECIFICATION MCSpec
INVARIANTS SpendWithinScope AnswersAreAttested NoCallOutlivesReply ConfidentMeansAgreement NoEventLost
PROPERTIES EveryRouteReturns EventuallyPinned
CHECK_DEADLOCK FALSE
