-------------------------------- MODULE Router --------------------------------
(***************************************************************************)
(* The inference router of packages/router/src: a caller has its mode      *)
(* decided (mode-decider.ts), hands the intent to the OpenClaw handler     *)
(* (providers/openclaw.ts), route() checks it against the scope            *)
(* (policy.ts, scope.ts), asks the pool for providers (pool.ts), calls     *)
(* them through their adapters (adapters/), settles each answer through    *)
(* KeeperHub (keeper.ts), scores the answers of a consensus and enqueues   *)
(* the audit event of a route that succeeds (AuditWriter).                 *)
(*                                                                         *)
(* What the code does between two awaits is one step.  The calls of a      *)
(* consensus run side by side and end in any order.  Prices are what the   *)
(* providers advertise; a provider of adapter zg is in a TEE, and its      *)
(* answers carry an attestation root, which those of x402 never do.        *)
(***************************************************************************)
EXTENDS Consensus

CONSTANTS
  Requests,         \* bound on the calls of route()
  MaxInFlight,      \* bound on the routes that run at a time
  Providers, ZgProviders, Price, Latency,
  Intents,          \* what the callers ask for
  Classifications,  \* what the classifier may answer
  Overrides,        \* what a scope may be narrowed to
  RootScope,        \* the scope that the operator signed
  MaxTime,          \* bound on the clock
  Answers           \* per output type and number of answers: what may be answered

\* MODES of intent.ts.
Modes == {"fast", "verified", "consensus", "pipeline"}

ASSUME RouterAssumption ==
  /\ ZgProviders \subseteq Providers /\ Providers \subseteq Nat
  /\ Price \in [Providers -> Nat] /\ Latency \in [Providers -> Nat]
  /\ MaxTime \in Nat /\ MaxInFlight \in Nat
  /\ IsFiniteSet(Providers)
  /\ \A i \in Intents : i.requested \in Modes /\ i.cost \in Nat /\ i.critical \in BOOLEAN
  /\ \A c \in Classifications : c.recommended \in Modes
  /\ RootScope.cost \in Int /\ RootScope.expiresAt \in Int /\ RootScope.ttl \in Int
  /\ RootScope.latency \in Int
  /\ \A o \in Overrides : o.cost \in Int /\ o.ttl \in Int /\ o.latency \in Int

\* The answers of each output type, as Consensus writes them.
ASSUME AnswersAssumption ==
  /\ DOMAIN Answers = {"categorical", "freeform", "numeric", "json"}
  /\ \A i \in Intents : i.type \in DOMAIN Answers
  /\ \A n \in {2, 3} :
       /\ Answers["categorical"][n] \subseteq [1 .. n -> Int]
       /\ Answers["numeric"][n] \subseteq [1 .. n -> Int \cup {NaN}]
       /\ \A a \in Answers["freeform"][n] :
            a.n = n /\ (a.sim = Blank \/ a.sim \in [Pairs(n) -> Int])
       /\ \A a \in Answers["json"][n] :
            /\ a = [i \in 1 .. n |-> a[i]]
            /\ \A i \in 1 .. n : a[i] = Malformed \/ IsFiniteSet(DOMAIN a[i])

VARIABLES
  req,       \* per request: how far its route has come, its mode, its reply
  calls,     \* per request: its calls of inferAndSettle, in the order of providers
  logged,    \* the requests whose audit event was handed to the audit writer
  scope, now

routeVars == <<req, calls, logged>>
vars == <<routeVars, scope, now>>

-----------------------------------------------------------------------------
(* The mode                                                                *)

Tier == [fast |-> 0, verified |-> 1, consensus |-> 2, pipeline |-> 3]

\* The classifier is not configured, cannot be reached or answers rubbish.
Unclassified == [score |-> 0, recommended |-> "fast", confidence |-> 0]

\* Mutant of DecideMode: a critical intent is downgraded like any other.
DecideModeBlindly(i, c) ==
  LET upgrade == Tier[c.recommended] > Tier[i.requested] /\ i.allowUpgrade
      downgrade == Tier[c.recommended] < Tier[i.requested] /\ i.allowDowngrade /\ c.score <= 3
  IN  IF c.confidence >= 7 /\ (upgrade \/ downgrade) THEN c.recommended ELSE i.requested

DecideMode(i, c) ==
  LET upgrade == Tier[c.recommended] > Tier[i.requested] /\ i.allowUpgrade
      downgrade == /\ Tier[c.recommended] < Tier[i.requested]
                   /\ i.allowDowngrade /\ c.score <= 3 /\ ~i.critical
  IN  IF c.confidence >= 7 /\ (upgrade \/ downgrade) THEN c.recommended ELSE i.requested

-----------------------------------------------------------------------------
(* Scope and policy                                                        *)

NarrowedUntil(parent, o, end) ==
  [modes |-> parent.modes \cap o.modes,
   cost |-> Min({parent.cost, o.cost}),
   latency |-> Min({parent.latency, o.latency}),
   ttl |-> Max({0, end - now}),
   expiresAt |-> end]

\* narrowScope: the child's limits are at most the parent's, and its end too.
Narrowed(parent, o) ==
  NarrowedUntil(parent, o, Min({now + Min({o.ttl, parent.ttl}), parent.expiresAt}))

\* evaluate(): the rules that the intent breaks.
Violations(i, mode) ==
  {rule \in {"spend_cap", "latency_cap", "mode_allowed", "not_expired"} :
     \/ rule = "spend_cap" /\ i.cost > scope.cost
     \/ rule = "latency_cap" /\ i.latency > scope.latency
     \/ rule = "mode_allowed" /\ mode \notin scope.modes
     \/ rule = "not_expired" /\ now >= scope.expiresAt}

Narrow ==
  /\ \E o \in Overrides : scope' = Narrowed(scope, o)
  /\ UNCHANGED <<now, routeVars>>

Tick ==
  /\ now < MaxTime
  /\ now' = now + 1
  /\ UNCHANGED <<scope, routeVars>>

-----------------------------------------------------------------------------
(* The pool                                                                *)

Before(p, q) ==
  \/ Price[p] < Price[q]
  \/ Price[p] = Price[q] /\ Latency[p] < Latency[q]
  \/ Price[p] = Price[q] /\ Latency[p] = Latency[q] /\ p < q

\* Mutant of Share: each step of a pipeline gets the whole budget.
ShareOnce(mode) == IF mode = "consensus" THEN 3 ELSE 1

\* Into how many calls a mode divides its budget.
Share(mode) == CASE mode = "consensus" -> 3 [] mode = "pipeline" -> 2 [] OTHER -> 1

\* How many of a set come before one of them.
Rank(S, p) == Cardinality({q \in S : Before(q, p)})

InOrder(S) == [k \in 1 .. Cardinality(S) |-> CHOOSE p \in S : Rank(S, p) = k - 1]

\* The n first of the eligible, and, when one of them must be in a TEE and none
\* is, the last of them exchanged for the first that is.
Query(listed, tee, i, share, n) ==
  LET eligible == {p \in listed : /\ tee => p \in ZgProviders
                                  /\ Price[p] * share <= i.cost
                                  /\ Latency[p] <= i.latency}
      attested == eligible \cap ZgProviders
      top == {p \in eligible : Rank(eligible, p) < n}
      swapped == {p \in eligible : Rank(eligible, p) < n - 1}
                   \cup {p \in attested : Rank(attested, p) = 0}
  IN  InOrder(IF n > 1 /\ attested # {} /\ top \cap ZgProviders = {} THEN swapped ELSE top)

\* What the adapters list: nothing when the broker or the Bazaar fails, or, for
\* x402, what its cache still holds.
ZgListing == {{}, ZgProviders}
X402Listing == {{}, Providers \ ZgProviders}

-----------------------------------------------------------------------------
(* One route                                                               *)

Unscored == [type |-> "none", low |-> TRUE, outliers |-> 0, of |-> 0]

Idle == [phase |-> "idle", intent |-> CHOOSE i \in Intents : TRUE, mode |-> "fast",
         began |-> 0, reply |-> "none", score |-> Unscored]

Init ==
  /\ req = [r \in Requests |-> Idle]
  /\ calls = [r \in Requests |-> <<>>]
  /\ logged = {}
  /\ scope = RootScope
  /\ now = 0

Reply(r, reply) == req' = [req EXCEPT ![r].phase = "over", ![r].reply = reply]

InFlight(r) == req[r].phase \in {"listing", "calling"}

\* route() up to its first await.
Admitted(i, mode) ==
  IF Violations(i, mode) = {}
  THEN [Idle EXCEPT !.phase = "listing", !.intent = i, !.mode = mode, !.began = now]
  ELSE [Idle EXCEPT !.phase = "over", !.intent = i, !.mode = mode, !.reply = "policy"]

ClassifierOutcomes == Classifications \cup {Unclassified}

\* The handler of a completion: the mode, the policy, and the call of the pool.
Ask(r) ==
  /\ req[r].phase = "idle"
  /\ Cardinality({s \in Requests : InFlight(s)}) < MaxInFlight
  /\ \E i \in Intents, c \in ClassifierOutcomes :
       req' = [req EXCEPT ![r] = Admitted(i, DecideMode(i, c))]
  /\ UNCHANGED <<calls, logged, scope, now>>

\* The second step of a pipeline, and the only one of verified, are in a TEE.
NeedsTee(r) == req[r].mode = "verified" \/ (req[r].mode = "pipeline" /\ calls[r] # <<>>)

\* The pool has answered: the calls begin, all of them at once.
Select(r) ==
  /\ req[r].phase = "listing"
  /\ \E zg \in ZgListing, x402 \in X402Listing :
       LET mode == req[r].mode
           found == Query(zg \cup x402, NeedsTee(r), req[r].intent, Share(mode),
                          IF mode = "consensus" THEN 3 ELSE 1)
       IN  IF found = <<>>
           THEN Reply(r, "no_provider") /\ UNCHANGED calls
           ELSE /\ req' = [req EXCEPT ![r].phase = "calling"]
                /\ calls' = [calls EXCEPT ![r] = @ \o
                     [k \in DOMAIN found |-> [provider |-> found[k], state |-> "inferring"]]]
  /\ UNCHANGED <<logged, scope, now>>

SetCall(r, k, state) == calls' = [calls EXCEPT ![r][k].state = state]

CallStep(r, k, from, to) ==
  /\ k \in DOMAIN calls[r]
  /\ calls[r][k].state = from
  /\ SetCall(r, k, to)
  /\ UNCHANGED <<logged, scope, now>>

\* The receipt is the calldata that the keeper is asked to settle.
Answer(r, k) == CallStep(r, k, "inferring", "settling") /\ UNCHANGED req

NoAnswer(r, k) == CallStep(r, k, "inferring", "unanswered") /\ UNCHANGED req

\* The adapter throws, or appendFee, before the try of settle: the rejection goes
\* through inferAndSettle, Promise.all and route.
Unsettleable(r, k) ==
  /\ CallStep(r, k, "inferring", "threw")
  /\ IF req[r].phase = "calling" THEN Reply(r, "threw") ELSE UNCHANGED req

\* zg: the receipt is the id of the chat, which need not be hex; appendFee throws
\* then.  No answer when the provider fails, its answer is empty, or its
\* attestation is false or null.
ZgInfer(r, k) ==
  /\ k \in DOMAIN calls[r] /\ calls[r][k].provider \in ZgProviders
  /\ NoAnswer(r, k) \/ Answer(r, k) \/ Unsettleable(r, k)

\* x402: the receipt is that of the payment.  No answer when the payment fails,
\* or after the payment, when the answer is an error or empty.  After the payment,
\* too, a body that is null makes the adapter throw, and a receipt that is no hex
\* appendFee.
X402Infer(r, k) ==
  /\ k \in DOMAIN calls[r] /\ calls[r][k].provider \notin ZgProviders
  /\ NoAnswer(r, k) \/ Answer(r, k) \/ Unsettleable(r, k)

SettleOk(r, k) == CallStep(r, k, "settling", "settled") /\ UNCHANGED req

\* The keeper cannot be reached, answers rubbish or reports no confirmation,
\* whether or not the settlement has been sent.
SettleFails(r, k) == CallStep(r, k, "settling", "unsettled") /\ UNCHANGED req

Of(r, states) == {k \in DOMAIN calls[r] : calls[r][k].state \in states}

Pending(r) == Of(r, {"inferring", "settling"})

\* Mutant of Ended: two settled answers are a quorum, whatever the third does.
EndedAtQuorum(r) ==
  /\ req[r].phase = "calling"
  /\ Pending(r) = {} \/ Cardinality(Of(r, {"settled"})) >= 2

\* Mutant of Ended: a consensus waits for as many calls as it asked for.
EndedWithThree(r) ==
  /\ req[r].phase = "calling" /\ Pending(r) = {}
  /\ req[r].mode = "consensus" => Len(calls[r]) = 3

\* Every call that the route awaits has ended.
Ended(r) == req[r].phase = "calling" /\ Pending(r) = {}

-----------------------------------------------------------------------------
(* What the route makes of its calls                                       *)

\* What the score of n answers of a type may come to: the answers are given up
\* for the share of them that agree.
Scores(type, answers) ==
  CASE type = "categorical" -> ScoreCategorical(answers)
    [] type = "freeform"    -> ScoreFreeform(answers.sim, answers.n)
    [] type = "numeric"     -> ScoreNumeric(answers)
    [] type = "json"        -> ScoreJson(answers)

Verdict(type, answers, n) ==
  LET score == Scores(type, answers)
  IN  [type |-> type, low |-> score.low, outliers |-> Cardinality(score.outliers), of |-> n]

Verdicts == [type \in DOMAIN Answers |->
               [n \in {2, 3} |-> {Verdict(type, a, n) : a \in Answers[type][n]}]]

\* fast, verified and each step of a pipeline fail with their only call.
SingleFails(r) ==
  /\ Ended(r)
  /\ req[r].mode # "consensus"
  /\ Of(r, {"unanswered", "unsettled"}) # {}
  /\ Reply(r, IF Of(r, {"unanswered"}) # {} THEN "inference_failed" ELSE "settlement_failed")
  /\ UNCHANGED <<calls, logged, scope, now>>

\* The audit event of a route that succeeds.
Succeed(r, score) ==
  /\ req' = [req EXCEPT ![r].phase = "over", ![r].reply = "ok", ![r].score = score]
  /\ logged' = logged \cup {r}
  /\ UNCHANGED <<calls, scope, now>>

SettledAll(r, mode, n) ==
  /\ Ended(r)
  /\ req[r].mode = mode
  /\ Len(calls[r]) = n /\ Of(r, {"settled"}) = 1 .. n

FastAnswers(r) == SettledAll(r, "fast", 1) /\ Succeed(r, Unscored)

VerifiedAnswers(r) == SettledAll(r, "verified", 1) /\ Succeed(r, Unscored)

\* The first step of a pipeline has ended, the pool is asked for the second.
ResearchAnswers(r) ==
  /\ SettledAll(r, "pipeline", 1)
  /\ req' = [req EXCEPT ![r].phase = "listing"]
  /\ UNCHANGED <<calls, logged, scope, now>>

DecisionAnswers(r) == SettledAll(r, "pipeline", 2) /\ Succeed(r, Unscored)

Attested(r) == \E k \in Of(r, {"settled"}) : calls[r][k].provider \in ZgProviders

ConsensusRefused(r) ==
  CASE Cardinality(Of(r, {"settled"})) < 2 -> "no_consensus"
    [] Cardinality(Of(r, {"settled"})) >= 2 /\ ~Attested(r) -> "attestation_required"
    [] OTHER -> "none"

ConsensusFails(r) ==
  /\ Ended(r)
  /\ req[r].mode = "consensus"
  /\ ConsensusRefused(r) # "none"
  /\ Reply(r, ConsensusRefused(r))
  /\ UNCHANGED <<calls, logged, scope, now>>

ConsensusAnswers(r) ==
  /\ Ended(r)
  /\ req[r].mode = "consensus"
  /\ ConsensusRefused(r) = "none"
  /\ \E v \in Verdicts[req[r].intent.type][Cardinality(Of(r, {"settled"}))] : Succeed(r, v)

-----------------------------------------------------------------------------

Call(r, k) == ZgInfer(r, k) \/ X402Infer(r, k) \/ SettleOk(r, k) \/ SettleFails(r, k)

Conclude(r) ==
  \/ SingleFails(r)
  \/ FastAnswers(r) \/ VerifiedAnswers(r)
  \/ ResearchAnswers(r) \/ DecisionAnswers(r)
  \/ ConsensusFails(r) \/ ConsensusAnswers(r)

Next ==
  \/ \E r \in Requests : Ask(r) \/ Select(r) \/ Conclude(r) \/ \E k \in 1 .. 3 : Call(r, k)
  \/ Narrow \/ Tick

Spec == Init /\ [][Next]_vars

\* Adapters and keeper answer or fail, each within its own timeout.
FairSpec ==
  /\ Spec
  /\ \A r \in Requests :
       WF_vars(Select(r)) /\ WF_vars(Conclude(r)) /\ \A k \in 1 .. 3 : WF_vars(Call(r, k))

-----------------------------------------------------------------------------

\* However often the scope was narrowed, a route that calls anybody began before
\* the end of the scope the operator signed, in a mode of that scope, and the
\* calls it makes together, of a consensus or of both steps of a pipeline, were
\* advertised within the budget of its intent, and that within the scope's.
SpendWithinScope ==
  \A r \in Requests : calls[r] # <<>> =>
    /\ Total([k \in DOMAIN calls[r] |-> Price[calls[r][k].provider]]) <= req[r].intent.cost
    /\ req[r].intent.cost <= RootScope.cost
    /\ req[r].mode \in RootScope.modes
    /\ req[r].began < RootScope.expiresAt

\* An answer in another mode than fast rests on a TEE provider that answered and
\* was settled, in a pipeline the one that decided; and no classifier can talk a
\* critical request for such an answer down to less.
AnswersAreAttested ==
  \A r \in Requests : req[r].reply = "ok" =>
    /\ req[r].mode # "fast" => Attested(r)
    /\ req[r].mode = "pipeline" => calls[r][2].provider \in ZgProviders
    /\ req[r].intent.critical => Tier[req[r].mode] >= Tier[req[r].intent.requested]

\* When route() has returned a result, right or wrong, none of its calls is still
\* under way to be paid.
NoCallOutlivesReply ==
  \A r \in Requests : req[r].reply \notin {"none", "threw"} => Pending(r) = {}

\* A consensus that is not flagged low_confidence has no outlier: with two or
\* three answers, one that stands apart pulls the score below the threshold.  Only
\* JSON answers, which are scored key by key, may keep one outlier, never two.
ConfidentMeansAgreement ==
  \A r \in Requests : ~req[r].score.low =>
    /\ req[r].score.outliers <= 1
    /\ req[r].score.type # "json" => req[r].score.outliers = 0

\* Every call of route() comes to an end.
EveryRouteReturns ==
  \A r \in Requests : InFlight(r) ~> req[r].phase = "over"

=============================================================================
