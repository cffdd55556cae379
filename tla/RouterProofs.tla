---------------------------- MODULE RouterProofs ----------------------------
(***************************************************************************)
(* What is proved of the router, for any number of requests, any           *)
(* providers, prices, intents, scopes and answers: route() leaves nothing  *)
(* behind (RouterInv), spends within its intent and the scope that the     *)
(* operator signed, and answers with the attestation that was asked for    *)
(* (SpendInv); a consensus that it does not flag has no outlier, or a      *)
(* single one among JSON answers (ScoreInv).  And of the audit writer, for *)
(* any number of events and any size of its queue: it loses no event and   *)
(* keeps their order (WriterInv), and a close() while no upload is in      *)
(* flight leaves nothing behind.                                           *)
(***************************************************************************)
EXTENDS Router, AuditWriter, SumTheorems, SequenceTheorems, TLAPS

\* As much of the shape of a request as EXCEPT needs to keep it.
IsRequest(R) ==
  /\ R = [f \in DOMAIN R |-> R[f]]
  /\ {"phase", "reply", "score", "intent", "mode", "began"} \subseteq DOMAIN R

\* Where a route is tells what is still pending, and whether it has replied.  A
\* pipeline is back in "listing" after its first step, which has ended by then.
RouteInv(r) ==
  /\ IsRequest(req[r])
  /\ req[r].phase \in {"idle", "listing", "calling", "over"}
  /\ req[r].phase = "idle" => calls[r] = <<>>
  /\ req[r].phase = "listing" => Pending(r) = {}
  /\ req[r].phase # "over" => req[r].reply = "none"
  /\ req[r].phase = "over" => req[r].reply = "threw" \/ Pending(r) = {}

RouterInv ==
  /\ DOMAIN req = Requests /\ req = [r \in Requests |-> req[r]]
  /\ DOMAIN calls = Requests /\ calls = [r \in Requests |-> calls[r]]
  /\ \A r \in Requests : RouteInv(r)

-----------------------------------------------------------------------------

LEMMA InitRouterInv == Init => RouterInv
<1> SUFFICES ASSUME Init PROVE RouterInv
  OBVIOUS
<1>1. \A r \in Requests : req[r] = Idle /\ calls[r] = <<>>
  BY DEF Init
<1>2. IsRequest(Idle) /\ Idle.phase = "idle" /\ Idle.reply = "none"
  BY DEF Idle, IsRequest
<1>3. \A r \in Requests : RouteInv(r)
  BY <1>1, <1>2 DEF RouteInv
<1> QED
  BY <1>3 DEF Init, RouterInv

\* A request that a step does not touch keeps what was said of it.
LEMMA OtherRequests ==
  ASSUME NEW r \in Requests, RouteInv(r), req'[r] = req[r], calls'[r] = calls[r]
  PROVE RouteInv(r)'
BY DEF RouteInv, Pending, Of

\* Two and three fields of a request, changed at a time.
LEMMA TwoFields ==
  ASSUME NEW r \in Requests, NEW phase, NEW reply,
         DOMAIN req = Requests, req = [q \in Requests |-> req[q]], IsRequest(req[r]),
         req' = [req EXCEPT ![r].phase = phase, ![r].reply = reply]
  PROVE /\ DOMAIN req' = Requests /\ req' = [q \in Requests |-> req'[q]]
        /\ IsRequest(req'[r]) /\ req'[r].phase = phase /\ req'[r].reply = reply
        /\ \A q \in Requests \ {r} : req'[q] = req[q]
BY DEF IsRequest

LEMMA ThreeFields ==
  ASSUME NEW r \in Requests, NEW phase, NEW reply, NEW score,
         DOMAIN req = Requests, req = [q \in Requests |-> req[q]], IsRequest(req[r]),
         req' = [req EXCEPT ![r].phase = phase, ![r].reply = reply, ![r].score = score]
  PROVE /\ DOMAIN req' = Requests /\ req' = [q \in Requests |-> req'[q]]
        /\ IsRequest(req'[r]) /\ req'[r].phase = phase /\ req'[r].reply = reply
        /\ \A q \in Requests \ {r} : req'[q] = req[q]
BY DEF IsRequest

\* What the routes of the model change of a request: where it is, its reply and
\* the score of it.
Moves(r, phase, reply) ==
  \/ req' = [req EXCEPT ![r].phase = phase] /\ reply = req[r].reply
  \/ req' = [req EXCEPT ![r].phase = phase, ![r].reply = reply]
  \/ \E score : req' =
       [req EXCEPT ![r].phase = phase, ![r].reply = reply, ![r].score = score]

LEMMA Moved ==
  ASSUME RouterInv, NEW r \in Requests, NEW phase, NEW reply,
         Moves(r, phase, reply)
  PROVE /\ DOMAIN req' = Requests /\ req' = [q \in Requests |-> req'[q]]
        /\ IsRequest(req'[r]) /\ req'[r].phase = phase /\ req'[r].reply = reply
        /\ \A q \in Requests \ {r} : req'[q] = req[q]
<1>1. DOMAIN req = Requests /\ req = [q \in Requests |-> req[q]] /\ IsRequest(req[r])
  BY DEF RouterInv, RouteInv
<1>2. CASE req' = [req EXCEPT ![r].phase = phase] /\ reply = req[r].reply
  BY <1>1, <1>2 DEF IsRequest
<1>3. CASE req' = [req EXCEPT ![r].phase = phase, ![r].reply = reply]
  BY <1>1, <1>3, TwoFields
<1>4. CASE \E score :
             req' = [req EXCEPT ![r].phase = phase, ![r].reply = reply, ![r].score = score]
  <2> PICK score :
        req' = [req EXCEPT ![r].phase = phase, ![r].reply = reply, ![r].score = score]
    BY <1>4
  <2> QED
    BY <1>1, ThreeFields
<1> QED
  BY <1>2, <1>3, <1>4 DEF Moves

\* A call that ends or moves on was pending: the route it belongs to is at its
\* calls, or threw.
LEMMA CallKeeps ==
  ASSUME RouterInv, NEW r \in Requests, NEW k,
         NEW from \in {"inferring", "settling"}, NEW to,
         CallStep(r, k, from, to), UNCHANGED req
  PROVE RouterInv'
<1>1. k \in Pending(r)
  BY DEF CallStep, Pending, Of
<1>2. /\ calls' = [calls EXCEPT ![r][k].state = to]
      /\ \A q \in Requests \ {r} : calls'[q] = calls[q]
      /\ DOMAIN calls' = Requests /\ calls' = [q \in Requests |-> calls'[q]]
  BY DEF CallStep, SetCall, RouterInv
<1>3. RouteInv(r)'
  BY <1>1 DEF RouterInv, RouteInv, CallStep
<1>4. \A q \in Requests \ {r} : RouteInv(q)'
  BY <1>2, OtherRequests DEF RouterInv
<1> QED
  BY <1>2, <1>3, <1>4 DEF RouterInv

\* The receipt that cannot be settled: its call was pending, so its route was
\* at its calls, and throws, or had thrown.
LEMMA UnsettleableKeeps ==
  ASSUME RouterInv, NEW r \in Requests, NEW k, Unsettleable(r, k)
  PROVE RouterInv'
<1>1. CASE req[r].phase = "calling"
  <2>1. req' = [req EXCEPT ![r].phase = "over", ![r].reply = "threw"]
    BY <1>1 DEF Unsettleable, Reply
  <2>2. /\ DOMAIN req' = Requests /\ req' = [q \in Requests |-> req'[q]]
        /\ IsRequest(req'[r]) /\ req'[r].phase = "over" /\ req'[r].reply = "threw"
        /\ \A q \in Requests \ {r} : req'[q] = req[q]
    BY <2>1, Moved DEF Moves
  <2>3. /\ calls' = [calls EXCEPT ![r][k].state = "threw"]
        /\ \A q \in Requests \ {r} : calls'[q] = calls[q]
        /\ DOMAIN calls' = Requests /\ calls' = [q \in Requests |-> calls'[q]]
    BY DEF Unsettleable, CallStep, SetCall, RouterInv
  <2>4. \A q \in Requests \ {r} : RouteInv(q)'
    BY <2>2, <2>3, OtherRequests DEF RouterInv
  <2>5. RouteInv(r)'
    BY <2>2 DEF RouteInv
  <2> QED
    BY <2>2, <2>3, <2>4, <2>5 DEF RouterInv
<1>2. CASE req[r].phase # "calling"
  BY <1>2, CallKeeps DEF Unsettleable
<1> QED
  BY <1>1, <1>2

\* What a route makes of its calls, or of an empty pool, when none is pending.
LEMMA ConcludeKeeps ==
  ASSUME RouterInv, NEW r \in Requests, Pending(r) = {}, UNCHANGED calls,
         NEW phase \in {"listing", "over"}, NEW reply,
         phase = "listing" => reply = "none",
         Moves(r, phase, reply)
  PROVE RouterInv'
<1>1. /\ DOMAIN req' = Requests /\ req' = [q \in Requests |-> req'[q]]
      /\ IsRequest(req'[r]) /\ req'[r].phase = phase /\ req'[r].reply = reply
      /\ \A q \in Requests \ {r} : req'[q] = req[q]
  BY Moved
<1>2. \A q \in Requests \ {r} : RouteInv(q)'
  BY <1>1, OtherRequests DEF RouterInv
<1>3. Pending(r)' = {}
  BY DEF Pending, Of
<1>4. RouteInv(r)'
  BY <1>1, <1>3 DEF RouteInv
<1> QED
  BY <1>1, <1>2, <1>4 DEF RouterInv

\* The handler of a completion: the request was idle, and had made no call.
LEMMA AskKeeps ==
  ASSUME RouterInv, NEW r \in Requests, Ask(r)
  PROVE RouterInv'
<1>1. PICK i \in Intents, c \in ClassifierOutcomes :
         req' = [req EXCEPT ![r] = Admitted(i, DecideMode(i, c))]
  BY DEF Ask
<1>2. /\ DOMAIN req' = Requests /\ req' = [q \in Requests |-> req'[q]]
      /\ req'[r] = Admitted(i, DecideMode(i, c))
      /\ \A q \in Requests \ {r} : req'[q] = req[q]
  BY <1>1 DEF RouterInv
<1>3. req[r].phase = "idle" /\ calls' = calls /\ calls[r] = <<>>
  BY DEF Ask, RouterInv, RouteInv
<1>4. Pending(r)' = {}
  BY <1>3 DEF Pending, Of
<1>5. LET R == Admitted(i, DecideMode(i, c))
      IN  /\ IsRequest(R)
          /\ \/ R.phase = "listing" /\ R.reply = "none"
             \/ R.phase = "over"
  <2> HIDE DEF DecideMode
  <2> QED
    BY DEF Admitted, Idle, IsRequest
<1>6. RouteInv(r)'
  BY <1>2, <1>4, <1>5 DEF RouteInv
<1>7. \A q \in Requests \ {r} : RouteInv(q)'
  BY <1>2, <1>3, OtherRequests DEF RouterInv
<1> QED
  BY <1>2, <1>3, <1>6, <1>7 DEF RouterInv

\* The pool has answered: with nobody, or with those that are called now.
LEMMA SelectKeeps ==
  ASSUME RouterInv, NEW r \in Requests, Select(r)
  PROVE RouterInv'
<1>1. req[r].phase = "listing" /\ Pending(r) = {} /\ req[r].reply = "none"
  BY DEF Select, RouterInv, RouteInv
<1>2. CASE Reply(r, "no_provider") /\ UNCHANGED calls
  BY <1>1, <1>2, ConcludeKeeps DEF Reply, Moves
<1>3. CASE /\ req' = [req EXCEPT ![r].phase = "calling"]
           /\ \E new : calls' = [calls EXCEPT ![r] = new]
  <2>1. /\ DOMAIN req' = Requests /\ req' = [q \in Requests |-> req'[q]]
        /\ IsRequest(req'[r]) /\ req'[r].phase = "calling" /\ req'[r].reply = "none"
        /\ \A q \in Requests \ {r} : req'[q] = req[q]
    BY <1>1, <1>3, Moved DEF Moves
  <2>2. /\ \A q \in Requests \ {r} : calls'[q] = calls[q]
        /\ DOMAIN calls' = Requests /\ calls' = [q \in Requests |-> calls'[q]]
    BY <1>3 DEF RouterInv
  <2>3. \A q \in Requests \ {r} : RouteInv(q)'
    BY <2>1, <2>2, OtherRequests DEF RouterInv
  <2>4. RouteInv(r)'
    BY <2>1 DEF RouteInv
  <2> QED
    BY <2>1, <2>2, <2>3, <2>4 DEF RouterInv
<1>4. \/ Reply(r, "no_provider") /\ UNCHANGED calls
      \/ /\ req' = [req EXCEPT ![r].phase = "calling"]
         /\ \E new : calls' = [calls EXCEPT ![r] = new]
  <2>1. PICK zg \in ZgListing, x402 \in X402Listing :
          LET mode == req[r].mode
              found == Query(zg \cup x402, NeedsTee(r), req[r].intent, Share(mode),
                             IF mode = "consensus" THEN 3 ELSE 1)
          IN  IF found = <<>>
              THEN Reply(r, "no_provider") /\ UNCHANGED calls
              ELSE /\ req' = [req EXCEPT ![r].phase = "calling"]
                   /\ calls' = [calls EXCEPT ![r] = @ \o
                        [k \in DOMAIN found |-> [provider |-> found[k], state |-> "inferring"]]]
    BY DEF Select
  <2> DEFINE found == Query(zg \cup x402, NeedsTee(r), req[r].intent, Share(req[r].mode),
                            IF req[r].mode = "consensus" THEN 3 ELSE 1)
             new == calls[r] \o
                      [k \in DOMAIN found |-> [provider |-> found[k], state |-> "inferring"]]
  <2>2. \/ Reply(r, "no_provider") /\ UNCHANGED calls
        \/ /\ req' = [req EXCEPT ![r].phase = "calling"]
           /\ calls' = [calls EXCEPT ![r] = new]
    BY <2>1, Zenon
  <2> HIDE DEF new
  <2> QED
    BY <2>2, Zenon
<1> QED
  BY <1>2, <1>3, <1>4

\* A route concludes only when every call that it awaits has ended.
LEMMA ConcludingKeeps ==
  ASSUME RouterInv, NEW r \in Requests, Conclude(r)
  PROVE RouterInv'
<1>1. Ended(r) => Pending(r) = {} /\ req[r].reply = "none"
  BY DEF Ended, RouterInv, RouteInv
<1>2. CASE SingleFails(r)
  <2>1. PICK reply : Reply(r, reply)
    BY <1>2 DEF SingleFails
  <2> QED
    BY <1>1, <1>2, <2>1, ConcludeKeeps DEF SingleFails, Reply, Moves
<1>3. CASE Ended(r) /\ \E score : Succeed(r, score)
  <2>1. PICK score : Succeed(r, score)
    BY <1>3
  <2> QED
    BY <1>1, <1>3, <2>1, ConcludeKeeps DEF Succeed, Moves
<1>4. CASE ResearchAnswers(r)
  BY <1>1, <1>4, ConcludeKeeps DEF ResearchAnswers, SettledAll, Moves
<1>5. CASE ConsensusFails(r)
  <2>1. Reply(r, ConsensusRefused(r)) /\ Ended(r) /\ UNCHANGED calls
    BY <1>5 DEF ConsensusFails
  <2>2. PICK reply : Reply(r, reply)
    BY <2>1
  <2> QED
    BY <1>1, <2>1, <2>2, ConcludeKeeps DEF Reply, Moves
<1>6. CASE FastAnswers(r) \/ VerifiedAnswers(r) \/ DecisionAnswers(r) \/ ConsensusAnswers(r)
  BY <1>3, <1>6, Zenon
     DEF FastAnswers, VerifiedAnswers, DecisionAnswers, ConsensusAnswers, SettledAll
<1> QED
  BY <1>2, <1>4, <1>5, <1>6 DEF Conclude

\* The steps of a call, whichever adapter makes it.
LEMMA CallingKeeps ==
  ASSUME RouterInv, NEW r \in Requests, NEW k \in 1 .. 3, Call(r, k)
  PROVE RouterInv'
BY CallKeeps, UnsettleableKeeps
   DEF Call, ZgInfer, X402Infer, SettleOk, SettleFails, Answer, NoAnswer

LEMMA NextKeepsRouterInv == RouterInv /\ [Next]_vars => RouterInv'
<1> SUFFICES ASSUME RouterInv, [Next]_vars PROVE RouterInv'
  OBVIOUS
<1>1. CASE UNCHANGED <<req, calls>>
  <2>1. \A r \in Requests : RouteInv(r)'
    BY <1>1, OtherRequests DEF RouterInv
  <2> QED
    BY <1>1, <2>1 DEF RouterInv
<1>2. ASSUME NEW r \in Requests, Ask(r) PROVE RouterInv'
  BY <1>2, AskKeeps
<1>3. ASSUME NEW r \in Requests, Select(r) PROVE RouterInv'
  BY <1>3, SelectKeeps
<1>4. ASSUME NEW r \in Requests, Conclude(r) PROVE RouterInv'
  BY <1>4, ConcludingKeeps
<1>5. ASSUME NEW r \in Requests, NEW k \in 1 .. 3, Call(r, k) PROVE RouterInv'
  BY <1>5, CallingKeeps
<1>6. Narrow \/ Tick \/ UNCHANGED vars => UNCHANGED <<req, calls>>
  BY DEF Narrow, Tick, vars, routeVars
<1> QED
  BY <1>1, <1>2, <1>3, <1>4, <1>5, <1>6 DEF Next

\* A route that has returned a result has no call under way: nobody is paid for
\* it any more.  Only a route that threw leaves its other calls to end unawaited.
THEOREM RouterNoCallOutlivesReply == Spec => []NoCallOutlivesReply
<1>1. RouterInv => NoCallOutlivesReply
  BY DEF RouterInv, RouteInv, NoCallOutlivesReply
<1> QED
  BY <1>1, InitRouterInv, NextKeepsRouterInv, PTL DEF Spec

-----------------------------------------------------------------------------
(* Spending and attestation                                                *)

CallRec == [provider : Providers,
            state : {"inferring", "settling", "settled", "unsettled", "unanswered", "threw"}]

\* What was decided of the mode.
Decided(r) ==
  /\ req[r].intent \in Intents /\ req[r].mode \in Modes
  /\ req[r].intent.critical => Tier[req[r].mode] >= Tier[req[r].intent.requested]

\* What the scope of that time allowed, the scope that the operator signed allows.
InScope(r) ==
  /\ req[r].intent.cost <= RootScope.cost
  /\ req[r].mode \in RootScope.modes
  /\ req[r].began < RootScope.expiresAt

\* A route makes as many calls as it divides its budget into, none of them dearer
\* than such a part, and those that must be in a TEE are.
CallsInv(r) ==
  /\ calls[r] \in Seq(CallRec)
  /\ Len(calls[r]) <= Share(req[r].mode)
  /\ \A k \in 1 .. Len(calls[r]) :
       /\ Price[calls[r][k].provider] * Share(req[r].mode) <= req[r].intent.cost
       /\ req[r].mode = "verified" \/ (req[r].mode = "pipeline" /\ k = 2)
            => calls[r][k].provider \in ZgProviders

\* The pool is asked before the first call, and before the second of a pipeline.
ListingInv(r) ==
  req[r].phase = "listing" =>
    calls[r] = <<>> \/ (req[r].mode = "pipeline" /\ Len(calls[r]) = 1)

AnswerInv(r) ==
  req[r].reply = "ok" =>
    /\ req[r].phase = "over"
    /\ req[r].mode # "fast" => Attested(r)
    /\ req[r].mode = "pipeline" => Len(calls[r]) = 2

SpendInvOf(r) ==
  /\ req[r].phase # "idle" => Decided(r)
  /\ req[r].phase \in {"listing", "calling"} \/ calls[r] # <<>> => InScope(r)
  /\ CallsInv(r) /\ ListingInv(r) /\ AnswerInv(r)

\* Every scope is within the one that the operator signed.
ScopeInv ==
  /\ scope.cost \in Int /\ scope.cost <= RootScope.cost
  /\ scope.expiresAt \in Int /\ scope.expiresAt <= RootScope.expiresAt
  /\ scope.ttl \in Int /\ scope.latency \in Int /\ scope.modes \subseteq RootScope.modes
  /\ now \in Int

SpendInv == ScopeInv /\ \A r \in Requests : SpendInvOf(r)

-----------------------------------------------------------------------------
(* The pool                                                                *)

\* Providers are in one line.
LEMMA BeforeOrder ==
  ASSUME NEW p \in Providers, NEW q \in Providers
  PROVE  /\ ~Before(p, p)
         /\ p # q => Before(p, q) \/ Before(q, p)
         /\ \A o \in Providers : Before(p, q) /\ Before(q, o) => Before(p, o)
<1>1. \A o \in Providers : Price[o] \in Nat /\ Latency[o] \in Nat /\ o \in Nat
  BY RouterAssumption
<1> QED
  BY <1>1 DEF Before

\* Each provider of a set has a place of its own in it.
LEMMA RankFacts ==
  ASSUME NEW S \in SUBSET Providers, NEW p \in S
  PROVE  /\ IsFiniteSet(S) /\ Cardinality(S) \in Nat
         /\ Rank(S, p) \in Nat /\ Rank(S, p) < Cardinality(S)
         /\ \A q \in S : p # q => Rank(S, p) # Rank(S, q)
<1> DEFINE ahead(o) == {q \in S : Before(q, o)}
<1>1. IsFiniteSet(S) /\ Cardinality(S) \in Nat
  BY RouterAssumption, FS_Subset, FS_CardinalityType
<1>2. \A o \in S : /\ IsFiniteSet(ahead(o)) /\ Cardinality(ahead(o)) \in Nat
                   /\ Rank(S, o) = Cardinality(ahead(o))
  BY <1>1, FS_Subset, FS_CardinalityType DEF Rank
<1>3. Rank(S, p) < Cardinality(S)
  <2>1. ahead(p) \subseteq S /\ ahead(p) # S
    BY BeforeOrder
  <2> HIDE DEF ahead
  <2>2. Cardinality(ahead(p)) <= Cardinality(S) /\ Cardinality(ahead(p)) # Cardinality(S)
    BY <1>1, <2>1, FS_Subset
  <2> QED
    BY <1>1, <1>2, <2>2
<1>4. ASSUME NEW a \in S, NEW b \in S, Before(a, b) PROVE Rank(S, a) < Rank(S, b)
  <2>1. ahead(a) \subseteq ahead(b) /\ a \in ahead(b) \ ahead(a)
    BY <1>4, BeforeOrder
  <2> HIDE DEF ahead
  <2>2. /\ Cardinality(ahead(a)) <= Cardinality(ahead(b))
        /\ Cardinality(ahead(a)) # Cardinality(ahead(b))
    BY <1>2, <2>1, FS_Subset
  <2> QED
    BY <1>2, <2>2
<1>5. ASSUME NEW q \in S, p # q PROVE Rank(S, p) # Rank(S, q)
  <2>1. Rank(S, p) < Rank(S, q) \/ Rank(S, q) < Rank(S, p)
    <3>1. Before(p, q) \/ Before(q, p)
      BY <1>5, BeforeOrder
    <3> HIDE DEF ahead
    <3> QED
      BY <1>4, <3>1
  <2>2. Rank(S, p) \in Nat /\ Rank(S, q) \in Nat
    BY <1>2
  <2> HIDE DEF ahead
  <2> QED
    BY <2>1, <2>2
<1> QED
  BY <1>1, <1>2, <1>3, <1>5

\* Put in order, a set is a sequence of its elements.
LEMMA InOrderFacts ==
  ASSUME NEW S \in SUBSET Providers
  PROVE  /\ IsFiniteSet(S) /\ Cardinality(S) \in Nat
         /\ InOrder(S) \in [1 .. Cardinality(S) -> S]
<1> DEFINE place == [p \in S |-> Rank(S, p) + 1]
<1>1. IsFiniteSet(S) /\ Cardinality(S) \in Nat
  BY RouterAssumption, FS_Subset, FS_CardinalityType
<1>2. /\ IsFiniteSet(1 .. Cardinality(S))
      /\ Cardinality(1 .. Cardinality(S)) = Cardinality(S)
  BY <1>1, FS_Interval
<1>3. place \in Injection(S, 1 .. Cardinality(S))
  BY <1>1, RankFacts DEF Injection, IsInjective
<1>4. place \in Surjection(S, 1 .. Cardinality(S))
  BY <1>2, <1>3, FS_Injection
<1>5. \A k \in 1 .. Cardinality(S) : \E p \in S : Rank(S, p) = k - 1
  <2> TAKE k \in 1 .. Cardinality(S)
  <2>1. PICK p \in S : Rank(S, p) + 1 = k
    BY <1>4 DEF Surjection
  <2> QED
    BY <2>1, RankFacts
<1>6. \A k \in 1 .. Cardinality(S) : (CHOOSE p \in S : Rank(S, p) = k - 1) \in S
  BY <1>5
<1> QED
  BY <1>1, <1>6 DEF InOrder

\* There are at most n before the place n.
LEMMA TopSize ==
  ASSUME NEW S \in SUBSET Providers, NEW n \in Nat
  PROVE  /\ IsFiniteSet({p \in S : Rank(S, p) < n})
         /\ Cardinality({p \in S : Rank(S, p) < n}) \in Nat
         /\ Cardinality({p \in S : Rank(S, p) < n}) <= n
<1> DEFINE T == {p \in S : Rank(S, p) < n}
           place == [p \in T |-> Rank(S, p)]
<1>1. IsFiniteSet(0 .. n - 1) /\ Cardinality(0 .. n - 1) = n
  BY FS_Interval
<1>2. place \in Injection(T, 0 .. n - 1)
  BY RankFacts DEF Injection, IsInjective
<1> HIDE DEF T
<1>3. IsFiniteSet(T) /\ Cardinality(T) <= n
  BY <1>1, <1>2, FS_Injection
<1>4. Cardinality(T) \in Nat
  BY <1>3, FS_CardinalityType
<1> QED
  BY <1>3, <1>4 DEF T

\* The pool answers with at most n of the listed providers, each within the share
\* of the budget and, if asked for, in a TEE.
LEMMA QueryFacts ==
  ASSUME NEW listed \in SUBSET Providers, NEW tee \in BOOLEAN, NEW i, NEW share,
         NEW n \in Nat \ {0}
  PROVE  \E m \in 0 .. n : Query(listed, tee, i, share, n) \in
           [1 .. m -> {p \in listed : (tee => p \in ZgProviders) /\ Price[p] * share <= i.cost}]
<1> DEFINE fit == {p \in listed : (tee => p \in ZgProviders) /\ Price[p] * share <= i.cost}
           eligible == {p \in listed : /\ tee => p \in ZgProviders
                                       /\ Price[p] * share <= i.cost
                                       /\ Latency[p] <= i.latency}
           attested == eligible \cap ZgProviders
           top == {p \in eligible : Rank(eligible, p) < n}
           before == {p \in eligible : Rank(eligible, p) < n - 1}
           swapped == before \cup {p \in attested : Rank(attested, p) = 0}
           picked == IF n > 1 /\ attested # {} /\ top \cap ZgProviders = {}
                     THEN swapped ELSE top
<1>1. Query(listed, tee, i, share, n) = InOrder(picked)
  BY DEF Query
<1>2. eligible \in SUBSET Providers /\ attested \in SUBSET Providers /\ eligible \subseteq fit
  OBVIOUS
<1>3. picked \subseteq eligible
  OBVIOUS
<1> HIDE DEF eligible, fit
<1>4. Cardinality(top) <= n /\ Cardinality(top) \in Nat
  BY <1>2, TopSize
<1>5. Cardinality(swapped) <= n
  <2> DEFINE first == {p \in attested : Rank(attested, p) < 1}
  <2>1. /\ IsFiniteSet(before) /\ Cardinality(before) \in Nat
        /\ Cardinality(before) <= n - 1
    <3>1. n - 1 \in Nat
      OBVIOUS
    <3> QED
      BY <1>2, <3>1, TopSize
  <2>2. IsFiniteSet(first) /\ Cardinality(first) \in Nat /\ Cardinality(first) <= 1
    <3>1. 1 \in Nat /\ attested \in SUBSET Providers
      BY <1>2
    <3> HIDE DEF attested
    <3> QED
      BY <3>1, TopSize
  <2>3. swapped = before \cup first
    <3>1. \A p \in attested : Rank(attested, p) \in Nat
      BY <1>2, RankFacts
    <3>2. \A p \in attested : Rank(attested, p) = 0 <=> Rank(attested, p) < 1
      BY <3>1
    <3> QED
      BY <3>2
  <2> HIDE DEF before, first, swapped
  <2>4. /\ Cardinality(before \cup first)
             = Cardinality(before) + Cardinality(first) - Cardinality(before \cap first)
        /\ IsFiniteSet(before \cap first)
    BY <2>1, <2>2, FS_Union, FS_Subset
  <2>5. Cardinality(before \cap first) \in Nat
    BY <2>4, FS_CardinalityType
  <2> QED
    BY <2>1, <2>2, <2>3, <2>4, <2>5
<1>6. Cardinality(picked) <= n
  BY <1>4, <1>5
<1> HIDE DEF picked
<1>7. picked \in SUBSET Providers
  BY <1>2, <1>3
<1>8. /\ Cardinality(picked) \in Nat
      /\ InOrder(picked) \in [1 .. Cardinality(picked) -> picked]
  BY <1>7, InOrderFacts
<1>9. InOrder(picked) \in [1 .. Cardinality(picked) -> fit]
  BY <1>2, <1>3, <1>8
<1> QED
  BY <1>1, <1>6, <1>8, <1>9 DEF fit

\* Parts of a budget, no more of them than it is divided into, are within it.
LEMMA SumOfShares ==
  ASSUME NEW n \in 1 .. 3, NEW f \in [1 .. n -> Nat], NEW m \in 1 .. 3, n <= m,
         NEW c \in Nat, \A k \in 1 .. n : f[k] * m <= c
  PROVE  Total(f) <= c
<1>2. SumOver(1 .. 0, f) = 0
  <2>1. 1 .. 0 = {}
    OBVIOUS
  <2> QED
    BY <2>1, SumEmpty
<1>3. ASSUME NEW k \in 1 .. n, NEW l, l = k - 1
      PROVE  SumOver(1 .. k, f) = f[k] + SumOver(1 .. l, f)
  <2> DEFINE S == 1 .. k
             T == 1 .. l
  <2>1. k \in S /\ S \ {k} = T /\ \A x \in S : f[x] \in Int
    BY <1>3
  <2>2. IsFiniteSet(S)
    BY FS_Interval
  <2> HIDE DEF S, T
  <2>3. SumOver(S, f) = f[k] + SumOver(S \ {k}, f)
    BY <2>1, <2>2, SumTake
  <2> QED
    BY <2>1, <2>3 DEF S, T
<1>4. Total(f) = SumOver(1 .. n, f)
  BY DEF Total
<1>5. f[1] \in Nat /\ f[1] * m <= c
  OBVIOUS
<1>6. SumOver(1 .. 1, f) = f[1]
  <2>1. SumOver(1 .. 1, f) = f[1] + SumOver(1 .. 0, f)
    <3>1. 1 \in 1 .. n /\ 0 = 1 - 1
      OBVIOUS
    <3> QED
      BY <1>3, <3>1
  <2> QED
    BY <1>2, <1>5, <2>1
<1>7. CASE n = 1
  <2>1. f[1] <= f[1] * m
    <3> DEFINE x == f[1]
    <3>1. x \in Nat
      BY <1>5
    <3> HIDE DEF x
    <3>2. x <= x * m
      BY <3>1
    <3> QED
      BY <3>2 DEF x
  <2> QED
    BY <1>4, <1>5, <1>6, <1>7, <2>1
<1>8. CASE n \in {2, 3}
  <2>1. f[2] \in Nat /\ f[2] * m <= c
    BY <1>8
  <2>2. SumOver(1 .. 2, f) = f[2] + f[1]
    <3>1. 2 \in 1 .. n /\ 1 = 2 - 1
      BY <1>8
    <3> QED
      BY <1>3, <1>6, <3>1
  <2>3. CASE n = 2
    <3>1. m \in {2, 3}
      BY <2>3
    <3> QED
      BY <1>4, <1>5, <2>1, <2>2, <2>3, <3>1
  <2>4. CASE n = 3
    <3>1. m = 3 /\ f[3] \in Nat /\ f[3] * m <= c
      BY <2>4
    <3>2. SumOver(1 .. 3, f) = f[3] + (f[2] + f[1])
      <4>1. 3 \in 1 .. n /\ 2 = 3 - 1
        BY <2>4
      <4> QED
        BY <1>3, <2>2, <4>1
    <3> QED
      BY <1>4, <1>5, <2>1, <2>4, <3>1, <3>2
  <2> QED
    BY <1>8, <2>3, <2>4
<1> QED
  BY <1>7, <1>8

-----------------------------------------------------------------------------
(* The steps of a route and what it spends                                 *)

\* What was asked for and decided.
SameIntent(r) ==
  /\ req'[r].intent = req[r].intent
  /\ req'[r].mode = req[r].mode
  /\ req'[r].began = req[r].began

LEMMA MovedIntent ==
  ASSUME RouterInv, NEW r \in Requests, NEW phase, NEW reply,
         Moves(r, phase, reply)
  PROVE  SameIntent(r)
<1>1. DOMAIN req = Requests /\ req = [q \in Requests |-> req[q]] /\ IsRequest(req[r])
  BY DEF RouterInv, RouteInv
<1>2. CASE req' = [req EXCEPT ![r].phase = phase]
  BY <1>1, <1>2 DEF IsRequest, SameIntent
<1>3. CASE req' = [req EXCEPT ![r].phase = phase, ![r].reply = reply]
  BY <1>1, <1>3 DEF IsRequest, SameIntent
<1>4. ASSUME NEW score, req' =
        [req EXCEPT ![r].phase = phase, ![r].reply = reply, ![r].score = score]
      PROVE  SameIntent(r)
  BY <1>1, <1>4 DEF IsRequest, SameIntent
<1> QED
  BY <1>2, <1>3, <1>4 DEF Moves

\* A step of a route that calls nobody and leaves the intent alone.
SameProviders(r) ==
  /\ calls[r]' \in Seq(CallRec) /\ Len(calls'[r]) = Len(calls[r])
  /\ \A k \in 1 .. Len(calls[r]) : calls'[r][k].provider = calls[r][k].provider

LEMMA NobodyCalled ==
  ASSUME NEW r \in Requests, SpendInvOf(r), SameIntent(r), SameProviders(r),
         req[r].phase \in {"listing", "calling"} \/ calls[r] # <<>>,
         req'[r].phase # "idle", req[r].phase # "idle",
         ListingInv(r)', AnswerInv(r)'
  PROVE  SpendInvOf(r)'
<1>1. Decided(r)'
  BY DEF SpendInvOf, Decided, SameIntent
<1>2. InScope(r)'
  BY DEF SpendInvOf, InScope, SameIntent
<1>3. CallsInv(r)'
  <2>1. calls'[r] \in Seq(CallRec) /\ Len(calls'[r]) = Len(calls[r])
    BY DEF SameProviders
  <2>2. Len(calls'[r]) <= Share(req'[r].mode)
    BY <2>1 DEF SpendInvOf, CallsInv, SameIntent
  <2>3. ASSUME NEW k \in 1 .. Len(calls'[r])
        PROVE  /\ Price[calls'[r][k].provider] * Share(req'[r].mode) <= req'[r].intent.cost
               /\ req'[r].mode = "verified" \/ (req'[r].mode = "pipeline" /\ k = 2)
                    => calls'[r][k].provider \in ZgProviders
    <3>1. k \in 1 .. Len(calls[r]) /\ calls'[r][k].provider = calls[r][k].provider
      BY <2>1 DEF SameProviders
    <3> QED
      BY <3>1 DEF SpendInvOf, CallsInv, SameIntent
  <2> QED
    BY <2>1, <2>2, <2>3 DEF CallsInv
<1> QED
  BY <1>1, <1>2, <1>3 DEF SpendInvOf

\* A route whose request and calls a step leaves alone.
LEMMA OtherSpending ==
  ASSUME NEW r \in Requests, SpendInvOf(r), req'[r] = req[r], calls'[r] = calls[r]
  PROVE  SpendInvOf(r)'
BY DEF SpendInvOf, Decided, InScope, CallsInv, ListingInv, AnswerInv, Attested, Of

\* A call ends or moves on: its route is at its calls, or threw.
LEMMA CallSpending ==
  ASSUME RouterInv, NEW r \in Requests, SpendInvOf(r), NEW k,
         NEW from \in {"inferring", "settling"},
         NEW to \in {"settling", "settled", "unsettled", "unanswered", "threw"},
         CallStep(r, k, from, to),
         UNCHANGED req \/ (req[r].phase = "calling" /\ Reply(r, "threw"))
  PROVE  SpendInvOf(r)'
<1>1. k \in Pending(r) /\ calls[r] \in Seq(CallRec) /\ k \in 1 .. Len(calls[r])
  BY DEF CallStep, Pending, Of, SpendInvOf, CallsInv
<1>2. req[r].phase \in {"calling", "over"} /\ req[r].reply # "ok" /\ calls[r] # <<>>
  <2>1. RouteInv(r)
    BY DEF RouterInv
  <2>2. calls[r] # <<>>
    BY <1>1
  <2> QED
    BY <1>1, <2>1, <2>2 DEF RouteInv
<1>3. calls'[r] = [calls[r] EXCEPT ![k].state = to]
  BY DEF CallStep, SetCall, RouterInv
<1>4. SameProviders(r)
  <2>1. calls[r][k] \in CallRec
    BY <1>1
  <2>2. [calls[r][k] EXCEPT !.state = to] \in CallRec
    BY <2>1 DEF CallRec
  <2>3. [calls[r][k] EXCEPT !.state = to].provider = calls[r][k].provider
    BY <2>1 DEF CallRec
  <2> DEFINE c == [calls[r][k] EXCEPT !.state = to]
  <2>4. calls'[r] = [calls[r] EXCEPT ![k] = c]
    BY <1>3
  <2> HIDE DEF c
  <2> QED
    BY <1>1, <2>2, <2>3, <2>4 DEF SameProviders, c
<1>5. CASE UNCHANGED req
  <2>1. SameIntent(r) /\ ListingInv(r)' /\ AnswerInv(r)'
    BY <1>2, <1>5 DEF SameIntent, ListingInv, AnswerInv
  <2> QED
    BY <1>2, <1>4, <1>5, <2>1, NobodyCalled
<1>6. CASE req[r].phase = "calling" /\ Reply(r, "threw")
  <2>1. req' = [req EXCEPT ![r].phase = "over", ![r].reply = "threw"]
    BY <1>6 DEF Reply
  <2>2. Moves(r, "over", "threw")
    BY <2>1 DEF Moves
  <2>3. SameIntent(r)
    BY <2>2, MovedIntent
  <2>4. req'[r].phase = "over" /\ req'[r].reply = "threw"
    BY <2>2, Moved
  <2>5. ListingInv(r)' /\ AnswerInv(r)'
    BY <2>4 DEF ListingInv, AnswerInv
  <2> QED
    BY <1>2, <1>4, <2>3, <2>4, <2>5, NobodyCalled
<1> QED
  BY <1>5, <1>6

\* A step of a route that keeps what is said of its spending, and leaves the others alone.
SpendStep(r) ==
  /\ SpendInvOf(r)'
  /\ \A q \in Requests \ {r} : req'[q] = req[q] /\ calls'[q] = calls[q]

\* A route that concludes calls nobody.
LEMMA ConcludeSpending ==
  ASSUME RouterInv, NEW r \in Requests, SpendInvOf(r), req[r].phase \in {"listing", "calling"},
         UNCHANGED calls, NEW phase \in {"listing", "over"}, NEW reply,
         Moves(r, phase, reply),
         phase = "listing" => req[r].mode = "pipeline" /\ Len(calls[r]) = 1,
         reply = "ok" => /\ phase = "over"
                         /\ req[r].mode # "fast" => Attested(r)
                         /\ req[r].mode = "pipeline" => Len(calls[r]) = 2
  PROVE  SpendStep(r)
<1>1. SameIntent(r)
  BY MovedIntent
<1>2. req'[r].phase = phase /\ req'[r].reply = reply
  BY Moved
<1>3. SameProviders(r)
  BY DEF SpendInvOf, CallsInv, SameProviders
<1>4. Attested(r)' <=> Attested(r)
  BY DEF Attested, Of
<1>5. ListingInv(r)' /\ AnswerInv(r)'
  BY <1>1, <1>2, <1>4 DEF ListingInv, AnswerInv, SameIntent
<1>6. SpendInvOf(r)'
  BY <1>1, <1>2, <1>3, <1>5, NobodyCalled
<1>7. \A q \in Requests \ {r} : req'[q] = req[q]
  BY Moved
<1> QED
  BY <1>6, <1>7 DEF SpendStep

LEMMA ConcludingSpending ==
  ASSUME RouterInv, NEW r \in Requests, SpendInvOf(r), Conclude(r)
  PROVE  SpendStep(r)
<1>1. req[r].phase = "calling" /\ CallsInv(r) /\ req[r].reply = "none"
  <2>1. req[r].phase = "calling"
    BY DEF Conclude, SingleFails, FastAnswers, VerifiedAnswers, ResearchAnswers,
           DecisionAnswers, ConsensusFails, ConsensusAnswers, SettledAll, Ended
  <2> QED
    BY <2>1 DEF SpendInvOf, RouterInv, RouteInv
<1>2. ASSUME NEW reply, reply # "ok", Reply(r, reply), UNCHANGED calls
      PROVE  SpendStep(r)
  BY <1>1, <1>2, ConcludeSpending DEF Reply, Moves
<1>3. ASSUME NEW score, Succeed(r, score), req[r].mode # "fast" => Attested(r),
             req[r].mode = "pipeline" => Len(calls[r]) = 2
      PROVE  SpendStep(r)
  BY <1>1, <1>3, ConcludeSpending DEF Succeed, Moves
<1>4. CASE SingleFails(r)
  BY <1>2, <1>4 DEF SingleFails
<1>5. CASE FastAnswers(r)
  <2>1. req[r].mode = "fast" /\ Succeed(r, Unscored)
    BY <1>5 DEF FastAnswers, SettledAll
  <2> QED
    BY <1>3, <2>1
<1>6. CASE VerifiedAnswers(r)
  <2>1. /\ req[r].mode = "verified" /\ Succeed(r, Unscored)
        /\ Len(calls[r]) = 1 /\ Of(r, {"settled"}) = 1 .. 1
    BY <1>6 DEF VerifiedAnswers, SettledAll
  <2>2. 1 \in Of(r, {"settled"}) /\ calls[r][1].provider \in ZgProviders
    BY <1>1, <2>1 DEF CallsInv
  <2> QED
    BY <1>3, <2>1, <2>2 DEF Attested
<1>7. CASE ResearchAnswers(r)
  BY <1>1, <1>7, ConcludeSpending DEF ResearchAnswers, SettledAll, Moves
<1>8. CASE DecisionAnswers(r)
  <2>1. /\ req[r].mode = "pipeline" /\ Succeed(r, Unscored)
        /\ Len(calls[r]) = 2 /\ Of(r, {"settled"}) = 1 .. 2
    BY <1>8 DEF DecisionAnswers, SettledAll
  <2>2. 2 \in Of(r, {"settled"}) /\ calls[r][2].provider \in ZgProviders
    BY <1>1, <2>1 DEF CallsInv
  <2> QED
    BY <1>3, <2>1, <2>2 DEF Attested
<1>9. CASE ConsensusFails(r)
  <2>1. ConsensusRefused(r) # "ok"
    BY DEF ConsensusRefused
  <2> QED
    BY <1>2, <1>9, <2>1 DEF ConsensusFails
<1>10. CASE ConsensusAnswers(r)
  <2>1. req[r].mode = "consensus" /\ Attested(r)
    <3>1. req[r].mode = "consensus" /\ ConsensusRefused(r) = "none"
      BY <1>10 DEF ConsensusAnswers
    <3>2. Cardinality(Of(r, {"settled"})) \in Nat
      <4>1. Of(r, {"settled"}) \subseteq 1 .. Len(calls[r]) /\ Len(calls[r]) \in Int
        BY <1>1 DEF Of, CallsInv
      <4> QED
        <5>1. IsFiniteSet(1 .. Len(calls[r]))
          BY <4>1, FS_Interval
        <5> QED
          BY <4>1, <5>1, FS_Subset, FS_CardinalityType
    <3>3. \/ Cardinality(Of(r, {"settled"})) < 2
          \/ Cardinality(Of(r, {"settled"})) >= 2
      BY <3>2
    <3> QED
      BY <3>1, <3>3 DEF ConsensusRefused
  <2>2. PICK score : Succeed(r, score)
    BY <1>10 DEF ConsensusAnswers
  <2> QED
    BY <1>3, <2>1, <2>2
<1> QED
  BY <1>4, <1>5, <1>6, <1>7, <1>8, <1>9, <1>10 DEF Conclude

\* The mode that is decided is one of the four, and for a critical intent none below
\* the one asked for.
LEMMA DecideModeFacts ==
  ASSUME NEW i \in Intents, NEW c \in ClassifierOutcomes
  PROVE  /\ DecideMode(i, c) \in Modes
         /\ i.critical => Tier[DecideMode(i, c)] >= Tier[i.requested]
<1>1. i.requested \in Modes /\ c.recommended \in Modes
  BY RouterAssumption DEF ClassifierOutcomes, Unclassified, Modes
<1>2. \A m \in Modes : Tier[m] \in Nat
  BY DEF Tier, Modes
<1>3. DecideMode(i, c) \in {i.requested, c.recommended}
  BY DEF DecideMode
<1>4. ASSUME i.critical, DecideMode(i, c) # i.requested
      PROVE  Tier[DecideMode(i, c)] > Tier[i.requested]
  BY <1>4 DEF DecideMode
<1> QED
  BY <1>1, <1>2, <1>3, <1>4

\* The handler of a completion.
LEMMA AskSpending ==
  ASSUME RouterInv, ScopeInv, NEW r \in Requests, SpendInvOf(r), Ask(r)
  PROVE  SpendInvOf(r)'
<1>1. PICK i \in Intents, c \in ClassifierOutcomes :
         req' = [req EXCEPT ![r] = Admitted(i, DecideMode(i, c))]
  BY DEF Ask
<1> DEFINE mode == DecideMode(i, c)
<1>2. mode \in Modes /\ (i.critical => Tier[mode] >= Tier[i.requested])
  BY DecideModeFacts
<1> HIDE DEF mode
<1>3. req'[r] = Admitted(i, mode) /\ calls'[r] = <<>>
  BY <1>1 DEF RouterInv, RouteInv, Ask, mode
<1>4. /\ Admitted(i, mode).intent = i /\ Admitted(i, mode).mode = mode
      /\ Admitted(i, mode).reply # "ok" /\ Admitted(i, mode).phase \in {"listing", "over"}
      /\ Admitted(i, mode).phase = "listing" =>
           Violations(i, mode) = {} /\ Admitted(i, mode).began = now
  BY DEF Admitted, Idle
<1>5. Violations(i, mode) = {} =>
        i.cost <= RootScope.cost /\ mode \in RootScope.modes /\ now < RootScope.expiresAt
  <2> SUFFICES ASSUME Violations(i, mode) = {}
               PROVE  i.cost <= RootScope.cost /\ mode \in RootScope.modes
                      /\ now < RootScope.expiresAt
    OBVIOUS
  <2>1. ~(i.cost > scope.cost) /\ mode \in scope.modes /\ ~(now >= scope.expiresAt)
    <3>1. "spend_cap" \notin Violations(i, mode) /\ "mode_allowed" \notin Violations(i, mode)
          /\ "not_expired" \notin Violations(i, mode)
      OBVIOUS
    <3> QED
      BY <3>1 DEF Violations
  <2>2. i.cost \in Int /\ RootScope.cost \in Int /\ RootScope.expiresAt \in Int
    BY RouterAssumption
  <2> QED
    BY <2>1, <2>2 DEF ScopeInv
<1>6. Decided(r)' /\ (req'[r].phase = "listing" => InScope(r)')
  BY <1>2, <1>3, <1>4, <1>5 DEF Decided, InScope
<1>7. CallsInv(r)'
  BY <1>2, <1>3, <1>4 DEF CallsInv, Share
<1>8. ListingInv(r)' /\ AnswerInv(r)'
  BY <1>3, <1>4 DEF ListingInv, AnswerInv
<1> QED
  BY <1>3, <1>4, <1>6, <1>7, <1>8 DEF SpendInvOf

\* Both parts of a step's calls: those made and those made now.
LEMMA CallsGrow ==
  ASSUME NEW s \in Seq(CallRec), NEW m \in Nat, NEW found \in [1 .. m -> Providers]
  PROVE  LET t == s \o [k \in DOMAIN found |-> [provider |-> found[k], state |-> "inferring"]]
         IN  /\ t \in Seq(CallRec) /\ Len(t) = Len(s) + m
             /\ \A k \in 1 .. Len(s) : t[k] = s[k]
             /\ \A k \in Len(s) + 1 .. Len(t) :
                  k - Len(s) \in 1 .. m /\ t[k].provider = found[k - Len(s)]
<1> DEFINE new == [k \in DOMAIN found |-> [provider |-> found[k], state |-> "inferring"]]
<1>1. \A k \in 1 .. m : [provider |-> found[k], state |-> "inferring"] \in CallRec
  BY DEF CallRec
<1>2. /\ new \in Seq(CallRec) /\ Len(new) = m
      /\ \A k \in 1 .. m : new[k].provider = found[k]
  <2>1. new = [k \in 1 .. m |-> [provider |-> found[k], state |-> "inferring"]]
    OBVIOUS
  <2>2. new \in [1 .. m -> CallRec]
    BY <1>1, <2>1
  <2>3. \A k \in 1 .. m : new[k].provider = found[k]
    BY <2>1
  <2> HIDE DEF new
  <2> QED
    BY <2>2, <2>3
<1> HIDE DEF new
<1>3. /\ s \o new \in Seq(CallRec) /\ Len(s \o new) = Len(s) + m /\ Len(s) \in Nat
      /\ \A k \in 1 .. Len(s) + m :
           (s \o new)[k] = IF k <= Len(s) THEN s[k] ELSE new[k - Len(s)]
  <2>1. new \in Seq(CallRec) /\ Len(new) = m
    BY <1>2
  <2>2. s \o new \in Seq(CallRec) /\ Len(s) \in Nat
    BY <2>1
  <2>3. Len(s \o new) = Len(s) + Len(new)
    BY <2>1
  <2>4. \A k \in 1 .. Len(s) + Len(new) :
          (s \o new)[k] = IF k <= Len(s) THEN s[k] ELSE new[k - Len(s)]
    BY <2>1
  <2> QED
    BY <2>1, <2>2, <2>3, <2>4
<1>4. \A k \in 1 .. Len(s) : (s \o new)[k] = s[k]
  BY <1>3
<1>5. ASSUME NEW k \in Len(s) + 1 .. Len(s) + m
      PROVE  k - Len(s) \in 1 .. m /\ (s \o new)[k].provider = found[k - Len(s)]
  <2>1. k - Len(s) \in 1 .. m /\ k \in 1 .. Len(s) + m /\ ~(k <= Len(s))
    BY <1>3
  <2> QED
    BY <1>2, <1>3, <2>1
<1> QED
  BY <1>3, <1>4, <1>5 DEF new

\* The pool has answered.
LEMMA SelectSpending ==
  ASSUME RouterInv, NEW r \in Requests, SpendInvOf(r), Select(r)
  PROVE  SpendStep(r)
<1> DEFINE mode  == req[r].mode
           share == Share(mode)
           n     == IF mode = "consensus" THEN 3 ELSE 1
           i     == req[r].intent
           tee   == NeedsTee(r)
<1>1. /\ req[r].phase = "listing" /\ req[r].reply = "none"
      /\ calls[r] \in Seq(CallRec) /\ CallsInv(r) /\ Decided(r)
      /\ calls[r] = <<>> \/ (mode = "pipeline" /\ Len(calls[r]) = 1)
  BY DEF Select, RouterInv, RouteInv, SpendInvOf, CallsInv, ListingInv
<1>2. PICK zg \in ZgListing, x402 \in X402Listing :
        LET found == Query(zg \cup x402, tee, i, share, n)
        IN  IF found = <<>>
            THEN Reply(r, "no_provider") /\ UNCHANGED calls
            ELSE /\ req' = [req EXCEPT ![r].phase = "calling"]
                 /\ calls' = [calls EXCEPT ![r] = @ \o
                      [k \in DOMAIN found |-> [provider |-> found[k], state |-> "inferring"]]]
  BY DEF Select
<1> DEFINE listed == zg \cup x402
           found  == Query(listed, tee, i, share, n)
           fit    == {p \in listed : (tee => p \in ZgProviders) /\ Price[p] * share <= i.cost}
           new    == calls[r] \o
                       [k \in DOMAIN found |-> [provider |-> found[k], state |-> "inferring"]]
<1>3. listed \in SUBSET Providers /\ tee \in BOOLEAN /\ n \in Nat \ {0}
  <2>1. listed \in SUBSET Providers
    BY RouterAssumption DEF ZgListing, X402Listing
  <2>2. tee \in BOOLEAN
    BY DEF NeedsTee
  <2> QED
    BY <2>1, <2>2
<1>4. PICK m \in 0 .. n : found \in [1 .. m -> fit]
  <2> HIDE DEF listed, tee, i, share, n
  <2> QED
    BY <1>3, QueryFacts
<1>5. \/ Reply(r, "no_provider") /\ UNCHANGED calls
      \/ /\ req' = [req EXCEPT ![r].phase = "calling"]
         /\ calls' = [calls EXCEPT ![r] = new]
  BY <1>2, Zenon
<1>6. CASE Reply(r, "no_provider") /\ UNCHANGED calls
  <2>1. Moves(r, "over", "no_provider")
    BY <1>6 DEF Reply, Moves
  <2> HIDE DEF mode, found, new, listed
  <2> QED
    BY <1>1, <1>6, <2>1, ConcludeSpending
<1>7. CASE /\ req' = [req EXCEPT ![r].phase = "calling"]
           /\ calls' = [calls EXCEPT ![r] = new]
  <2>0. Moves(r, "calling", req[r].reply)
    BY <1>7 DEF Moves
  <2>1. SameIntent(r)
    BY <2>0, MovedIntent
  <2>2. req'[r].phase = "calling" /\ req'[r].reply = "none"
    BY <1>1, <2>0, Moved
  <2>3. calls'[r] = new
    <3> HIDE DEF new
    <3> QED
      BY <1>7 DEF RouterInv
  <2>4. m \in Nat /\ found \in [1 .. m -> Providers]
    <3> HIDE DEF found, n
    <3> QED
      BY <1>3, <1>4
  <2>5. /\ new \in Seq(CallRec) /\ Len(new) = Len(calls[r]) + m
        /\ \A k \in 1 .. Len(calls[r]) : new[k] = calls[r][k]
        /\ \A k \in Len(calls[r]) + 1 .. Len(new) :
             k - Len(calls[r]) \in 1 .. m /\ new[k].provider = found[k - Len(calls[r])]
    <3> HIDE DEF found
    <3> QED
      BY <1>1, <2>4, CallsGrow
  <2> HIDE DEF new
  <2>6. \A k \in Len(calls[r]) + 1 .. Len(new) : new[k].provider \in fit
    <3> HIDE DEF found, fit
    <3> QED
      BY <1>4, <2>5
  <2>7. Len(new) <= share
    <3>1. m \in Nat /\ m <= n /\ Len(new) = Len(calls[r]) + m
      BY <1>4, <2>5
    <3>2. mode \in Modes
      BY <1>1 DEF Decided
    <3> HIDE DEF mode, new
    <3>3. CASE calls[r] = <<>>
      <4>1. Len(calls[r]) = 0
        BY <3>3
      <4> QED
        BY <3>1, <3>2, <4>1 DEF Share, Modes
    <3>4. CASE mode = "pipeline" /\ Len(calls[r]) = 1
      BY <3>1, <3>4 DEF Share
    <3> QED
      BY <1>1, <3>3, <3>4
  <2>8. ASSUME NEW k \in 1 .. Len(new)
        PROVE  /\ Price[new[k].provider] * share <= i.cost
               /\ mode = "verified" \/ (mode = "pipeline" /\ k = 2)
                    => new[k].provider \in ZgProviders
    <3>0. Len(calls[r]) \in Nat
      BY <1>1
    <3>1. CASE k <= Len(calls[r])
      <4>1. k \in 1 .. Len(calls[r]) /\ new[k] = calls[r][k]
        BY <2>5, <3>0, <3>1
      <4> QED
        BY <1>1, <4>1 DEF CallsInv
    <3>2. CASE ~(k <= Len(calls[r]))
      <4>1. new[k].provider \in fit
        BY <2>5, <2>6, <3>0, <3>2
      <4>2. mode = "verified" \/ (mode = "pipeline" /\ k = 2) => tee
        <5>1. mode = "pipeline" /\ k = 2 => calls[r] # <<>>
          <6>1. CASE calls[r] = <<>>
            <7>1. mode = "pipeline" => Len(new) <= 1
              BY <1>4, <2>5, <6>1
            <7> QED
              BY <7>1
          <6> QED
            BY <6>1
        <5> QED
          BY <5>1 DEF NeedsTee
      <4> QED
        BY <4>1, <4>2
    <3> QED
      BY <3>1, <3>2
  <2>9. CallsInv(r)'
    <3> HIDE DEF share
    <3>1. calls[r]' \in Seq(CallRec) /\ Len(calls'[r]) <= Share(req'[r].mode)
      BY <2>1, <2>3, <2>5, <2>7 DEF SameIntent, share
    <3>2. \A k \in 1 .. Len(calls'[r]) :
            /\ Price[calls'[r][k].provider] * Share(req'[r].mode) <= req'[r].intent.cost
            /\ req'[r].mode = "verified" \/ (req'[r].mode = "pipeline" /\ k = 2)
                 => calls'[r][k].provider \in ZgProviders
      BY <2>1, <2>3, <2>8 DEF SameIntent, share
    <3> QED
      BY <3>1, <3>2 DEF CallsInv
  <2>10. Decided(r)' /\ InScope(r)'
    BY <1>1, <2>1 DEF SpendInvOf, Decided, InScope, SameIntent
  <2>11. ListingInv(r)' /\ AnswerInv(r)'
    BY <2>2 DEF ListingInv, AnswerInv
  <2>12. SpendInvOf(r)'
    BY <2>9, <2>10, <2>11 DEF SpendInvOf
  <2>13. \A q \in Requests \ {r} : req'[q] = req[q] /\ calls'[q] = calls[q]
    <3>1. \A q \in Requests \ {r} : req'[q] = req[q]
      BY <2>0, Moved
    <3> QED
      BY <1>7, <3>1 DEF RouterInv
  <2> QED
    BY <2>12, <2>13 DEF SpendStep
<1> QED
  BY <1>5, <1>6, <1>7

\* A scope that allows nothing that the other does not.
Within(child, parent) ==
  /\ child.cost <= parent.cost /\ child.latency <= parent.latency
  /\ child.expiresAt <= parent.expiresAt /\ child.modes \subseteq parent.modes

\* The scope is only ever narrowed.
LEMMA NarrowKeeps ==
  ASSUME ScopeInv, Narrow \/ Tick
  PROVE  ScopeInv' /\ Within(scope', scope)
<1>1. CASE Narrow
  <2>1. PICK o \in Overrides : scope' = Narrowed(scope, o)
    BY <1>1 DEF Narrow
  <2> DEFINE ttl == Min({o.ttl, scope.ttl})
             end == Min({now + ttl, scope.expiresAt})
             cost == Min({scope.cost, o.cost})
             latency == Min({scope.latency, o.latency})
             left == Max({0, end - now})
  <2>2. \A x, y \in Int : /\ Min({x, y}) \in Int /\ Min({x, y}) <= x /\ Min({x, y}) <= y
                          /\ Max({x, y}) \in Int
    <3> TAKE x, y \in Int
    <3>1. \E z \in {x, y} : \A w \in {x, y} : z <= w
      <4>1. CASE x <= y
        BY <4>1
      <4>2. CASE y <= x
        BY <4>2
      <4> QED
        BY <4>1, <4>2
    <3>2. \E z \in {x, y} : \A w \in {x, y} : z >= w
      <4>1. CASE x <= y
        BY <4>1
      <4>2. CASE y <= x
        BY <4>2
      <4> QED
        BY <4>1, <4>2
    <3>3. Min({x, y}) \in {x, y} /\ \A w \in {x, y} : Min({x, y}) <= w
      BY <3>1 DEF Min
    <3>4. Max({x, y}) \in {x, y}
      BY <3>2 DEF Max
    <3> QED
      BY <3>3, <3>4
  <2>3. o.cost \in Int /\ o.ttl \in Int /\ o.latency \in Int
    BY RouterAssumption
  <2>4. ttl \in Int
    BY <2>2, <2>3 DEF ScopeInv
  <2>5. end \in Int /\ end <= scope.expiresAt
    <3>1. now + ttl \in Int /\ scope.expiresAt \in Int
      BY <2>4 DEF ScopeInv
    <3> HIDE DEF ttl
    <3> QED
      BY <2>2, <3>1
  <2>6. /\ cost \in Int /\ cost <= scope.cost
        /\ latency \in Int /\ latency <= scope.latency
    BY <2>2, <2>3 DEF ScopeInv
  <2>7. left \in Int
    <3> HIDE DEF end
    <3>1. end - now \in Int /\ 0 \in Int
      BY <2>5 DEF ScopeInv
    <3> QED
      BY <2>2, <3>1
  <2>8. /\ scope'.cost = cost /\ scope'.expiresAt = end /\ scope'.ttl = left
        /\ scope'.latency = latency /\ scope'.modes = scope.modes \cap o.modes
    BY <2>1 DEF Narrowed, NarrowedUntil
  <2> HIDE DEF cost, end, left, latency
  <2>9. now' = now
    BY <1>1 DEF Narrow
  <2> QED
    BY <2>5, <2>6, <2>7, <2>8, <2>9, RouterAssumption DEF ScopeInv, Within
<1>2. CASE Tick
  BY <1>2 DEF Tick, ScopeInv, Within
<1> QED
  BY <1>1, <1>2

-----------------------------------------------------------------------------

LEMMA InitSpending == Init => SpendInv
<1> SUFFICES ASSUME Init PROVE SpendInv
  OBVIOUS
<1>1. ScopeInv
  BY RouterAssumption DEF Init, ScopeInv
<1>2. ASSUME NEW r \in Requests PROVE SpendInvOf(r)
  <2>1. calls[r] = <<>> /\ req[r].phase = "idle" /\ req[r].mode = "fast" /\ req[r].reply = "none"
    BY DEF Init, Idle
  <2> QED
    BY <2>1 DEF SpendInvOf, CallsInv, ListingInv, AnswerInv, Share
<1> QED
  BY <1>1, <1>2 DEF SpendInv

\* A step of one route leaves what the others spend alone.
LEMMA OthersSpend ==
  ASSUME SpendInv, NEW r \in Requests, SpendInvOf(r)', UNCHANGED <<scope, now>>,
         \A q \in Requests \ {r} : req'[q] = req[q] /\ calls'[q] = calls[q]
  PROVE  SpendInv'
<1>1. \A q \in Requests \ {r} : SpendInvOf(q)'
  BY OtherSpending DEF SpendInv
<1>2. ScopeInv'
  BY DEF SpendInv, ScopeInv
<1> QED
  BY <1>1, <1>2 DEF SpendInv

LEMMA NextSpending == RouterInv /\ SpendInv /\ [Next]_vars => SpendInv'
<1> SUFFICES ASSUME RouterInv, SpendInv, [Next]_vars PROVE SpendInv'
  OBVIOUS
<1>0. ScopeInv /\ \A r \in Requests : SpendInvOf(r)
  BY DEF SpendInv
<1>1. ASSUME NEW r \in Requests, Ask(r) PROVE SpendInv'
  <2>1. SpendInvOf(r)' /\ UNCHANGED <<scope, now>>
    BY <1>0, <1>1, AskSpending DEF Ask
  <2>2. \A q \in Requests \ {r} : req'[q] = req[q] /\ calls'[q] = calls[q]
    BY <1>1 DEF Ask, RouterInv
  <2> QED
    BY <2>1, <2>2, OthersSpend
<1>2. ASSUME NEW r \in Requests, Select(r) PROVE SpendInv'
  <2>1. SpendStep(r)
    BY <1>0, <1>2, SelectSpending
  <2>2. UNCHANGED <<scope, now>>
    BY <1>2 DEF Select
  <2> QED
    BY <2>1, <2>2, OthersSpend DEF SpendStep
<1>3. ASSUME NEW r \in Requests, Conclude(r) PROVE SpendInv'
  <2>1. SpendStep(r)
    BY <1>0, <1>3, ConcludingSpending
  <2>2. UNCHANGED <<scope, now>>
    BY <1>3 DEF Conclude, SingleFails, FastAnswers, VerifiedAnswers, ResearchAnswers,
                DecisionAnswers, ConsensusFails, ConsensusAnswers, Succeed
  <2> QED
    BY <2>1, <2>2, OthersSpend DEF SpendStep
<1>4. ASSUME NEW r \in Requests, NEW k \in 1 .. 3, Call(r, k) PROVE SpendInv'
  <2>1. PICK from \in {"inferring", "settling"},
             to \in {"settling", "settled", "unsettled", "unanswered", "threw"} :
          /\ CallStep(r, k, from, to)
          /\ UNCHANGED req \/ (req[r].phase = "calling" /\ Reply(r, "threw"))
    BY <1>4 DEF Call, ZgInfer, X402Infer, SettleOk, SettleFails, Answer, NoAnswer, Unsettleable
  <2>2. SpendInvOf(r)'
    BY <1>0, <2>1, CallSpending
  <2>3. /\ UNCHANGED <<scope, now>>
        /\ \A q \in Requests \ {r} : req'[q] = req[q] /\ calls'[q] = calls[q]
    BY <2>1 DEF CallStep, SetCall, Reply, RouterInv
  <2> QED
    BY <2>2, <2>3, OthersSpend
<1>5. CASE Narrow \/ Tick
  <2>1. ScopeInv' /\ UNCHANGED <<req, calls>>
    BY <1>0, <1>5, NarrowKeeps DEF Narrow, Tick, routeVars
  <2> QED
    BY <1>0, <2>1, OtherSpending DEF SpendInv
<1>6. CASE UNCHANGED vars
  <2>1. UNCHANGED <<req, calls, scope, now>>
    BY <1>6 DEF vars, routeVars
  <2>2. \A r \in Requests : SpendInvOf(r)'
    BY <1>0, <2>1, OtherSpending
  <2> QED
    BY <1>0, <2>1, <2>2 DEF SpendInv, ScopeInv
<1> QED
  BY <1>1, <1>2, <1>3, <1>4, <1>5, <1>6 DEF Next

\* What a route spends and answers, an invariant together with where its calls are.
THEOREM RouterSpendInv == Spec => [](RouterInv /\ SpendInv)
<1>1. Init => RouterInv /\ SpendInv
  BY InitRouterInv, InitSpending
<1>2. RouterInv /\ SpendInv /\ [Next]_vars => (RouterInv /\ SpendInv)'
  BY NextKeepsRouterInv, NextSpending
<1> QED
  BY <1>1, <1>2, PTL DEF Spec

ScopeOnlyNarrows == [][Within(scope', scope)]_vars

\* Attenuation (scope.ts:78): however often it is narrowed and whatever time has
\* passed, a scope never again allows a mode, a price, a latency or an instant that
\* it has once refused.
THEOREM RouterScopeOnlyNarrows == Spec => ScopeOnlyNarrows
<1>1. SpendInv /\ [Next]_vars => [Within(scope', scope)]_vars
  <2> SUFFICES ASSUME SpendInv, Next PROVE Within(scope', scope)
    OBVIOUS
  <2>1. CASE Narrow \/ Tick
    BY <2>1, NarrowKeeps DEF SpendInv
  <2>2. CASE \E r \in Requests : Ask(r) \/ Select(r) \/ Conclude(r) \/ \E k \in 1 .. 3 : Call(r, k)
    <3>1. ASSUME NEW r \in Requests, Ask(r) \/ Select(r) PROVE scope' = scope
      BY <3>1 DEF Ask, Select
    <3>2. ASSUME NEW r \in Requests, Conclude(r) PROVE scope' = scope
      BY <3>2 DEF Conclude, SingleFails, FastAnswers, VerifiedAnswers, ResearchAnswers,
                  DecisionAnswers, ConsensusFails, ConsensusAnswers, Succeed
    <3>3. ASSUME NEW r \in Requests, NEW k \in 1 .. 3, Call(r, k) PROVE scope' = scope
      BY <3>3 DEF Call, ZgInfer, X402Infer, Answer, NoAnswer, Unsettleable, SettleOk, SettleFails,
                  CallStep
    <3> QED
      BY <2>2, <3>1, <3>2, <3>3 DEF Within, SpendInv, ScopeInv
  <2> QED
    BY <2>1, <2>2 DEF Next
<1> QED
  BY <1>1, RouterSpendInv, PTL DEF Spec, ScopeOnlyNarrows

\* However often the scope is narrowed, the calls of a route together cost no more
\* than its intent allows, and it keeps to the scope that the operator signed
\* (scope.ts:65-91, policy.ts, pool.ts, the budget shares of route.ts).
THEOREM RouterSpendsWithinScope == Spec => []SpendWithinScope
<1>1. RouterInv /\ SpendInv => SpendWithinScope
  <2> SUFFICES ASSUME RouterInv, SpendInv, NEW r \in Requests, calls[r] # <<>>
               PROVE  /\ Total([k \in DOMAIN calls[r] |-> Price[calls[r][k].provider]])
                           <= req[r].intent.cost
                      /\ InScope(r)
    BY DEF SpendWithinScope, InScope
  <2>1. SpendInvOf(r) /\ CallsInv(r) /\ InScope(r)
    BY DEF SpendInv, SpendInvOf
  <2>2. Decided(r)
    BY <2>1 DEF RouterInv, RouteInv, SpendInvOf
  <2> DEFINE n == Len(calls[r])
             f == [k \in DOMAIN calls[r] |-> Price[calls[r][k].provider]]
             m == Share(req[r].mode)
             c == req[r].intent.cost
  <2>3. calls[r] \in Seq(CallRec) /\ n \in Nat /\ n # 0 /\ n <= m /\ DOMAIN calls[r] = 1 .. n
    BY <2>1 DEF CallsInv
  <2>4. m \in 1 .. 3 /\ c \in Nat
    BY <2>2, RouterAssumption DEF Share, Decided
  <2>5. f \in [1 .. n -> Nat]
    <3>1. ASSUME NEW k \in 1 .. n PROVE calls[r][k].provider \in Providers
      <4>1. calls[r][k] \in CallRec
        BY <2>3
      <4> QED
        BY <4>1 DEF CallRec
    <3> HIDE DEF n
    <3> QED
      BY <2>3, <3>1, RouterAssumption
  <2>6. \A k \in 1 .. n : f[k] * m <= c
    BY <2>1, <2>3 DEF CallsInv
  <2> HIDE DEF n, f, m, c
  <2>7. n \in 1 .. 3
    BY <2>3, <2>4
  <2>8. Total(f) <= c
    BY <2>3, <2>4, <2>5, <2>6, <2>7, SumOfShares
  <2> QED
    BY <2>1, <2>8 DEF f, c
<1> QED
  BY <1>1, RouterSpendInv, PTL

\* An answer in another mode than fast rests on a settled answer from a TEE, and a
\* critical intent is not answered in a lower mode than it asked for.
THEOREM RouterAnswersAreAttested == Spec => []AnswersAreAttested
<1>1. RouterInv /\ SpendInv => AnswersAreAttested
  <2> SUFFICES ASSUME RouterInv, SpendInv, NEW r \in Requests, req[r].reply = "ok"
               PROVE  /\ req[r].mode # "fast" => Attested(r)
                      /\ req[r].mode = "pipeline" => calls[r][2].provider \in ZgProviders
                      /\ req[r].intent.critical =>
                           Tier[req[r].mode] >= Tier[req[r].intent.requested]
    BY DEF AnswersAreAttested
  <2>1. AnswerInv(r) /\ CallsInv(r) /\ Decided(r)
    BY DEF SpendInv, SpendInvOf, AnswerInv
  <2>2. req[r].mode = "pipeline" => calls[r][2].provider \in ZgProviders
    BY <2>1 DEF AnswerInv, CallsInv
  <2> QED
    BY <2>1, <2>2 DEF AnswerInv, Decided
<1> QED
  BY <1>1, RouterSpendInv, PTL

-----------------------------------------------------------------------------
(* Scores                                                                  *)

\* The participants of a consensus that was scored.
LEMMA Participants ==
  ASSUME NEW n \in {2, 3}
  PROVE  /\ IsFiniteSet(1 .. n) /\ Cardinality(1 .. n) = n
         /\ \A S \in SUBSET (1 .. n) :
              /\ IsFiniteSet(S) /\ Cardinality(S) \in Nat /\ Cardinality(S) <= n
              /\ 10 * Cardinality(S) >= 7 * n => S = 1 .. n
<1>1. IsFiniteSet(1 .. n) /\ Cardinality(1 .. n) = n
  BY FS_Interval
<1>2. ASSUME NEW S \in SUBSET (1 .. n)
      PROVE  /\ IsFiniteSet(S) /\ Cardinality(S) \in Nat /\ Cardinality(S) <= n
             /\ 10 * Cardinality(S) >= 7 * n => S = 1 .. n
  <2>1. IsFiniteSet(S) /\ Cardinality(S) <= n /\ (Cardinality(S) = n => S = 1 .. n)
    BY <1>1, FS_Subset
  <2>2. Cardinality(S) \in Nat
    BY <2>1, FS_CardinalityType
  <2> QED
    BY <2>1, <2>2
<1> QED
  BY <1>1, <1>2

\* n answers are a sequence of that length.
LEMMA AnswersAre ==
  ASSUME NEW n \in Nat, NEW a, a = [i \in 1 .. n |-> a[i]]
  PROVE  Len(a) = n /\ DOMAIN a = 1 .. n
<1> DEFINE V == {a[i] : i \in 1 .. n}
<1>1. a \in [1 .. n -> V]
  OBVIOUS
<1> HIDE DEF V
<1> QED
  BY <1>1

\* What the flag of a score says.
LEMMA ScoredIs ==
  ASSUME NEW response, NEW outliers, NEW num, NEW den
  PROVE  /\ Scored(response, outliers, num, den).outliers = outliers
         /\ ~Scored(response, outliers, num, den).low => ~(10 * num < 7 * den)
BY Zenon DEF Scored

\* A category that is not flagged is unanimous.
LEMMA CategoricalScore ==
  ASSUME NEW n \in {2, 3}, NEW a \in [1 .. n -> Int], ~ScoreCategorical(a).low
  PROVE  ScoreCategorical(a).outliers = {}
<1> DEFINE values == ToSet(a)
           size(v) == Cardinality(Holders(a, v))
           tops == {size(v) : v \in values}
           top == Max(tops)
           winners == {v \in values : size(v) = top}
           winner == Min(winners)
<1>1. Len(a) = n /\ DOMAIN a = 1 .. n
  BY AnswersAre
<1>2. ScoreCategorical(a) = Scored(winner, DOMAIN a \ Holders(a, winner), top, Len(a))
  BY Zenon DEF ScoreCategorical, TopCount
<1>3. values = {a[i] : i \in 1 .. n} /\ values # {} /\ values \subseteq Int /\ IsFiniteSet(values)
  <2>1. values = {a[i] : i \in 1 .. n}
    BY <1>1 DEF ToSet
  <2>2. IsFiniteSet(1 .. n)
    BY Participants
  <2>3. IsFiniteSet({a[i] : i \in 1 .. n})
    BY <2>2, FiniteImage
  <2> QED
    BY <2>1, <2>3
<1>4. \A v : Holders(a, v) \in SUBSET (1 .. n) /\ size(v) \in Nat
  BY <1>1, Participants DEF Holders
<1> HIDE DEF values
<1>5. top \in tops
  <2>1. IsFiniteSet(tops)
    <3> DEFINE f == [v \in values |-> size(v)]
    <3>1. tops = {f[v] : v \in values}
      OBVIOUS
    <3> HIDE DEF f, tops
    <3>2. IsFiniteSet({f[v] : v \in values})
      BY <1>3, FiniteImage
    <3> QED
      BY <3>1, <3>2
  <2>2. tops \subseteq Int /\ tops # {}
    BY <1>3, <1>4
  <2> HIDE DEF tops
  <2> QED
    BY <2>1, <2>2, HasMax
<1>6. winner \in winners
  <2>1. winners # {} /\ winners \subseteq Int /\ IsFiniteSet(winners)
    BY <1>3, <1>5, FS_Subset
  <2> HIDE DEF winners
  <2> QED
    BY <2>1, HasMin
<1>7. size(winner) = top
  BY <1>6
<1> HIDE DEF winner, top
<1>8. ~(10 * top < 7 * n)
  BY <1>1, <1>2, ScoredIs
<1>9. Holders(a, winner) = 1 .. n
  <2>1. top \in Nat /\ Holders(a, winner) \in SUBSET (1 .. n)
    BY <1>4, <1>7
  <2>2. 10 * Cardinality(Holders(a, winner)) >= 7 * n
    BY <1>7, <1>8, <2>1
  <2> QED
    BY <2>1, <2>2, Participants
<1> QED
  BY <1>1, <1>2, <1>9, ScoredIs

\* Numbers that are not flagged have all been parsed, and none is far from the others.
LEMMA NumericScore ==
  ASSUME NEW n \in {2, 3}, NEW a \in [1 .. n -> Int \cup {NaN}], ~ScoreNumeric(a).low
  PROVE  ScoreNumeric(a).outliers = {}
<1> DEFINE parsed == {i \in 1 .. n : a[i] # NaN}
           inliers == parsed \ FarAnswers(a, parsed)
           used == IF inliers = {} THEN parsed ELSE inliers
           outliers == 1 .. n \ inliers
           none == Scored(NaN, 1 .. n, 0, 1)
           one == Scored(<<SumOver(parsed, a), 1>>, outliers, IF outliers = {} THEN 1 ELSE 0, 1)
           some == [response |-> <<SumOver(used, a), Cardinality(used)>>,
                    outliers |-> outliers,
                    low      |-> \/ inliers = {}
                                 \/ TooScattered(a, inliers, Cardinality(inliers), n)]
<1>1. Len(a) = n
  BY AnswersAre
<1>2. ScoreNumeric(a) = CASE parsed = {} -> none
                          [] Cardinality(parsed) = 1 -> one
                          [] OTHER -> some
  BY <1>1, Zenon DEF ScoreNumeric
<1>3. ~none.low => FALSE
  BY ScoredIs
<1>4. ~one.low => one.outliers = {}
  <2> HIDE DEF parsed, outliers
  <2>1. one.outliers = outliers
    BY ScoredIs
  <2>2. ~one.low => ~(10 * (IF outliers = {} THEN 1 ELSE 0) < 7 * 1)
    BY ScoredIs
  <2> HIDE DEF one
  <2> QED
    BY <2>1, <2>2
<1>5. ~some.low => some.outliers = {}
  <2>1. inliers \in SUBSET (1 .. n)
    OBVIOUS
  <2> HIDE DEF inliers, used
  <2> SUFFICES ASSUME ~some.low PROVE 1 .. n \ inliers = {}
    OBVIOUS
  <2>2. ~TooScattered(a, inliers, Cardinality(inliers), n)
    OBVIOUS
  <2>3. ~(10 * Cardinality(inliers) - 7 * n < 0)
    BY <2>2 DEF TooScattered
  <2>4. Cardinality(inliers) \in Nat
    BY <2>1, Participants
  <2>5. 10 * Cardinality(inliers) >= 7 * n
    BY <2>3, <2>4
  <2>6. inliers = 1 .. n
    BY <2>1, <2>5, Participants
  <2> QED
    BY <2>6
<1>6. parsed = {} \/ (parsed # {} /\ Cardinality(parsed) = 1)
        \/ (parsed # {} /\ Cardinality(parsed) # 1)
  OBVIOUS
<1> HIDE DEF parsed, none, one, some
<1>7. \/ ScoreNumeric(a) = none \/ ScoreNumeric(a) = one \/ ScoreNumeric(a) = some
  <2>1. CASE parsed = {}
    <3>1. parsed = {} /\ Cardinality({}) = 0
      BY <2>1, FS_EmptySet
    <3> QED
      BY <1>2, <3>1
  <2>2. CASE parsed # {} /\ Cardinality(parsed) = 1
    BY <1>2, <2>2
  <2>3. CASE parsed # {} /\ Cardinality(parsed) # 1
    BY <1>2, <2>3
  <2> QED
    BY <1>6, <2>1, <2>2, <2>3
<1> QED
  BY <1>3, <1>4, <1>5, <1>7

\* The k-th smallest value: fewer than k are below it.
LEMMA RankedIs ==
  ASSUME NEW D, IsFiniteSet(D), NEW f \in [D -> Int], NEW k \in 1 .. Cardinality(D)
  PROVE  /\ Ranked(f, k) \in Int
         /\ Cardinality({x \in D : f[x] < Ranked(f, k)}) < k
<1> DEFINE values == {f[x] : x \in D}
           upTo(v) == {x \in D : f[x] <= v}
           below(v) == {x \in D : f[x] < v}
           enough == {v \in values : Cardinality(upTo(v)) >= k}
           least == Min(enough)
<1>1. values \subseteq Int /\ IsFiniteSet(values) /\ Cardinality(D) \in Nat
  BY FiniteImage, FS_CardinalityType
<1>2. \A v : /\ IsFiniteSet(upTo(v)) /\ Cardinality(upTo(v)) \in Nat
             /\ IsFiniteSet(below(v)) /\ Cardinality(below(v)) \in Nat
  BY FS_Subset, FS_CardinalityType
<1>3. enough # {}
  <2> DEFINE greatest == Max(values)
  <2>1. values # {}
    <3>1. D # {}
      BY FS_EmptySet
    <3> QED
      BY <3>1
  <2>2. greatest \in values /\ \A v \in values : greatest >= v
    <3> HIDE DEF values
    <3> QED
      BY <1>1, <2>1, HasMax
  <2> HIDE DEF greatest
  <2>3. upTo(greatest) = D
    BY <1>1, <2>2
  <2> QED
    BY <1>1, <2>2, <2>3
<1>4. least \in enough /\ \A v \in enough : least <= v
  <2>1. enough \subseteq Int /\ IsFiniteSet(enough)
    BY <1>1, FS_Subset
  <2> HIDE DEF enough
  <2> QED
    BY <1>3, <2>1, HasMin
<1>5. least \in values /\ least \in Int /\ Cardinality(upTo(least)) >= k
  BY <1>1, <1>4
<1> HIDE DEF least
<1>6. Cardinality(below(least)) < k
  <2> DEFINE lower == {v \in values : v < least}
             next == Max(lower)
  <2>1. CASE lower = {}
    <3>1. below(least) = {}
      BY <2>1
    <3>2. Cardinality({}) = 0
      BY FS_EmptySet
    <3> HIDE DEF below
    <3> QED
      BY <1>1, <3>1, <3>2
  <2>2. CASE lower # {}
    <3>1. lower \subseteq Int /\ IsFiniteSet(lower)
      BY <1>1, FS_Subset
    <3>2. next \in lower /\ \A v \in lower : next >= v
      <4> HIDE DEF lower
      <4> QED
        BY <2>2, <3>1, HasMax
    <3> HIDE DEF next
    <3>3. next \in values /\ next \in Int /\ next < least
      BY <1>1, <3>2
    <3>4. upTo(next) = below(least)
      <4>1. ASSUME NEW x \in D PROVE f[x] <= next <=> f[x] < least
        <5>1. f[x] \in Int /\ (f[x] < least => f[x] \in lower)
          OBVIOUS
        <5> HIDE DEF lower
        <5> QED
          BY <1>5, <3>2, <3>3, <5>1
      <4> QED
        BY <4>1
    <3>5. next \notin enough
      <4> HIDE DEF enough
      <4> QED
        BY <1>4, <1>5, <3>3
    <3>6. ~(Cardinality(upTo(next)) >= k)
      <4> HIDE DEF upTo, values
      <4> QED
        BY <3>3, <3>5
    <3> HIDE DEF upTo, below
    <3> QED
      BY <1>1, <1>2, <3>4, <3>6
  <2> QED
    BY <2>1, <2>2
<1> DEFINE kth(v) == /\ Cardinality({x \in DOMAIN f : f[x] < v}) < k
                     /\ Cardinality({x \in DOMAIN f : f[x] <= v}) >= k
<1>7. kth(least)
  BY <1>5, <1>6
<1>8. Ranked(f, k) \in values /\ kth(Ranked(f, k))
  <2>1. Ranked(f, k) = CHOOSE v \in values : kth(v)
    BY Zenon DEF Ranked
  <2> HIDE DEF kth, values
  <2> QED
    BY <1>5, <1>7, <2>1
<1> QED
  BY <1>1, <1>8

\* The pairs of two and of three participants.
LEMMA PairsAre ==
  /\ \A x, y : x # y => IsFiniteSet({x, y}) /\ Cardinality({x, y}) = 2
  /\ Pairs(2) = {{1, 2}} /\ Cardinality(Pairs(2)) = 1
  /\ Pairs(3) = {{1, 2}, {1, 3}, {2, 3}} /\ Cardinality(Pairs(3)) = 3
<1>1. ASSUME NEW x, NEW y, x # y PROVE IsFiniteSet({x, y}) /\ Cardinality({x, y}) = 2
  <2>1. {x, y} = {x} \cup {y} /\ y \notin {x}
    BY <1>1
  <2>2. IsFiniteSet({x}) /\ Cardinality({x}) = 1
    BY FS_Singleton
  <2>3. IsFiniteSet({x} \cup {y}) /\ Cardinality({x} \cup {y}) = Cardinality({x}) + 1
    BY <2>1, <2>2, FS_AddElement
  <2> QED
    BY <2>1, <2>2, <2>3
<1>2. ASSUME NEW e, IsFiniteSet(e), Cardinality(e) = 2
      PROVE  \E x, y \in e : x # y /\ e = {x, y}
  <2>1. e # {}
    BY <1>2, FS_EmptySet
  <2>2. PICK x \in e : TRUE
    BY <2>1
  <2>3. IsFiniteSet(e \ {x}) /\ Cardinality(e \ {x}) = Cardinality(e) - 1
    BY <1>2, <2>2, FS_RemoveElement
  <2>4. Cardinality(e \ {x}) = 1
    BY <1>2, <2>3
  <2>5. PICK y : e \ {x} = {y}
    BY <2>3, <2>4, FS_Singleton
  <2> QED
    BY <2>5
<1>3. ASSUME NEW n \in {2, 3}
      PROVE  Pairs(n) = {e \in SUBSET (1 .. n) : \E x, y \in e : x # y /\ e = {x, y}}
  <2>1. \A e \in SUBSET (1 .. n) : IsFiniteSet(e)
    BY Participants
  <2>2. ASSUME NEW e \in SUBSET (1 .. n)
        PROVE  Cardinality(e) = 2 <=> \E x, y \in e : x # y /\ e = {x, y}
    <3>1. ASSUME Cardinality(e) = 2 PROVE \E x, y \in e : x # y /\ e = {x, y}
      BY <1>2, <2>1, <3>1
    <3>2. ASSUME NEW x \in e, NEW y \in e, x # y, e = {x, y} PROVE Cardinality(e) = 2
      <4>1. Cardinality({x, y}) = 2
        BY <1>1, <3>2
      <4> QED
        BY <3>2, <4>1
    <3> QED
      BY <3>1, <3>2
  <2> QED
    BY <2>2 DEF Pairs
<1>4. Pairs(2) = {{1, 2}}
  <2>1. 1 .. 2 = {1, 2}
    OBVIOUS
  <2> QED
    BY <1>3, <2>1
<1>5. Pairs(3) = {{1, 2}, {1, 3}, {2, 3}}
  <2>1. 1 .. 3 = {1, 2, 3}
    OBVIOUS
  <2>2. ASSUME NEW e PROVE e \in Pairs(3) <=> e \in {{1, 2}, {1, 3}, {2, 3}}
    <3>1. ASSUME e \in Pairs(3) PROVE e \in {{1, 2}, {1, 3}, {2, 3}}
      <4>1. PICK x, y \in {1, 2, 3} : x # y /\ e = {x, y}
        BY <1>3, <2>1, <3>1
      <4> QED
        BY <4>1
    <3>2. ASSUME e \in {{1, 2}, {1, 3}, {2, 3}} PROVE e \in Pairs(3)
      <4>1. e \in SUBSET {1, 2, 3} /\ \E x, y \in e : x # y /\ e = {x, y}
        BY <3>2
      <4> QED
        BY <1>3, <2>1, <4>1
    <3> QED
      BY <3>1, <3>2
  <2> QED
    BY <2>2
<1>6. Cardinality(Pairs(2)) = 1
  BY <1>4, FS_Singleton
<1>7. Cardinality(Pairs(3)) = 3
  <2> DEFINE T == {{1, 2}, {1, 3}}
  <2>1. {1, 2} # {1, 3} /\ {2, 3} \notin T
    <3>1. 3 \notin {1, 2} /\ 3 \in {1, 3} /\ 1 \notin {2, 3} /\ 1 \in {1, 2} /\ 1 \in {1, 3}
      OBVIOUS
    <3> QED
      BY <3>1
  <2>2. IsFiniteSet(T) /\ Cardinality(T) = 2
    BY <1>1, <2>1
  <2>3. Pairs(3) = T \cup {{2, 3}}
    BY <1>5
  <2> DEFINE y == {2, 3}
  <2>4. Pairs(3) = T \cup {y} /\ y \notin T
    BY <2>1, <2>3
  <2> HIDE DEF T, y
  <2>5. Cardinality(T \cup {y}) = Cardinality(T) + 1
    BY <2>2, <2>4, FS_AddElement
  <2> QED
    BY <2>2, <2>4, <2>5
<1> QED
  BY <1>1, <1>4, <1>5, <1>6, <1>7

\* Free text never has an outlier: with two answers there is one similarity, and
\* with three each answer is in two of the three pairs, one of which is no less
\* similar than the median.
LEMMA FreeformScore ==
  ASSUME NEW n \in {2, 3}, NEW sim, sim = Blank \/ sim \in [Pairs(n) -> Int],
         ~ScoreFreeform(sim, n).low
  PROVE  ScoreFreeform(sim, n).outliers = {}
<1> DEFINE near(i) == {sim[e] : e \in {d \in Pairs(n) : i \in d}}
           closeness(i) == SumOver({d \in Pairs(n) : i \in d}, sim)
           best == Max({closeness(i) : i \in 1 .. n})
           blank == Scored(1, 1 .. n, 0, 1)
           apart == {i \in 1 .. n : 2 * Max(near(i)) < TwiceMedian(sim)}
           text == Scored(Min({i \in 1 .. n : closeness(i) = best}), apart,
                          Min({sim[e] : e \in Pairs(n)}), 10)
<1>1. ScoreFreeform(sim, n) = IF sim = Blank THEN blank ELSE text
  BY Zenon DEF ScoreFreeform
<1>2. ~blank.low => FALSE
  BY ScoredIs
<1>3. text.outliers = apart
  BY ScoredIs
<1> HIDE DEF blank, text
<1>4. sim # Blank /\ sim \in [Pairs(n) -> Int] /\ ScoreFreeform(sim, n).outliers = apart
  BY <1>1, <1>2, <1>3
<1>5. IsFiniteSet(Pairs(n))
  <2>1. IsFiniteSet(SUBSET (1 .. n))
    BY Participants, FS_SUBSET
  <2> QED
    BY <2>1, FS_Subset DEF Pairs
<1> DEFINE k == n - 1
           m == Ranked(sim, k)
           less == {e \in Pairs(n) : sim[e] < m}
<1>6. k \in 1 .. Cardinality(Pairs(n))
  BY PairsAre
<1>7. TwiceMedian(sim) = m + m
  <2>1. DOMAIN sim = Pairs(n)
    BY <1>4
  <2>2. CASE n = 2
    <3>1. Cardinality(DOMAIN sim) = 1 /\ k = 1
      BY <2>1, <2>2, PairsAre
    <3>2. (1 + 1) \div 2 = 1 /\ 1 \div 2 + 1 = 1
      OBVIOUS
    <3> QED
      BY <3>1, <3>2 DEF TwiceMedian
  <2>3. CASE n = 3
    <3>1. Cardinality(DOMAIN sim) = 3 /\ k = 2
      BY <2>1, <2>3, PairsAre
    <3>2. (3 + 1) \div 2 = 2 /\ 3 \div 2 + 1 = 2
      OBVIOUS
    <3> QED
      BY <3>1, <3>2 DEF TwiceMedian
  <2> QED
    BY <2>2, <2>3
<1> HIDE DEF k
<1>8. m \in Int /\ Cardinality(less) < k
  BY <1>4, <1>5, <1>6, RankedIs
<1>9. IsFiniteSet(less) /\ Cardinality(less) \in Nat
  BY <1>5, FS_Subset, FS_CardinalityType
<1> HIDE DEF m
<1>10. ASSUME NEW i \in 1 .. n, 2 * Max(near(i)) < TwiceMedian(sim) PROVE FALSE
  <2> DEFINE mine == {d \in Pairs(n) : i \in d}
  <2>1. near(i) # {} /\ near(i) \subseteq Int /\ IsFiniteSet(near(i))
    <3>1. mine # {}
      <4>1. CASE n = 2
        <5>1. i \in {1, 2} /\ {1, 2} \in Pairs(n)
          BY <4>1, PairsAre
        <5> QED
          BY <5>1
      <4>2. CASE n = 3
        <5>1. i \in {1, 2} \/ i \in {2, 3}
          BY <4>2
        <5>2. {1, 2} \in Pairs(n) /\ {2, 3} \in Pairs(n)
          BY <4>2, PairsAre
        <5> QED
          BY <5>1, <5>2
      <4> QED
        BY <4>1, <4>2
    <3>2. IsFiniteSet(mine)
      BY <1>5, FS_Subset
    <3>3. near(i) = {sim[e] : e \in mine} /\ mine \subseteq Pairs(n)
      OBVIOUS
    <3> HIDE DEF mine
    <3>4. IsFiniteSet({sim[e] : e \in mine})
      BY <3>2, FiniteImage
    <3> QED
      BY <1>4, <3>1, <3>3, <3>4
  <2>2. Max(near(i)) \in Int /\ \A s \in near(i) : Max(near(i)) >= s
    <3> HIDE DEF near
    <3> QED
      BY <2>1, HasMax
  <2>3. mine \subseteq less
    <3>1. ASSUME NEW e \in mine PROVE sim[e] < m
      <4>1. sim[e] \in near(i) /\ sim[e] \in Int
        BY <1>4
      <4> HIDE DEF near
      <4> QED
        BY <1>7, <1>8, <1>10, <2>2, <4>1
    <3> QED
      BY <3>1
  <2>4. CASE n = 2
    <3>1. {1, 2} \in less
      <4>1. {1, 2} \in mine
        BY <2>4, PairsAre
      <4> QED
        BY <2>3, <4>1
    <3>2. Cardinality(less) # 0
      <4> HIDE DEF less
      <4> QED
        BY <1>9, <3>1, FS_EmptySet
    <3> HIDE DEF less
    <3> QED
      BY <1>8, <1>9, <2>4, <3>2 DEF k
  <2>5. CASE n = 3
    <3>1. \E d, e \in mine : d # e
      <4>1. {1, 2} \in Pairs(n) /\ {1, 3} \in Pairs(n) /\ {2, 3} \in Pairs(n)
        BY <2>5, PairsAre
      <4>2. /\ i = 1 => i \in {1, 2} /\ i \in {1, 3}
            /\ i = 2 => i \in {1, 2} /\ i \in {2, 3}
            /\ i = 3 => i \in {1, 3} /\ i \in {2, 3}
        OBVIOUS
      <4>3. {1, 2} # {1, 3} /\ {1, 2} # {2, 3} /\ {1, 3} # {2, 3}
        <5>1. 3 \notin {1, 2} /\ 3 \in {1, 3} /\ 3 \in {2, 3} /\ 1 \notin {2, 3} /\ 1 \in {1, 3}
          OBVIOUS
        <5> QED
          BY <5>1
      <4>4. i = 1 \/ i = 2 \/ i = 3
        BY <2>5
      <4> QED
        BY <4>1, <4>2, <4>3, <4>4
    <3>2. PICK d \in mine, e \in mine : d # e
      BY <3>1
    <3>3. {d, e} \subseteq less
      BY <2>3
    <3>4. IsFiniteSet({d, e}) /\ Cardinality({d, e}) = 2
      BY <3>2, PairsAre
    <3>5. Cardinality({d, e}) <= Cardinality(less)
      <4> HIDE DEF less
      <4> QED
        BY <1>9, <3>3, FS_Subset
    <3> HIDE DEF less
    <3> QED
      BY <1>8, <1>9, <2>5, <3>4, <3>5 DEF k
  <2> QED
    BY <2>4, <2>5
<1> QED
  BY <1>4, <1>10

\* A sum of ones counts, and a sum of the same number over and over multiplies.
LEMMA SumOfSame ==
  ASSUME NEW S, IsFiniteSet(S), NEW n \in {2, 3}
  PROVE  Total([x \in S |-> n]) = n * Cardinality(S)
<1> DEFINE one == [x \in S |-> 1]
           two == [x \in S |-> 2]
           three == [x \in S |-> 3]
<1>1. SumOver(S, one) = Cardinality(S) /\ Cardinality(S) \in Nat
  <2>1. \A x \in S : one[x] = IF x \in S THEN 1 ELSE 0
    OBVIOUS
  <2> HIDE DEF one
  <2>2. SumOver(S, one) = Cardinality(S \cap S)
    BY <2>1, SumCount
  <2> QED
    BY <2>2, FS_CardinalityType
<1>2. \A x \in S : one[x] = 1 /\ two[x] = 1 + 1 /\ three[x] = 2 + 1 /\ two[x] = 2 /\ three[x] = 3
  OBVIOUS
<1>3. Total(two) = SumOver(S, two) /\ Total(three) = SumOver(S, three)
  BY DEF Total
<1> HIDE DEF one, two, three
<1>4. SumOver(S, two) = SumOver(S, one) + SumOver(S, one)
  BY <1>2, SumPlus
<1>5. SumOver(S, three) = SumOver(S, two) + SumOver(S, one)
  BY <1>2, SumPlus
<1>6. CASE n = 2
  BY <1>1, <1>3, <1>4, <1>6 DEF two
<1>7. CASE n = 3
  BY <1>1, <1>3, <1>4, <1>5, <1>7 DEF three
<1> QED
  BY <1>6, <1>7

\* When of n participants all that back a key but two different ones, if at all,
\* and each of the two is missing from more than half of the keys, then the keys
\* are backed by less than 7 in 10.
LEMMA TwoDeviate ==
  ASSUME NEW n \in {2, 3}, NEW keys, IsFiniteSet(keys), NEW backers \in [keys -> SUBSET (1 .. n)],
         NEW i \in 1 .. n, NEW j \in 1 .. n, i # j,
         2 * Cardinality({k \in keys : i \notin backers[k]}) > Cardinality(keys),
         2 * Cardinality({k \in keys : j \notin backers[k]}) > Cardinality(keys)
  PROVE  /\ Total([k \in keys |-> Cardinality(backers[k])]) \in Nat
         /\ 10 * Total([k \in keys |-> Cardinality(backers[k])]) < 7 * (n * Cardinality(keys))
<1> DEFINE without(p) == {k \in keys : p \notin backers[k]}
           top == [k \in keys |-> Cardinality(backers[k])]
           lacks(p) == [k \in keys |-> IF k \in without(p) THEN 1 ELSE 0]
           sofar == [k \in keys |-> top[k] + lacks(i)[k]]
           both == [k \in keys |-> sofar[k] + lacks(j)[k]]
           all == [k \in keys |-> n]
<1>1. \A p : SumOver(keys, lacks(p)) = Cardinality(without(p)) /\ Cardinality(without(p)) \in Nat
  <2> TAKE p
  <2> DEFINE l == lacks(p)
             w == without(p)
  <2>1. \A k \in keys : l[k] = IF k \in w THEN 1 ELSE 0
    OBVIOUS
  <2>2. w \subseteq keys
    OBVIOUS
  <2> HIDE DEF l, w
  <2>3. SumOver(keys, l) = Cardinality(keys \cap w) /\ keys \cap w = w
    BY <2>1, <2>2, SumCount
  <2>4. Cardinality(w) \in Nat
    BY <2>2, FS_Subset, FS_CardinalityType
  <2> QED
    BY <2>3, <2>4 DEF l, w
<1>2. \A k \in keys : /\ top[k] = Cardinality(backers[k]) /\ top[k] \in Nat
                      /\ lacks(i)[k] \in Nat /\ lacks(j)[k] \in Nat
                      /\ sofar[k] = top[k] + lacks(i)[k] /\ sofar[k] \in Int
                      /\ both[k] = sofar[k] + lacks(j)[k] /\ all[k] = n
  <2>1. \A k \in keys : Cardinality(backers[k]) \in Nat
    BY Participants
  <2> QED
    BY <2>1
<1>3. \A k \in keys : both[k] <= n
  <2> TAKE k \in keys
  <2> DEFINE B == backers[k]
  <2>1. B \subseteq 1 .. n
    OBVIOUS
  <2>2. both[k] = Cardinality(B) + (IF i \in B THEN 0 ELSE 1) + (IF j \in B THEN 0 ELSE 1)
    BY <1>2
  <2> HIDE DEF B, both
  <2>3. IsFiniteSet(B) /\ Cardinality(B) \in Nat
    BY <2>1, Participants
  <2> DEFINE C == B \cup {i}
             E == C \cup {j}
  <2>4. IsFiniteSet(C) /\ Cardinality(C) = Cardinality(B) + (IF i \in B THEN 0 ELSE 1)
    <3>1. CASE i \in B
      <4>1. C = B
        BY <3>1
      <4> HIDE DEF C
      <4>2. IsFiniteSet(C) /\ Cardinality(C) = Cardinality(B)
        BY <2>3, <4>1
      <4> QED
        BY <2>3, <3>1, <4>2
    <3>2. CASE i \notin B
      BY <2>3, <3>2, FS_AddElement
    <3> QED
      BY <3>1, <3>2
  <2>5. j \in C <=> j \in B
    OBVIOUS
  <2> HIDE DEF C
  <2>6. Cardinality(E) = Cardinality(C) + (IF j \in B THEN 0 ELSE 1)
    <3>1. CASE j \in B
      <4>1. E = C
        BY <2>5, <3>1
      <4>2. Cardinality(C) \in Nat
        BY <2>4, FS_CardinalityType
      <4> HIDE DEF E
      <4>3. Cardinality(E) = Cardinality(C)
        BY <4>1
      <4> QED
        BY <3>1, <4>2, <4>3
    <3>2. CASE j \notin B
      BY <2>4, <2>5, <3>2, FS_AddElement
    <3> QED
      BY <3>1, <3>2
  <2>7. E \in SUBSET (1 .. n)
    BY <2>1 DEF C
  <2>8. Cardinality(E) <= n
    BY <2>7, Participants
  <2> HIDE DEF E
  <2> QED
    BY <2>2, <2>3, <2>4, <2>6, <2>8
<1>4. /\ Total(top) = SumOver(keys, top)
      /\ Total(all) = SumOver(keys, all)
  BY DEF Total
<1>5. SumOver(keys, all) = n * Cardinality(keys)
  BY <1>4, SumOfSame
<1>6. /\ 2 * Cardinality(without(i)) > Cardinality(keys)
      /\ 2 * Cardinality(without(j)) > Cardinality(keys)
  OBVIOUS
<1> DEFINE li == lacks(i)
           lj == lacks(j)
           wi == without(i)
           wj == without(j)
<1>7. /\ \A k \in keys : /\ top[k] \in Nat /\ li[k] \in Nat /\ lj[k] \in Nat
                         /\ sofar[k] = top[k] + li[k] /\ sofar[k] \in Int
                         /\ both[k] = sofar[k] + lj[k] /\ all[k] = n /\ both[k] \in Int
      /\ SumOver(keys, li) = Cardinality(wi) /\ Cardinality(wi) \in Nat
      /\ SumOver(keys, lj) = Cardinality(wj) /\ Cardinality(wj) \in Nat
      /\ 2 * Cardinality(wi) > Cardinality(keys) /\ 2 * Cardinality(wj) > Cardinality(keys)
  <2>1. \A k \in keys : both[k] \in Int
    <3> HIDE DEF sofar, top
    <3> QED
      BY <1>2
  <2> QED
    BY <1>1, <1>2, <1>6, <2>1
<1>8. Cardinality(keys) \in Nat
  BY FS_CardinalityType
<1> HIDE DEF li, lj, wi, wj, top, sofar, both, all
<1>9. SumOver(keys, sofar) = SumOver(keys, top) + SumOver(keys, li)
  BY <1>7, SumPlus
<1>10. SumOver(keys, both) = SumOver(keys, sofar) + SumOver(keys, lj)
  BY <1>7, SumPlus
<1>11. SumOver(keys, both) <= SumOver(keys, all)
  BY <1>3, <1>7, SumLess
<1>12. SumOver(keys, top) \in Nat
  BY <1>7, SumNat
<1>13. Total(top) \in Nat /\ 10 * Total(top) < 7 * (n * Cardinality(keys))
  BY <1>4, <1>5, <1>7, <1>8, <1>9, <1>10, <1>11, <1>12
<1> QED
  BY <1>13 DEF top

\* JSON answers that are not flagged have at most one outlier.
LEMMA JsonScore ==
  ASSUME NEW a, Len(a) \in {2, 3},
         \A i \in 1 .. Len(a) : a[i] = Malformed \/ IsFiniteSet(DOMAIN a[i]),
         ~ScoreJson(a).low
  PROVE  /\ ScoreJson(a).outliers \in SUBSET (1 .. Len(a))
         /\ \A i, j \in ScoreJson(a).outliers : i = j
<1> DEFINE parsed == {i \in 1 .. Len(a) : a[i] # Malformed}
           keys == UNION {DOMAIN a[i] : i \in parsed}
           with(k) == {i \in parsed : k \in DOMAIN a[i]}
           backers(k, i) == {j \in with(k) : a[j][k] = a[i][k]}
           top(k) == Max({Cardinality(backers(k, i)) : i \in with(k)})
           first(k) == Min({i \in with(k) : Cardinality(backers(k, i)) = top(k)})
           deviations(i) == {k \in keys : i \notin backers(k, first(k))}
           bad == 1 .. Len(a) \ parsed
           apart == bad \cup {i \in parsed : 2 * Cardinality(deviations(i)) > Cardinality(keys)}
           none == Scored(NaN, 1 .. Len(a), 0, 1)
           empty == Scored(<<>>, bad, Cardinality(parsed), Len(a))
           object == Scored([k \in keys |-> a[first(k)][k]], apart,
                            Total([k \in keys |-> top(k)]), Len(a) * Cardinality(keys))
<1>2. ScoreJson(a) = CASE parsed = {} -> none
                       [] parsed # {} /\ keys = {} -> empty
                       [] OTHER -> object
  BY Zenon DEF ScoreJson
<1>3. ~none.low => FALSE
  BY ScoredIs
<1>4. ~empty.low => empty.outliers = {}
  <2>1. empty.outliers = bad /\ (~empty.low => ~(10 * Cardinality(parsed) < 7 * Len(a)))
    BY ScoredIs
  <2>2. parsed \in SUBSET (1 .. Len(a))
    OBVIOUS
  <2> HIDE DEF empty, parsed
  <2>3. Cardinality(parsed) \in Nat
    BY <2>2, Participants
  <2>4. ~empty.low => parsed = 1 .. Len(a)
    <3> SUFFICES ASSUME ~empty.low PROVE parsed = 1 .. Len(a)
      OBVIOUS
    <3>1. 10 * Cardinality(parsed) >= 7 * Len(a)
      BY <2>1, <2>3
    <3> QED
      BY <2>2, <3>1, Participants
  <2> QED
    BY <2>1, <2>4
<1>5. ASSUME parsed # {}, keys # {}, ~object.low
      PROVE  object.outliers = apart /\ \A i, j \in apart : i = j
  <2> DEFINE chosen == [k \in keys |-> backers(k, first(k))]
             lacking(i) == {k \in keys : i \notin chosen[k]}
             total == Total([k \in keys |-> top(k)])
             counted == Total([k \in keys |-> Cardinality(chosen[k])])
  <2>1. object.outliers = apart /\ ~(10 * total < 7 * (Len(a) * Cardinality(keys)))
    <3> HIDE DEF keys, apart, total, first
    <3>1. /\ object.outliers = apart
          /\ ~object.low => ~(10 * total < 7 * (Len(a) * Cardinality(keys)))
      BY Zenon, ScoredIs DEF total
    <3> QED
      BY <1>5, <3>1
  <2>2. parsed \in SUBSET (1 .. Len(a)) /\ IsFiniteSet(parsed)
    <3>1. parsed \in SUBSET (1 .. Len(a))
      OBVIOUS
    <3> HIDE DEF parsed
    <3> QED
      BY <3>1, Participants
  <2>3. IsFiniteSet(keys)
    <3> DEFINE dom == [i \in parsed |-> DOMAIN a[i]]
               doms == {dom[i] : i \in parsed}
    <3>1. keys = UNION doms
      OBVIOUS
    <3>2. \A d \in doms : IsFiniteSet(d)
      OBVIOUS
    <3>3. IsFiniteSet(doms)
      <4> HIDE DEF dom, parsed
      <4> QED
        BY <2>2, FiniteImage
    <3> HIDE DEF doms, keys
    <3> QED
      BY <3>1, <3>2, <3>3, FS_UNION
  <2>4. \A k, i : backers(k, i) \in SUBSET (1 .. Len(a))
    BY <2>2
  <2>5. ASSUME NEW k \in keys PROVE Cardinality(backers(k, first(k))) = top(k)
    <3> DEFINE holders == with(k)
               size(i) == Cardinality(backers(k, i))
               sizes == {size(i) : i \in holders}
               greatest == Max(sizes)
               leaders == {i \in holders : size(i) = greatest}
    <3>1. holders # {} /\ holders \in SUBSET (1 .. Len(a)) /\ IsFiniteSet(holders)
      <4>1. holders # {} /\ holders \in SUBSET (1 .. Len(a))
        BY <2>2
      <4> HIDE DEF holders
      <4> QED
        BY <4>1, Participants
    <3>2. \A i : size(i) \in Nat
      <4> HIDE DEF backers
      <4> QED
        BY <2>4, Participants
    <3>3. top(k) = greatest /\ first(k) = Min(leaders)
      OBVIOUS
    <3> HIDE DEF backers, holders
    <3>4. greatest \in sizes
      <4>1. IsFiniteSet(sizes)
        <5> DEFINE f == [i \in holders |-> size(i)]
        <5>1. sizes = {f[i] : i \in holders}
          OBVIOUS
        <5> HIDE DEF f, sizes
        <5>2. IsFiniteSet({f[i] : i \in holders})
          BY <3>1, FiniteImage
        <5> QED
          BY <5>1, <5>2
      <4>2. sizes # {}
        BY <3>1
      <4>3. ASSUME NEW s \in sizes PROVE s \in Int
        <5>1. PICK i \in holders : s = size(i)
          OBVIOUS
        <5>2. size(i) \in Nat
          BY <3>2
        <5> HIDE DEF size
        <5> QED
          BY <5>1, <5>2
      <4> HIDE DEF sizes
      <4> QED
        BY <4>1, <4>2, <4>3, HasMax
    <3>5. Min(leaders) \in leaders
      <4>1. PICK i \in holders : size(i) = greatest
        BY <3>4
      <4> HIDE DEF greatest, size
      <4>2. leaders # {} /\ leaders \subseteq Int
        BY <3>1, <4>1
      <4>3. IsFiniteSet(leaders)
        BY <3>1, FS_Subset
      <4> HIDE DEF leaders
      <4> QED
        BY <4>2, <4>3, HasMin
    <3>6. size(Min(leaders)) = greatest
      BY <3>5
    <3> HIDE DEF top, first, leaders, greatest
    <3> QED
      BY <3>3, <3>6
  <2>6. chosen \in [keys -> SUBSET (1 .. Len(a))]
    <3> HIDE DEF backers, keys, first
    <3> QED
      BY <2>4
  <2>7. total = counted
    <3> DEFINE f == [k \in keys |-> top(k)]
               g == [k \in keys |-> Cardinality(chosen[k])]
    <3>1. \A k \in keys : f[k] = g[k]
      <4> HIDE DEF keys, top, backers, first
      <4> QED
        BY <2>5
    <3>2. f = g
      <4> HIDE DEF keys, top, chosen
      <4> QED
        BY <3>1
    <3> HIDE DEF f, g
    <3> QED
      BY <3>2 DEF f, g
  <2>8. \A i \in apart : i \in 1 .. Len(a) /\ 2 * Cardinality(lacking(i)) > Cardinality(keys)
    <3> TAKE i \in apart
    <3>1. deviations(i) = lacking(i)
      <4> HIDE DEF keys, backers, first
      <4> QED
        OBVIOUS
    <3>2. CASE i \in bad
      <4>1. \A k \in keys : i \notin chosen[k]
        <5>1. \A k : i \notin backers(k, first(k))
          BY <3>2
        <5> HIDE DEF keys, backers, first
        <5> QED
          BY <5>1
      <4>2. lacking(i) = keys
        <5> HIDE DEF keys, chosen
        <5> QED
          BY <4>1
      <4>3. i \in 1 .. Len(a)
        BY <3>2
      <4> DEFINE l == lacking(i)
      <4>4. l = keys
        BY <4>2
      <4> HIDE DEF keys, l
      <4>5. Cardinality(keys) \in Nat /\ Cardinality(keys) # 0
        BY <1>5, <2>3, FS_CardinalityType, FS_EmptySet
      <4>6. 2 * Cardinality(l) > Cardinality(keys)
        BY <4>4, <4>5
      <4> QED
        BY <4>3, <4>6 DEF l
    <3>3. CASE i \notin bad
      <4> HIDE DEF deviations, lacking, keys, parsed
      <4> QED
        BY <2>2, <3>1, <3>3
    <3> QED
      BY <3>2, <3>3
  <2> HIDE DEF chosen, keys, apart, total
  <2>9. ASSUME NEW i \in apart, NEW j \in apart, i # j PROVE FALSE
    <3>1. i \in 1 .. Len(a) /\ j \in 1 .. Len(a)
      BY <2>8
    <3>2. /\ 2 * Cardinality({k \in keys : i \notin chosen[k]}) > Cardinality(keys)
          /\ 2 * Cardinality({k \in keys : j \notin chosen[k]}) > Cardinality(keys)
      BY <2>8
    <3>3. counted \in Nat /\ 10 * counted < 7 * (Len(a) * Cardinality(keys))
      BY <2>3, <2>6, <2>9, <3>1, <3>2, TwoDeviate, Zenon
    <3> HIDE DEF counted
    <3> QED
      BY <2>1, <2>7, <3>3
  <2> QED
    BY <2>1, <2>9
<1>6. apart \in SUBSET (1 .. Len(a))
  OBVIOUS
<1> HIDE DEF parsed, keys, none, empty, object, apart
<1>7. \/ ScoreJson(a) = none
      \/ ScoreJson(a) = empty
      \/ parsed # {} /\ keys # {} /\ ScoreJson(a) = object
  BY <1>2
<1> QED
  BY <1>3, <1>4, <1>5, <1>6, <1>7

-----------------------------------------------------------------------------
(* What a score comes to                                                   *)

\* A verdict that is not flagged counts at most one outlier, and only of JSON.
Confident(v) ==
  ~v.low => v.outliers <= 1 /\ (v.type # "json" => v.outliers = 0)

LEMMA VerdictIsConfident ==
  ASSUME NEW type \in DOMAIN Answers, NEW n \in {2, 3}, NEW v \in Verdicts[type][n]
  PROVE  Confident(v)
<1> SUFFICES ASSUME ~v.low
             PROVE  v.outliers <= 1 /\ (v.type # "json" => v.outliers = 0)
  BY DEF Confident
<1>1. PICK a \in Answers[type][n] : v = Verdict(type, a, n)
  BY DEF Verdicts
<1> DEFINE score == Scores(type, a)
<1>2. v = [type |-> type, low |-> score.low, outliers |-> Cardinality(score.outliers), of |-> n]
  BY <1>1, Zenon DEF Verdict
<1> HIDE DEF score
<1>3. v.type = type /\ v.outliers = Cardinality(score.outliers) /\ ~score.low
  BY <1>2
<1>4. Cardinality({}) = 0
  BY FS_EmptySet
<1>5. CASE type = "categorical"
  <2>1. score = ScoreCategorical(a) /\ a \in [1 .. n -> Int]
    BY <1>5, AnswersAssumption DEF score, Scores
  <2>2. ~ScoreCategorical(a).low
    BY <1>3, <2>1
  <2>3. ScoreCategorical(a).outliers = {}
    BY <2>1, <2>2, CategoricalScore, Zenon
  <2>4. v.outliers = 0
    BY <1>3, <1>4, <2>1, <2>3
  <2> QED
    BY <2>4
<1>6. CASE type = "numeric"
  <2>1. score = ScoreNumeric(a) /\ a \in [1 .. n -> Int \cup {NaN}]
    BY <1>6, AnswersAssumption DEF score, Scores
  <2>2. ~ScoreNumeric(a).low
    BY <1>3, <2>1
  <2>3. ScoreNumeric(a).outliers = {}
    BY <2>1, <2>2, NumericScore, Zenon
  <2>4. v.outliers = 0
    BY <1>3, <1>4, <2>1, <2>3
  <2> QED
    BY <2>4
<1>7. CASE type = "freeform"
  <2>1. score = ScoreFreeform(a.sim, n) /\ (a.sim = Blank \/ a.sim \in [Pairs(n) -> Int])
    BY <1>7, AnswersAssumption DEF score, Scores
  <2>2. ~ScoreFreeform(a.sim, n).low
    BY <1>3, <2>1
  <2>3. ScoreFreeform(a.sim, n).outliers = {}
    BY <2>1, <2>2, FreeformScore, Zenon
  <2>4. v.outliers = 0
    BY <1>3, <1>4, <2>1, <2>3
  <2> QED
    BY <2>4
<1>8. CASE type = "json"
  <2>1. /\ score = ScoreJson(a) /\ a = [i \in 1 .. n |-> a[i]]
        /\ \A i \in 1 .. n : a[i] = Malformed \/ IsFiniteSet(DOMAIN a[i])
    BY <1>8, AnswersAssumption DEF score, Scores
  <2>2. Len(a) = n
    BY <2>1, AnswersAre
  <2>3. score.outliers \in SUBSET (1 .. n) /\ \A i, j \in score.outliers : i = j
    <3>1. \A i \in 1 .. Len(a) : a[i] = Malformed \/ IsFiniteSet(DOMAIN a[i])
      BY <2>1, <2>2
    <3>2. Len(a) \in {2, 3}
      BY <2>2
    <3>3. ~ScoreJson(a).low
      BY <1>3, <2>1
    <3>4. ScoreJson(a).outliers \in SUBSET (1 .. Len(a))
      BY <3>1, <3>2, <3>3, JsonScore
    <3>5. \A i, j \in ScoreJson(a).outliers : i = j
      BY <3>1, <3>2, <3>3, JsonScore
    <3> QED
      BY <2>1, <2>2, <3>4, <3>5
  <2>4. Cardinality(score.outliers) <= 1
    <3>1. CASE score.outliers = {}
      BY <1>4, <3>1
    <3>2. CASE score.outliers # {}
      <4>1. PICK i : score.outliers = {i}
        BY <2>3, <3>2
      <4> QED
        BY <4>1, FS_Singleton
    <3> QED
      BY <3>1, <3>2
  <2> QED
    BY <1>3, <1>8, <2>4
<1>9. type \in {"categorical", "freeform", "numeric", "json"}
  BY AnswersAssumption
<1> QED
  BY <1>5, <1>6, <1>7, <1>8, <1>9

\* A request has no score, or that of its consensus.
ScoreInv == \A r \in Requests : Confident(req[r].score)

\* A step that keeps the score of every request, or of all but one.
LEMMA ScoreKept ==
  ASSUME ScoreInv, \A r \in Requests : Confident(req'[r].score) \/ req'[r].score = req[r].score
  PROVE  ScoreInv'
BY DEF ScoreInv, Confident

LEMMA NoScore == Confident(Unscored)
  BY DEF Confident, Unscored

\* Where the score of a request is left alone.
LEMMA ScoreAlone ==
  ASSUME RouterInv, ScoreInv, NEW r \in Requests, NEW phase, NEW reply,
         \/ req' = [req EXCEPT ![r].phase = phase]
         \/ req' = [req EXCEPT ![r].phase = phase, ![r].reply = reply]
  PROVE  ScoreInv'
<1>1. DOMAIN req = Requests /\ req = [q \in Requests |-> req[q]] /\ IsRequest(req[r])
  BY DEF RouterInv, RouteInv
<1>2. \A q \in Requests : req'[q].score = req[q].score
  BY <1>1 DEF IsRequest
<1> QED
  BY <1>2, ScoreKept

LEMMA SuccessScored ==
  ASSUME RouterInv, ScoreInv, NEW r \in Requests, NEW score, Confident(score),
         Succeed(r, score)
  PROVE  ScoreInv'
<1>1. DOMAIN req = Requests /\ req = [q \in Requests |-> req[q]] /\ IsRequest(req[r])
  BY DEF RouterInv, RouteInv
<1>2. req' = [req EXCEPT ![r].phase = "over", ![r].reply = "ok", ![r].score = score]
  BY DEF Succeed
<1>3. req'[r].score = score
  BY <1>1, <1>2 DEF IsRequest
<1>4. \A q \in Requests \ {r} : req'[q] = req[q]
  BY <1>1, <1>2
<1> QED
  BY <1>3, <1>4, ScoreKept

\* A consensus has as many settled answers as its two or three calls yield.
LEMMA ConsensusScored ==
  ASSUME RouterInv, SpendInv, ScoreInv, NEW r \in Requests, ConsensusAnswers(r)
  PROVE  ScoreInv'
<1> DEFINE settled == Of(r, {"settled"})
           n == Cardinality(settled)
<1>1. /\ req[r].mode = "consensus" /\ req[r].phase = "calling"
      /\ ConsensusRefused(r) = "none"
      /\ \E v \in Verdicts[req[r].intent.type][n] : Succeed(r, v)
  BY DEF ConsensusAnswers, Ended
<1>2. CallsInv(r) /\ Decided(r)
  BY <1>1 DEF SpendInv, SpendInvOf
<1>3. Len(calls[r]) \in Nat /\ Len(calls[r]) <= 3 /\ settled \subseteq 1 .. Len(calls[r])
  <2>1. calls[r] \in Seq(CallRec) /\ Len(calls[r]) <= 3
    BY <1>1, <1>2 DEF CallsInv, Share
  <2> QED
    BY <2>1 DEF Of
<1> HIDE DEF settled
<1>4. n \in Nat /\ n <= 3
  <2>1. IsFiniteSet(1 .. 3) /\ Cardinality(1 .. 3) = 3
    BY Participants
  <2>2. settled \subseteq 1 .. 3
    BY <1>3
  <2>3. IsFiniteSet(settled) /\ Cardinality(settled) <= 3
    BY <2>1, <2>2, FS_Subset
  <2> QED
    BY <2>3, FS_CardinalityType
<1>5. ~(n < 2)
  BY <1>1 DEF ConsensusRefused, settled
<1>6. n \in {2, 3}
  BY <1>4, <1>5
<1>7. req[r].intent.type \in DOMAIN Answers
  BY <1>2, AnswersAssumption DEF Decided
<1> HIDE DEF n
<1>8. PICK v \in Verdicts[req[r].intent.type][n] : Succeed(r, v)
  BY <1>1
<1>9. Confident(v)
  BY <1>6, <1>7, VerdictIsConfident
<1> QED
  BY <1>8, <1>9, SuccessScored

LEMMA InitScored == Init => ScoreInv
<1> SUFFICES ASSUME Init PROVE ScoreInv
  OBVIOUS
<1>1. \A r \in Requests : req[r] = Idle
  BY DEF Init
<1>2. Idle.score = Unscored
  BY DEF Idle
<1> QED
  BY <1>1, <1>2, NoScore DEF ScoreInv

LEMMA NextScored == RouterInv /\ SpendInv /\ ScoreInv /\ [Next]_vars => ScoreInv'
<1> SUFFICES ASSUME RouterInv, SpendInv, ScoreInv, [Next]_vars PROVE ScoreInv'
  OBVIOUS
<1>1. CASE UNCHANGED req
  BY <1>1, ScoreKept
<1>2. ASSUME NEW r \in Requests, NEW reply, Reply(r, reply) PROVE ScoreInv'
  BY <1>2, ScoreAlone DEF Reply
<1>3. ASSUME NEW r \in Requests, Ask(r) PROVE ScoreInv'
  <2>1. PICK i \in Intents, c \in ClassifierOutcomes :
           req' = [req EXCEPT ![r] = Admitted(i, DecideMode(i, c))]
    BY <1>3 DEF Ask
  <2> DEFINE mode == DecideMode(i, c)
  <2> HIDE DEF mode
  <2>2. Admitted(i, mode).score = Unscored
    BY DEF Admitted, Idle
  <2>3. \A q \in Requests : req'[q].score = Unscored \/ req'[q] = req[q]
    BY <2>1, <2>2 DEF RouterInv, mode
  <2> QED
    BY <2>3, NoScore, ScoreKept
<1>4. ASSUME NEW r \in Requests, Select(r) PROVE ScoreInv'
  <2>1. req' = [req EXCEPT ![r].phase = "calling"] \/ Reply(r, "no_provider")
    BY <1>4, Zenon DEF Select
  <2> QED
    BY <1>2, <2>1, ScoreAlone
<1>5. ASSUME NEW r \in Requests, Conclude(r) PROVE ScoreInv'
  <2>1. CASE \E reply : Reply(r, reply)
    BY <1>2, <2>1
  <2>2. CASE Succeed(r, Unscored)
    BY <2>2, NoScore, SuccessScored
  <2>3. CASE ResearchAnswers(r)
    BY <2>3, ScoreAlone DEF ResearchAnswers
  <2>4. CASE ConsensusAnswers(r)
    BY <2>4, ConsensusScored
  <2>5. SingleFails(r) \/ ConsensusFails(r) => \E reply : Reply(r, reply)
    BY Zenon DEF SingleFails, ConsensusFails
  <2> QED
    BY <1>5, <2>1, <2>2, <2>3, <2>4, <2>5
       DEF Conclude, FastAnswers, VerifiedAnswers, DecisionAnswers
<1>6. ASSUME NEW r \in Requests, NEW k \in 1 .. 3, Call(r, k) PROVE ScoreInv'
  <2>1. UNCHANGED req \/ Reply(r, "threw")
    BY <1>6 DEF Call, ZgInfer, X402Infer, SettleOk, SettleFails, Answer, NoAnswer, Unsettleable
  <2> QED
    BY <1>1, <1>2, <2>1
<1>7. Narrow \/ Tick \/ UNCHANGED vars => UNCHANGED req
  BY DEF Narrow, Tick, vars, routeVars
<1> QED
  BY <1>1, <1>3, <1>4, <1>5, <1>6, <1>7 DEF Next

\* A consensus that is not flagged low_confidence has no outlier, or one if its
\* answers are JSON, whatever two or three providers answer.
THEOREM RouterConfidentMeansAgreement == Spec => []ConfidentMeansAgreement
<1>1. ScoreInv => ConfidentMeansAgreement
  BY DEF ScoreInv, Confident, ConfidentMeansAgreement
<1> QED
  BY <1>1, InitRouterInv, NextKeepsRouterInv, InitSpending, NextSpending,
     InitScored, NextScored, PTL DEF Spec

-----------------------------------------------------------------------------
(* The audit writer                                                        *)

Sorted(s) == s \in Seq(Nat) /\ \A i, j \in 1 .. Len(s) : i < j => s[i] < s[j]

Below(low, high) == \A a \in low, b \in high : a < b

Acked == ToSet(acked)
Uploading == ToSet(snapshot)
Waiting == ToSet(queue)

\* The three pieces of the line are in order, and each is behind the one before.
LineInv ==
  /\ Sorted(acked) /\ Sorted(snapshot) /\ Sorted(queue)
  /\ Below(Acked, Uploading) /\ Below(Acked, Waiting) /\ Below(Uploading, Waiting)

\* Every event is on the line, was dropped or was refused, and was one of these.
PlaceInv ==
  /\ (Acked \cup Uploading \cup Waiting) \cap (dropped \cup refused) = {}
  /\ dropped \cap refused = {}
  /\ Acked \cup Uploading \cup Waiting \cup dropped \cup refused = 1 .. enqueued

WriterInv ==
  /\ LineInv
  /\ PlaceInv
  /\ enqueued \in Nat
  /\ ~flushing => snapshot = <<>>
  /\ Acked \subseteq stored

-----------------------------------------------------------------------------
(* Sorted sequences                                                        *)

LEMMA ToSetOfNone == ToSet(<<>>) = {} /\ Sorted(<<>>)
BY DEF ToSet, Sorted

LEMMA ToSetOfConcat ==
  ASSUME NEW s \in Seq(Nat), NEW t \in Seq(Nat)
  PROVE ToSet(s \o t) = ToSet(s) \cup ToSet(t)
<1>1. DOMAIN (s \o t) = 1 .. Len(s) + Len(t) /\ DOMAIN s = 1 .. Len(s) /\ DOMAIN t = 1 .. Len(t)
  OBVIOUS
<1>2. \A i \in 1 .. Len(s) + Len(t) :
        (s \o t)[i] = IF i <= Len(s) THEN s[i] ELSE t[i - Len(s)]
  OBVIOUS
<1>3. ASSUME NEW e \in ToSet(s \o t) PROVE e \in ToSet(s) \cup ToSet(t)
  <2>1. PICK i \in 1 .. Len(s) + Len(t) : e = (s \o t)[i]
    BY <1>1 DEF ToSet
  <2>2. CASE i <= Len(s)
    BY <1>1, <1>2, <2>1, <2>2 DEF ToSet
  <2>3. CASE i > Len(s)
    <3>1. i - Len(s) \in 1 .. Len(t) /\ e = t[i - Len(s)]
      BY <1>2, <2>1, <2>3
    <3> QED
      BY <1>1, <3>1 DEF ToSet
  <2> QED
    BY <2>2, <2>3
<1>4. ASSUME NEW e \in ToSet(s) PROVE e \in ToSet(s \o t)
  <2>1. PICK i \in 1 .. Len(s) : e = s[i]
    BY <1>1 DEF ToSet
  <2>2. i \in 1 .. Len(s) + Len(t) /\ (s \o t)[i] = e
    BY <1>2, <2>1
  <2> QED
    BY <1>1, <2>2 DEF ToSet
<1>5. ASSUME NEW e \in ToSet(t) PROVE e \in ToSet(s \o t)
  <2>1. PICK i \in 1 .. Len(t) : e = t[i]
    BY <1>1 DEF ToSet
  <2>2. i + Len(s) \in 1 .. Len(s) + Len(t) /\ (s \o t)[i + Len(s)] = e
    BY <1>2, <2>1
  <2> QED
    BY <1>1, <2>2 DEF ToSet
<1> QED
  BY <1>3, <1>4, <1>5

LEMMA ToSetIndex ==
  ASSUME NEW s \in Seq(Nat)
  PROVE /\ \A i \in 1 .. Len(s) : s[i] \in ToSet(s)
        /\ \A v \in ToSet(s) : v \in Nat /\ \E i \in 1 .. Len(s) : v = s[i]
BY DEF ToSet

\* A sequence behind another.
LEMMA ConcatSorted ==
  ASSUME NEW s, NEW t, Sorted(s), Sorted(t), Below(ToSet(s), ToSet(t))
  PROVE Sorted(s \o t) /\ ToSet(s \o t) = ToSet(s) \cup ToSet(t)
<1>1. s \in Seq(Nat) /\ t \in Seq(Nat)
  BY DEF Sorted
<1>2. ToSet(s \o t) = ToSet(s) \cup ToSet(t)
  BY <1>1, ToSetOfConcat
<1>3. /\ Len(s \o t) = Len(s) + Len(t) /\ s \o t \in Seq(Nat)
      /\ Len(s) \in Nat /\ Len(t) \in Nat
      /\ \A i \in 1 .. Len(s) + Len(t) :
           (s \o t)[i] = (IF i <= Len(s) THEN s[i] ELSE t[i - Len(s)])
  BY <1>1
<1>4. ASSUME NEW i \in 1 .. Len(s) + Len(t), NEW j \in 1 .. Len(s) + Len(t), i < j
      PROVE (s \o t)[i] < (s \o t)[j]
  <2>1. CASE j <= Len(s)
    BY <1>3, <1>4, <2>1 DEF Sorted
  <2>2. CASE i > Len(s)
    <3>1. i - Len(s) \in 1 .. Len(t) /\ j - Len(s) \in 1 .. Len(t) /\ i - Len(s) < j - Len(s)
      BY <1>3, <1>4, <2>2
    <3>2. t[i - Len(s)] < t[j - Len(s)]
      BY <3>1 DEF Sorted
    <3> QED
      BY <1>3, <1>4, <2>2, <3>2
  <2>3. CASE i <= Len(s) /\ j > Len(s)
    <3>1. i \in 1 .. Len(s) /\ j - Len(s) \in 1 .. Len(t)
      BY <1>3, <2>3
    <3>2. s[i] \in ToSet(s) /\ t[j - Len(s)] \in ToSet(t)
      BY <1>1, <3>1, ToSetIndex
    <3>3. s[i] < t[j - Len(s)]
      BY <3>2 DEF Below
    <3> QED
      BY <1>3, <2>3, <3>3
  <2>4. i \in Int /\ j \in Int /\ Len(s) \in Int
    BY <1>3
  <2> QED
    BY <2>1, <2>2, <2>3, <2>4
<1> QED
  BY <1>2, <1>3, <1>4 DEF Sorted

\* A push of what is above everything there.
LEMMA PushSorted ==
  ASSUME NEW q, Sorted(q), NEW e \in Nat, Below(ToSet(q), {e})
  PROVE Sorted(Append(q, e)) /\ ToSet(Append(q, e)) = ToSet(q) \cup {e}
<1>1. Append(q, e) = q \o <<e>> /\ <<e>> \in Seq(Nat)
  BY DEF Sorted
<1>2. Sorted(<<e>>) /\ ToSet(<<e>>) = {e}
  BY DEF Sorted, ToSet
<1> DEFINE last == <<e>>
<1>3. Sorted(last) /\ Below(ToSet(q), ToSet(last)) /\ ToSet(last) = {e}
  BY <1>2
<1> HIDE DEF last
<1>4. Sorted(q \o last) /\ ToSet(q \o last) = ToSet(q) \cup ToSet(last)
  BY <1>3, ConcatSorted
<1> QED
  BY <1>1, <1>3, <1>4 DEF last

\* A sequence without its x first.
LEMMA TrimSorted ==
  ASSUME NEW p, Sorted(p), NEW x \in 0 .. Len(p)
  PROVE LET t == SubSeq(p, x + 1, Len(p))
            d == {p[i] : i \in 1 .. x}
        IN  Sorted(t) /\ ToSet(t) \cup d = ToSet(p) /\ ToSet(t) \cap d = {}
<1> DEFINE t == SubSeq(p, x + 1, Len(p))
<1>1. p \in Seq(Nat) /\ Len(p) \in Nat
  BY DEF Sorted
<1>2. /\ t \in Seq(Nat) /\ Len(t) = Len(p) - x
      /\ \A i \in 1 .. Len(t) : t[i] = p[i + x]
  BY <1>1
<1> HIDE DEF t
<1>3. \A i \in 1 .. Len(t) : i + x \in 1 .. Len(p) /\ t[i] = p[i + x]
  BY <1>1, <1>2
<1>4. Sorted(t)
  <2>1. ASSUME NEW i \in 1 .. Len(t), NEW j \in 1 .. Len(t), i < j PROVE t[i] < t[j]
    <3>1. i + x < j + x /\ i + x \in 1 .. Len(p) /\ j + x \in 1 .. Len(p)
      BY <1>1, <1>2, <1>3, <2>1
    <3>2. p[i + x] < p[j + x]
      BY <3>1 DEF Sorted
    <3> QED
      BY <1>3, <3>2
  <2> QED
    BY <1>2, <2>1 DEF Sorted
<1>5. \A v : v \in ToSet(t) <=> \E i \in 1 .. Len(t) : v = t[i]
  BY <1>2, ToSetIndex
<1>6. \A v : v \in ToSet(p) <=> \E i \in 1 .. Len(p) : v = p[i]
  BY <1>1 DEF ToSet
<1>7. ASSUME NEW v \in ToSet(p) PROVE v \in ToSet(t) \/ \E i \in 1 .. x : v = p[i]
  <2>1. PICK i \in 1 .. Len(p) : v = p[i]
    BY <1>6
  <2>2. CASE i > x
    <3>1. i - x \in 1 .. Len(t) /\ (i - x) + x = i
      BY <1>1, <1>2, <2>2
    <3>2. t[i - x] = p[i]
      BY <1>3, <3>1
    <3> QED
      BY <1>5, <2>1, <3>1, <3>2
  <2> QED
    BY <2>1, <2>2
<1>8. \A i \in 1 .. x : i \in 1 .. Len(p) /\ p[i] \in ToSet(p)
  BY <1>1, <1>6
<1>9. ASSUME NEW i \in 1 .. Len(t), NEW j \in 1 .. x PROVE t[i] # p[j]
  <2>1. j < i + x /\ i + x \in 1 .. Len(p) /\ j \in 1 .. Len(p)
    BY <1>1, <1>2
  <2>2. p[j] < p[i + x] /\ p[j] \in Nat /\ p[i + x] \in Nat
    BY <1>1, <2>1 DEF Sorted
  <2> QED
    BY <1>3, <2>2
<1>10. ToSet(t) \subseteq ToSet(p)
  BY <1>3, <1>5, <1>6
<1>11. ToSet(t) \cup {p[i] : i \in 1 .. x} = ToSet(p)
  BY <1>7, <1>8, <1>10
<1>12. ToSet(t) \cap {p[i] : i \in 1 .. x} = {}
  BY <1>5, <1>9
<1> QED
  BY <1>4, <1>11, <1>12 DEF t

-----------------------------------------------------------------------------
(* The writer                                                              *)

LEMMA InitWriterInv == WriterInit => WriterInv
BY ToSetOfNone DEF WriterInit, WriterInv, LineInv, PlaceInv, Below, Acked, Uploading, Waiting

\* What a push trims is dropped; what it pushes is behind the rest of the line.
LEMMA EnqueueKeeps == ASSUME WriterInv, Enqueue PROVE WriterInv'
<1> DEFINE e == enqueued + 1
           p == Append(queue, e)
           x == Excess(p)
           d == {p[i] : i \in 1 .. x}
<1>1. e \in Nat /\ Below(Acked \cup Uploading \cup Waiting, {e}) /\ e \notin Acked \cup Uploading \cup Waiting \cup dropped \cup refused
  <2>1. \A v \in Acked \cup Uploading \cup Waiting \cup dropped \cup refused : v \in 1 .. enqueued
    BY DEF WriterInv, PlaceInv
  <2> QED
    BY <2>1 DEF WriterInv, Below
<1>2. Sorted(p) /\ ToSet(p) = Waiting \cup {e}
  BY <1>1, PushSorted DEF WriterInv, LineInv, Waiting, Below
<1>3. x \in 0 .. Len(p)
  BY <1>2, WriterAssumption DEF Excess, Sorted
<1>4. queue' = SubSeq(p, x + 1, Len(p)) /\ dropped' = dropped \cup d
  BY DEF Enqueue
<1>5. /\ enqueued' = e
      /\ UNCHANGED <<acked, snapshot, flushing, refused, stored>>
  BY DEF Enqueue
<1> HIDE DEF p, x
<1>6. Sorted(queue') /\ ToSet(queue') \cup d = Waiting \cup {e} /\ ToSet(queue') \cap d = {}
  BY <1>2, <1>3, <1>4, TrimSorted
<1> HIDE DEF d
<1>7. Acked' = Acked /\ Uploading' = Uploading /\ Waiting' \cup d = Waiting \cup {e} /\ Waiting' \cap d = {}
  BY <1>5, <1>6 DEF Acked, Uploading, Waiting
<1>8. LineInv'
  BY <1>1, <1>5, <1>6, <1>7 DEF WriterInv, LineInv, Below
<1>9. Acked \cap Waiting = {} /\ Uploading \cap Waiting = {}
  <2>1. \A v \in Acked \cup Uploading \cup Waiting : v \in Nat
    BY DEF WriterInv, PlaceInv
  <2> QED
    BY <2>1 DEF WriterInv, LineInv, Below
<1>10. 1 .. e = (1 .. enqueued) \cup {e}
  BY DEF WriterInv
<1> HIDE DEF e
<1>11. PlaceInv'
  BY <1>1, <1>4, <1>5, <1>7, <1>9, <1>10 DEF WriterInv, PlaceInv
<1> QED
  BY <1>1, <1>5, <1>7, <1>8, <1>11 DEF WriterInv

LEMMA EnqueueAfterCloseKeeps == ASSUME WriterInv, EnqueueAfterClose PROVE WriterInv'
<1>1. /\ enqueued' = enqueued + 1 /\ refused' = refused \cup {enqueued + 1}
      /\ UNCHANGED <<acked, snapshot, queue, flushing, dropped, stored>>
  BY DEF EnqueueAfterClose, holdVars
<1>2. Acked' = Acked /\ Uploading' = Uploading /\ Waiting' = Waiting
  BY <1>1 DEF Acked, Uploading, Waiting
<1>3. /\ enqueued \in Nat
      /\ 1 .. enqueued + 1 = (1 .. enqueued) \cup {enqueued + 1}
      /\ enqueued + 1 \notin 1 .. enqueued
  BY DEF WriterInv
<1>4. PlaceInv'
  BY <1>1, <1>2, <1>3 DEF WriterInv, PlaceInv
<1> QED
  BY <1>1, <1>2, <1>3, <1>4 DEF WriterInv, LineInv

\* The line moves up by one place: the queue is uploaded, ...
LEMMA BeginFlushKeeps ==
  ASSUME WriterInv, BeginFlush, UNCHANGED <<enqueued, pinVars>>
  PROVE WriterInv'
<1>1. snapshot = <<>> /\ snapshot' = queue /\ queue' = <<>> /\ flushing' = TRUE
  BY DEF WriterInv, BeginFlush
<1>2. UNCHANGED <<enqueued, refused, dropped, acked, stored>>
  BY DEF pinVars
<1>3. Acked' = Acked /\ Uploading = {} /\ Uploading' = Waiting /\ Waiting' = {} /\ Sorted(<<>>)
  BY <1>1, <1>2, ToSetOfNone DEF Acked, Uploading, Waiting
<1> QED
  BY <1>1, <1>2, <1>3 DEF WriterInv, LineInv, PlaceInv, Below

\* ... is acknowledged, ...
LEMMA UploadOkKeeps == ASSUME WriterInv, UploadOk PROVE WriterInv'
<1>1. /\ acked' = acked \o snapshot /\ snapshot' = <<>> /\ queue' = queue
      /\ stored' = stored \cup Uploading
      /\ UNCHANGED <<enqueued, refused, dropped>>
  BY DEF UploadOk, EndFlush, Uploading
<1>2. Sorted(acked') /\ Acked' = Acked \cup Uploading
  BY <1>1, ConcatSorted DEF WriterInv, LineInv, Acked, Uploading
<1>3. Uploading' = {} /\ Waiting' = Waiting /\ Sorted(<<>>)
  BY <1>1, ToSetOfNone DEF Uploading, Waiting
<1> QED
  BY <1>1, <1>2, <1>3 DEF WriterInv, LineInv, PlaceInv, Below

\* ... or goes back to the front of what waits.
LEMMA RestoreKeeps == ASSUME WriterInv, Restore, stored \subseteq stored' PROVE WriterInv'
<1>1. /\ queue' = snapshot \o queue /\ snapshot' = <<>> /\ acked' = acked
      /\ UNCHANGED <<enqueued, refused, dropped>>
  BY DEF Restore, EndFlush
<1>2. Sorted(queue') /\ Waiting' = Uploading \cup Waiting
  BY <1>1, ConcatSorted DEF WriterInv, LineInv, Uploading, Waiting
<1>3. Uploading' = {} /\ Acked' = Acked /\ Sorted(<<>>)
  BY <1>1, ToSetOfNone DEF Acked, Uploading
<1> QED
  BY <1>1, <1>2, <1>3 DEF WriterInv, LineInv, PlaceInv, Below

LEMMA CloseKeeps == ASSUME WriterInv, Close PROVE WriterInv'
<1>1. CASE BeginFlush
  BY <1>1, BeginFlushKeeps DEF Close
<1>2. CASE UNCHANGED <<queue, snapshot, flushing>>
  BY <1>2 DEF Close, pinVars, WriterInv, LineInv, PlaceInv, Acked, Uploading, Waiting
<1> QED
  BY <1>1, <1>2 DEF Close

LEMMA NextKeepsWriterInv == WriterInv /\ [WriterNext]_writerVars => WriterInv'
<1> SUFFICES ASSUME WriterInv, [WriterNext]_writerVars PROVE WriterInv'
  OBVIOUS
<1>1. CASE Enqueue \/ EnqueueAfterClose
  BY <1>1, EnqueueKeeps, EnqueueAfterCloseKeeps
<1>2. CASE TimerFlush \/ Flush
  BY <1>2, BeginFlushKeeps DEF TimerFlush, Flush
<1>3. CASE Upload
  BY <1>3, UploadOkKeeps, RestoreKeeps DEF Upload, UploadFails, UploadAnswerLost
<1>4. CASE Close
  BY <1>4, CloseKeeps
<1>5. CASE UNCHANGED writerVars
  BY <1>5 DEF writerVars, holdVars, pinVars, WriterInv, LineInv, PlaceInv, Acked, Uploading, Waiting
<1> QED
  BY <1>1, <1>2, <1>3, <1>4, <1>5 DEF WriterNext

\* No event is lost or reordered, however many there are, whatever the size of the
\* queue and however often the uploads fail (audit.ts:160-190).
THEOREM WriterNoEventLost == WriterSpec => []NoEventLost
<1>1. ASSUME WriterInv PROVE NoEventLost
  <2>1. Sorted(acked \o snapshot) /\ ToSet(acked \o snapshot) = Acked \cup Uploading
    BY <1>1, ConcatSorted DEF WriterInv, LineInv, Acked, Uploading
  <2>2. Below(ToSet(acked \o snapshot), Waiting)
    BY <1>1, <2>1 DEF WriterInv, LineInv, Below
  <2>3. /\ Sorted((acked \o snapshot) \o queue)
        /\ ToSet((acked \o snapshot) \o queue) = Acked \cup Uploading \cup Waiting
    BY <1>1, <2>1, <2>2, ConcatSorted DEF WriterInv, LineInv, Waiting
  <2> QED
    BY <1>1, <2>3 DEF WriterInv, PlaceInv, NoEventLost, Sorted, Acked
<1> QED
  BY <1>1, InitWriterInv, NextKeepsWriterInv, PTL DEF WriterSpec


-----------------------------------------------------------------------------
(* The types of the audit writer, and what close() leaves behind           *)

\* The events on the line, and the flags of the flush and of close().
LineTypes ==
  /\ queue \in Seq(Events) /\ snapshot \in Seq(Events) /\ acked \in Seq(Events)
  /\ enqueued \in 0 .. MaxEvents
  /\ refused \subseteq Events /\ dropped \subseteq Events /\ stored \subseteq Events

GateTypes ==
  /\ timer \in BOOLEAN /\ closed \in BOOLEAN /\ flushing \in BOOLEAN /\ outage \in BOOLEAN
  /\ closing \in {"no", "awaiting", "returned"}
  /\ flushing <=> snapshot # <<>>
  /\ closed => ~timer

WriterTypes == LineTypes /\ GateTypes

LEMMA InitWriterTypes == WriterInit => WriterTypes
<1>1. WriterInit => LineTypes
  BY WriterAssumption DEF WriterInit, LineTypes
<1>2. WriterInit => GateTypes
  BY Zenon DEF WriterInit, GateTypes
<1> QED
  BY <1>1, <1>2 DEF WriterTypes

\* The queue after an enqueue is what is left of the old one, and the event.
LEMMA EnqueueKeepsTypes == ASSUME WriterTypes, Enqueue PROVE WriterTypes'
<1> DEFINE e == enqueued + 1
           p == Append(queue, e)
           x == Excess(p)
<1>1. /\ queue \in Seq(Events) /\ enqueued \in 0 .. MaxEvents /\ enqueued < MaxEvents
      /\ MaxEvents \in Nat /\ MaxQueueSize \in Nat
  BY WriterAssumption DEF WriterTypes, LineTypes, Enqueue
<1>2. e \in Events /\ e \in 0 .. MaxEvents
  BY <1>1 DEF Events
<1>3. p \in Seq(Events) /\ Len(p) \in Nat
  BY <1>1, <1>2, AppendProperties
<1>4. x \in 0 .. Len(p)
  BY <1>1, <1>3 DEF Excess
<1>5. /\ queue' = SubSeq(p, x + 1, Len(p)) /\ enqueued' = e
      /\ dropped' = dropped \cup {p[i] : i \in 1 .. x}
      /\ UNCHANGED <<snapshot, acked, closed, flushing, closing, refused, stored, outage>>
      /\ timer' = TRUE /\ ~closed
  BY DEF Enqueue
<1> HIDE DEF p, x
<1>6. queue' \in Seq(Events)
  BY <1>3, <1>4, <1>5, SubSeqProperties
<1>7. dropped' \subseteq Events
  BY <1>3, <1>4, <1>5, ElementOfSeq DEF WriterTypes, LineTypes
<1>8. LineTypes'
  BY <1>2, <1>5, <1>6, <1>7 DEF WriterTypes, LineTypes
<1>9. GateTypes'
  BY <1>5, Zenon DEF WriterTypes, GateTypes
<1> QED
  BY <1>8, <1>9 DEF WriterTypes

LEMMA ToSetOfEvents == ASSUME NEW s \in Seq(Events) PROVE ToSet(s) \subseteq Events
BY DEF ToSet

LEMMA UploadKeepsTypes == ASSUME WriterTypes, Upload PROVE WriterTypes'
<1>1. /\ EndFlush /\ stored' \in {stored, stored \cup ToSet(snapshot)}
      /\ outage' = outage \/ outage' = TRUE
      /\ \/ acked' = acked \o snapshot /\ queue' = queue
         \/ acked' = acked /\ queue' = snapshot \o queue
  BY DEF Upload, UploadOk, UploadFails, UploadAnswerLost, Restore
<1>2. /\ acked \o snapshot \in Seq(Events) /\ snapshot \o queue \in Seq(Events)
      /\ ToSet(snapshot) \subseteq Events
  BY ToSetOfEvents, ConcatProperties DEF WriterTypes, LineTypes
<1>3. /\ acked' \in Seq(Events) /\ queue' \in Seq(Events) /\ stored' \subseteq Events
      /\ <<>> \in Seq(Events)
  <2>1. acked \in Seq(Events) /\ queue \in Seq(Events) /\ stored \subseteq Events
    BY DEF WriterTypes, LineTypes
  <2>2. acked' \in Seq(Events) /\ queue' \in Seq(Events)
    BY <1>1, <1>2, <2>1, Zenon
  <2>3. <<>> \in Seq(Events)
    OBVIOUS
  <2>4. stored' \subseteq Events
    BY <1>1, <1>2, <2>1
  <2> QED
    BY <2>2, <2>3, <2>4
<1>5. LineTypes'
  BY <1>1, <1>3 DEF WriterTypes, EndFlush, LineTypes
<1>4. GateTypes'
  BY <1>1, Zenon DEF WriterTypes, EndFlush, GateTypes
<1> QED
  BY <1>4, <1>5 DEF WriterTypes

LEMMA NextKeepsWriterTypes == WriterTypes /\ [WriterNext]_writerVars => WriterTypes'
<1> SUFFICES ASSUME WriterTypes, [WriterNext]_writerVars PROVE WriterTypes'
  OBVIOUS
<1>1. CASE Enqueue
  BY <1>1, EnqueueKeepsTypes
<1>2. CASE EnqueueAfterClose
  <2>1. enqueued + 1 \in Events /\ enqueued + 1 \in 0 .. MaxEvents
    BY <1>2, WriterAssumption DEF WriterTypes, EnqueueAfterClose, LineTypes, Events
  <2>2. LineTypes'
    BY <1>2, <2>1 DEF WriterTypes, EnqueueAfterClose, holdVars, LineTypes
  <2>3. GateTypes'
    BY <1>2, Zenon DEF WriterTypes, EnqueueAfterClose, holdVars, GateTypes
  <2> QED
    BY <2>2, <2>3 DEF WriterTypes
<1>3. ASSUME BeginFlush, UNCHANGED <<enqueued, pinVars>>, closed' \in BOOLEAN,
             closing' \in {"no", "awaiting", "returned"}, closed' => ~timer', timer' \in BOOLEAN
      PROVE  WriterTypes'
  <2>1. LineTypes'
    BY <1>3 DEF WriterTypes, BeginFlush, pinVars, LineTypes
  <2>2. GateTypes'
    BY <1>3, Zenon DEF WriterTypes, BeginFlush, pinVars, GateTypes
  <2> QED
    BY <2>1, <2>2 DEF WriterTypes
<1>4. CASE TimerFlush \/ Flush
  BY <1>3, <1>4, Zenon DEF WriterTypes, TimerFlush, Flush, GateTypes
<1>5. CASE Upload
  BY <1>5, UploadKeepsTypes
<1>6. CASE Close
  <2>1. CASE BeginFlush /\ closing' = "awaiting"
    BY <1>3, <1>6, <2>1 DEF Close
  <2>2. CASE UNCHANGED <<queue, snapshot, flushing>> /\ closing' \in {"awaiting", "returned"}
    <3>1. LineTypes'
      BY <1>6, <2>2 DEF WriterTypes, Close, pinVars, LineTypes
    <3>2. GateTypes'
      BY <1>6, <2>2, Zenon DEF WriterTypes, Close, pinVars, GateTypes
    <3> QED
      BY <3>1, <3>2 DEF WriterTypes
  <2> QED
    BY <1>6, <2>1, <2>2 DEF Close
<1>7. CASE UNCHANGED writerVars
  <2>1. LineTypes'
    BY <1>7 DEF WriterTypes, writerVars, holdVars, pinVars, LineTypes
  <2>2. GateTypes'
    BY <1>7, Zenon DEF WriterTypes, writerVars, holdVars, pinVars, GateTypes
  <2> QED
    BY <2>1, <2>2 DEF WriterTypes
<1> QED
  BY <1>1, <1>2, <1>4, <1>5, <1>6, <1>7 DEF WriterNext

\* The writer's state keeps its types; a flush is in flight exactly while there is
\* a batch, and close() has cleared the timer (audit.ts: doFlush, close).
THEOREM WriterTypeCorrect == WriterSpec => []WriterTypeOK
<1>1. WriterTypes => WriterTypeOK
  BY Zenon DEF WriterTypes, LineTypes, GateTypes, WriterTypeOK
<1> QED
  BY <1>1, InitWriterTypes, NextKeepsWriterTypes, PTL DEF WriterSpec

\* close() is called when no flush is in flight, or when nothing has been enqueued
\* since the flush in flight began.
ClosesIdle == Close => ~flushing \/ queue = <<>>

ClosedInv ==
  /\ closing # "no" => closed
  /\ closed /\ ~outage => queue = <<>>

LEMMA NextKeepsClosed == ClosedInv /\ [WriterNext /\ ClosesIdle]_writerVars => ClosedInv'
<1> SUFFICES ASSUME ClosedInv, [WriterNext /\ ClosesIdle]_writerVars PROVE ClosedInv'
  OBVIOUS
<1>1. CASE Enqueue
  BY <1>1 DEF Enqueue, ClosedInv
<1>2. CASE EnqueueAfterClose \/ UNCHANGED writerVars
  BY <1>2 DEF EnqueueAfterClose, writerVars, holdVars, pinVars, ClosedInv
<1>3. CASE TimerFlush \/ Flush
  BY <1>3 DEF TimerFlush, Flush, BeginFlush, pinVars, ClosedInv
<1>4. CASE UploadOk
  BY <1>4 DEF UploadOk, EndFlush, ClosedInv
<1>5. CASE UploadFails \/ UploadAnswerLost
  BY <1>5 DEF UploadFails, UploadAnswerLost, Restore, EndFlush, ClosedInv
<1>6. CASE Close /\ ClosesIdle
  BY <1>6 DEF Close, ClosesIdle, BeginFlush, pinVars, ClosedInv
<1> QED
  BY <1>1, <1>2, <1>3, <1>4, <1>5, <1>6 DEF WriterNext, Upload

\* "Stop background timer and run final flush" (audit.ts:72): close() leaves nothing
\* in the queue, as long as no upload has failed and close() is not called while a
\* flush is in flight and newer events wait.  The code does not see to the last:
\* the run `audit_writer_close' leaves such events behind.
THEOREM WriterCloseFlushesWhenIdle ==
  WriterSpec /\ [][ClosesIdle]_writerVars => []CloseFlushesQueue
<1>1. WriterInit => ClosedInv
  BY DEF WriterInit, ClosedInv
<1>2. [WriterNext]_writerVars /\ [ClosesIdle]_writerVars => [WriterNext /\ ClosesIdle]_writerVars
  OBVIOUS
<1>3. ClosedInv => CloseFlushesQueue
  BY DEF ClosedInv, CloseFlushesQueue
<1> QED
  BY <1>1, <1>2, <1>3, NextKeepsClosed, PTL DEF WriterSpec

=============================================================================
