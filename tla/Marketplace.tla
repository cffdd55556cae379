----------------------------- MODULE Marketplace -----------------------------
(***************************************************************************)
(* A paid call of an agent, from the buyer to the agent and back.  The     *)
(* buyers are the terminal's `kh hire`, the command line's (`hire' and     *)
(* `cli' below) and the oracle payment of live-deps.ts (`query'), all over *)
(* payViaKeeperHubMarketplace; then come the x402 gate of packages/workflow *)
(* before the service, and zhgg-mcp-adapter, whose endpoints run the       *)
(* agents.                                                                 *)
(*                                                                         *)
(* The facilitator, the wallet that signs, the FeeSplitter and the host    *)
(* that puts the gate before the endpoints are not in the repository.  The *)
(* host does what x402.ts asks of its caller (lines 3 to 10 and 24, and    *)
(* the replay test of x402.test.ts): it verifies, drops a payload it has   *)
(* seen, does the work, and settles if the work succeeded.                 *)
(***************************************************************************)
EXTENDS Naturals, FiniteSets

CONSTANTS
  Purchases,    \* the purchases under way
  MaxSends      \* bound on how often the payload of a purchase is sent

ASSUME MaxSendsAssumption == MaxSends \in Nat

VARIABLES
  orders,       \* the state of each purchase
  auths,        \* the EIP-3009 authorization of each purchase
  requests,     \* the requests at the gate
  seen,         \* the purchases whose payload the host has let pass
  works,        \* how often an agent has acted for each purchase
  splits        \* the purchases paid by a direct call of the FeeSplitter

marketVars == <<orders, auths, requests, seen, works, splits>>

SERVICES == {"audit", "oracle", "swap"}

\* KeeperHub has a slug for what it lists, or not; the inputs that are given
\* are what the service asks for, or have its keys only, or lack one; the host
\* has the adapter's token, or not; and the adapter has the environment of the
\* service's agent, or not.  The oracle needs none.
Catalog == {item \in [service : SERVICES, price : {0, 1}, slug : BOOLEAN,
                      inputs : {"fit", "keys", "missing"}, bearer : BOOLEAN, wired : BOOLEAN] :
              item.service = "oracle" => item.wired}

-----------------------------------------------------------------------------
MarketTypeOK ==
  /\ auths \in [Purchases -> {"none", "signed", "settled"}]
  /\ works \in [Purchases -> Nat]
  /\ seen \subseteq Purchases /\ splits \subseteq Purchases
  /\ \A p \in DOMAIN orders :
       orders[p].answer \in {"none", "refused", "failed", "paid", "free", "split"}
  /\ \A r \in requests : r.at \in {"verify", "judged", "work", "settle", "answered"}

\* A purchase of `kh hire` starts with the catalog, the others with the call.
MarketInit(bought, items) ==
  /\ orders \in [bought ->
       {[kind |-> k, item |-> i, at |-> IF k = "hire" THEN "inspect" ELSE "call",
         answer |-> "none", lost |-> FALSE] : k \in {"hire", "cli", "query"}, i \in items}]
  /\ auths = [p \in Purchases |-> "none"]
  /\ requests = {} /\ seen = {} /\ splits = {}
  /\ works = [p \in Purchases |-> 0]

IsAt(p, step) == orders[p].at = step
GoTo(p, step) == orders' = [orders EXCEPT ![p].at = step]
End(p, answer) == orders' = [orders EXCEPT ![p].at = "ended", ![p].answer = answer]

Item(p) == orders[p].item

-----------------------------------------------------------------------------
(* zhgg-mcp-adapter: what each endpoint answers, and whether its agent acted *)

Answered(status, acted) == [status |-> status, acted |-> acted]

checkBearer(item) == item.bearer
validateAgentInput(item) == item.inputs = "fit"

\* The agent that is not wired throws.  The audit rejects when a probe's
\* inference or the making of its report throws; whether its receipt could be
\* sent is told in an answer that is a success.
handleAuditCall(item) == {Answered("500", FALSE)} \cup (IF item.wired THEN {Answered("200", TRUE)} ELSE {})

\* Hermes has a price, or the error is passed on.
handleOracleCall == {Answered("200", TRUE), Answered("502", FALSE)}

\* Mutant of handleSwapCall: the result is not looked at.
handleSwapCallBlindly(item) == {Answered("200", acted) : acted \in BOOLEAN}

\* A swap that failed may have been sent: the answer to its write was lost.  The
\* search for a pool, which nothing catches, throws before anything is sent.
handleSwapCall(item) ==
  {Answered("502", FALSE)} \cup
  (IF item.wired THEN {Answered("200", TRUE), Answered("502", TRUE), Answered("500", FALSE)} ELSE {})

\* The bearer is checked before the body is parsed, and the body before the
\* agent is called.
createFetchHandler(item) ==
  IF ~checkBearer(item) THEN {Answered("401", FALSE)}
  ELSE IF ~validateAgentInput(item) THEN {Answered("400", FALSE)}
  ELSE CASE item.service = "audit"  -> handleAuditCall(item)
         [] item.service = "oracle" -> handleOracleCall
         [] item.service = "swap"   -> handleSwapCall(item)

-----------------------------------------------------------------------------
(* The x402 gate                                                           *)

Request(p, sends) == [by |-> p, send |-> sends, at |-> "verify", reply |-> "none", status |-> "none", hash |-> FALSE]

Sends(p) == Cardinality({r \in requests : r.by = p /\ r.send > 0})

Update(r, s) == requests' = (requests \ {r}) \cup {s}

Reply(r, status) == Update(r, [r EXCEPT !.at = "answered", !.status = status])

\* What the facilitator can say of an authorization: it is valid as long as its
\* nonce is not used, and it may have expired.
FacilitatorSays(p) ==
  {"down", "http error", "unreadable", "invalid"} \cup (IF auths[p] = "signed" THEN {"valid"} ELSE {})

Judge(r) ==
  /\ r \in requests /\ r.at = "verify" /\ r.send > 0
  /\ \E said \in FacilitatorSays(r.by) : Update(r, [r EXCEPT !.at = "judged", !.reply = said])
  /\ UNCHANGED <<orders, auths, seen, works, splits>>

\* The response of verifyPayment, or "ok".
verifyPayment(r) ==
  IF r.send = 0 THEN "402"
  ELSE CASE r.reply \in {"down", "http error"} -> "503"
         [] r.reply = "unreadable"             -> "502"
         [] r.reply = "invalid"                -> "402"
         [] OTHER                              -> "ok"

\* A service that is free has no gate.
NoHeader(r) ==
  /\ r \in requests /\ r.at = "verify" /\ r.send = 0
  /\ IF Item(r.by).price = 0 THEN Update(r, [r EXCEPT !.at = "work"]) ELSE Reply(r, verifyPayment(r))
  /\ UNCHANGED <<orders, auths, seen, works, splits>>

\* paymentFingerprint is what the host drops a second request by: it looks and
\* adds without awaiting anything in between.
Verified(r) ==
  /\ r \in requests /\ r.at = "judged"
  /\ IF verifyPayment(r) # "ok" THEN Reply(r, verifyPayment(r)) /\ UNCHANGED seen
     ELSE IF r.by \in seen THEN Reply(r, "409") /\ UNCHANGED seen
     ELSE Update(r, [r EXCEPT !.at = "work"]) /\ seen' = seen \cup {r.by}
  /\ UNCHANGED <<orders, auths, works, splits>>

\* The endpoint is called, and what it answers is passed on unless it is to be
\* settled first.
Work(r) ==
  /\ r \in requests /\ r.at = "work"
  /\ \E answer \in createFetchHandler(Item(r.by)) :
       /\ works' = [works EXCEPT ![r.by] = @ + (IF answer.acted THEN 1 ELSE 0)]
       /\ IF answer.status = "200" /\ r.send > 0 THEN Update(r, [r EXCEPT !.at = "settle"])
          ELSE Reply(r, answer.status)
  /\ UNCHANGED <<orders, auths, seen, splits>>

\* Mutant of settlePayment: an answer with a transaction is a success.
settlePaymentUnchecked(said) == said \in {"success", "failure"}

settlePayment(said) == said = "success"

\* The facilitator broadcasts the transfer and answers, or is not heard.  A
\* service whose settlement failed is served, or not, without a hash.
SettlePayment(r) ==
  /\ r \in requests /\ r.at = "settle"
  /\ \E said \in {"success", "failure", "down", "unreadable"}, moved \in BOOLEAN :
       /\ said = "success" => moved
       /\ said = "failure" => ~moved
       /\ auths' = IF moved THEN [auths EXCEPT ![r.by] = "settled"] ELSE auths
       /\ \E status \in IF settlePayment(said) THEN {"200"} ELSE {"200", "500"} :
            Update(r, [r EXCEPT !.at = "answered", !.status = status, !.hash = settlePayment(said)])
  /\ UNCHANGED <<orders, seen, works, splits>>

-----------------------------------------------------------------------------
(* The buyer                                                               *)

\* What a call of KeeperHub's API comes to: the request is not sent or not
\* answered, refused, answered with something else than JSON, or answered.
request == {"network", "http_error", "malformed_response", "json"}

\* The public catalog, and the workflow in it.
discoverWorkflows == (request \ {"json"}) \cup {"malformed_response", "items"}

inspectWorkflow == (discoverWorkflows \ {"items"}) \cup {"found", "null"}

\* A client needs the key; the terminal asks for that of the wallet as well.
buildKHFromEnv == {"env_missing", "client"}

executeKHCall == (buildKHFromEnv \ {"client"}) \cup inspectWorkflow

resolveCallableSlug(item) == item.slug

validateRequiredInputs(item) == item.inputs # "missing"

Inspect(p) ==
  /\ IsAt(p, "inspect")
  /\ \E outcome \in executeKHCall :
       IF outcome = "found" /\ resolveCallableSlug(Item(p)) /\ validateRequiredInputs(Item(p))
         THEN GoTo(p, "audit") ELSE End(p, "refused")
  /\ UNCHANGED <<auths, requests, seen, works, splits>>

\* The audit of the workflow: whatever its verdict, and if it fails, the
\* payment follows.
PreAudit(p) ==
  /\ IsAt(p, "audit")
  /\ GoTo(p, "call")
  /\ UNCHANGED <<auths, requests, seen, works, splits>>

\* signer.fetch asks first without a payment.
CallService(p) ==
  /\ IsAt(p, "call")
  /\ requests' = requests \cup {Request(p, 0)}
  /\ GoTo(p, "asked")
  /\ UNCHANGED <<auths, seen, works, splits>>

\* payViaKeeperHubMarketplace throws: a hire has failed, and the oracle is paid
\* by the splitter.
Failed(p) ==
  orders' = [orders EXCEPT ![p] =
    IF @.kind = "query" THEN [@ EXCEPT !.at = "split", !.lost = TRUE]
    ELSE [@ EXCEPT !.at = "ended", !.answer = "failed", !.lost = TRUE]]

\* Challenged, the wallet signs, and the request is sent again with the payment.
Sign(p) ==
  /\ IsAt(p, "asked")
  /\ \E r \in requests : r.by = p /\ r.send = 0 /\ r.status = "402"
  /\ \/ /\ auths' = [auths EXCEPT ![p] = "signed"]
        /\ requests' = requests \cup {Request(p, 1)}
        /\ GoTo(p, "paying")
     \/ Failed(p) /\ UNCHANGED <<auths, requests>>
  /\ UNCHANGED <<seen, works, splits>>

\* What has been sent is sent again: by the network, or on a 503.
Resend(p) ==
  /\ auths[p] # "none" /\ Sends(p) < MaxSends
  /\ requests' = requests \cup {Request(p, Sends(p) + 1)}
  /\ UNCHANGED <<orders, auths, seen, works, splits>>

\* Where the host puts the transaction: in X-PAYMENT-RESPONSE, in the body, or in
\* PAYMENT-RESPONSE (paymentResponseHeader), which nobody reads.
Places == {"X-PAYMENT-RESPONSE", "paymentTxHash", "PAYMENT-RESPONSE"}

\* The hash, or that of a free workflow.
extractSettlementTx(r, place) ==
  IF r.hash /\ place # "PAYMENT-RESPONSE" THEN "paid" ELSE "free"

\* A response that is not a success throws; one to what was asked without a
\* payment is the answer of a free workflow.
Response(p) ==
  /\ orders[p].at \in {"asked", "paying"}
  /\ \E r \in requests :
       /\ r.by = p /\ r.at = "answered" /\ (r.send > 0) = (orders[p].at = "paying")
       /\ r.send = 0 => r.status # "402"
       /\ IF r.status = "200" THEN \E place \in Places : End(p, extractSettlementTx(r, place)) ELSE Failed(p)
  /\ UNCHANGED <<auths, requests, seen, works, splits>>

NoResponse(p) ==
  /\ orders[p].at \in {"asked", "paying"}
  /\ Failed(p)
  /\ UNCHANGED <<auths, requests, seen, works, splits>>

\* settleOraclePayment falls back to the FeeSplitter, or rejects.
DirectSplit(p) ==
  /\ IsAt(p, "split")
  /\ \/ splits' = splits \cup {p} /\ End(p, "split")
     \/ splits' \in {splits, splits \cup {p}} /\ End(p, "failed")
  /\ UNCHANGED <<auths, requests, seen, works>>

MarketNext ==
  \/ \E p \in DOMAIN orders :
       \/ Inspect(p) \/ PreAudit(p) \/ CallService(p) \/ Sign(p) \/ Resend(p)
       \/ Response(p) \/ NoResponse(p) \/ DirectSplit(p)
  \/ \E r \in requests : NoHeader(r) \/ Judge(r) \/ Verified(r) \/ Work(r) \/ SettlePayment(r)

-----------------------------------------------------------------------------
(* Properties                                                              *)

\* What is paid for is done, and done once (x402.ts:24, routes/swap.ts:41): however
\* often a payload is sent and whatever the facilitator answers, an agent acts
\* at most once for an authorization, and one that is settled was acted for.
MoneyForWork ==
  \A p \in DOMAIN orders :
    /\ Item(p).price > 0 => works[p] <= 1
    /\ auths[p] = "settled" => works[p] = 1

\* The buyer is told what happened to its money (index.ts:2054 of the terminal,
\* live-deps.ts:234): a hash is that of a settled payment; what is refused has
\* signed nothing and had nothing done; and an oracle is paid by the splitter as
\* well only after an answer that was lost or no success.
AnswerTellsThePayment ==
  \A p \in DOMAIN orders :
    /\ orders[p].answer = "paid" => auths[p] = "settled" /\ p \notin splits
    /\ orders[p].answer = "refused" => auths[p] = "none" /\ works[p] = 0 /\ p \notin splits
    /\ orders[p].answer = "split" => p \in splits
    /\ p \in splits => orders[p].lost

\* "all-zeros = free workflow, no USDC charged" (index.ts:2055 of the terminal).
ZeroHashIsFree ==
  \A p \in DOMAIN orders : orders[p].answer = "free" => auths[p] # "settled"
=============================================================================
