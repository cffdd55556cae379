---------------------------- MODULE MultiLegRelay ----------------------------
(***************************************************************************)
(* The relayer of signed multi-leg payments, relayPaymentIntent in         *)
(* packages/workflow/src/multi-leg-relay.ts, with the production executor  *)
(* of a leg, feeSplitterExecutor.                                          *)
(*                                                                         *)
(* Several calls run concurrently in one relayer: every await ends a step, *)
(*                                                                         *)
(*   start -> seen -> recover -> record -> leg by leg -> done              *)
(*   a leg:  leg -> approve -> approving -> split -> send -> sent          *)
(*                                                                         *)
(* All calls send from one account.  A chain mines the account's pending   *)
(* transactions in the order of their broadcast, and only then decides     *)
(* whether they take effect.  An RPC call may fail, after a broadcast too. *)
(* A chain has one settler and one token; legs of a chain share them.      *)
(***************************************************************************)
EXTENDS Integers, Sequences

CONSTANTS
  Calls,          \* calls of relayPaymentIntent
  Intents, Nonces,
  IntentOf,       \* [Calls -> Intents]
  WellSigned,     \* the calls whose signature recovers to intent.from
  NonceOf,        \* [Intents -> Nonces], a nonce stands for (from, nonce)
  DeadlineOf,     \* [Intents -> Nat]
  LegsOf,         \* [Intents -> sequences of legs]
  Executors,      \* the chains the relayer has an executor for
  UnknownChain,   \* any other chain
  MinSplit,       \* FeeSplitter.MIN_SPLIT_AMOUNT
  RelayerFunds,          \* what the relayer holds on each chain
  MaxTime         \* bound on the clock

Leg == [chain : Executors \cup {UnknownChain}, amount : Nat]

ASSUME RelayAssumption ==
  /\ IntentOf \in [Calls -> Intents]
  /\ WellSigned \subseteq Calls
  /\ NonceOf \in [Intents -> Nonces]
  /\ DeadlineOf \in [Intents -> Nat]
  /\ \A n \in Intents : LegsOf[n] \in Seq(Leg)
  /\ UnknownChain \notin Executors
  /\ MinSplit \in Nat /\ RelayerFunds \in Nat /\ MaxTime \in Nat

VARIABLES
  now,
  used,         \* the nonce store
  pc, results, rejection,
  mempool,      \* per chain, the relayer's pending transactions
  receipt,      \* [Calls -> leg index -> the fate of its two transactions]
  allowance, balance,
  startedAt,    \* history: when a call began
  retries       \* history: the calls that began with their nonce recorded

chainVars == <<mempool, receipt, allowance, balance>>
callVars == <<pc, results, rejection>>
history == <<startedAt, retries>>
relayVars == <<now, used, callVars, chainVars, history>>

LegsOfCall(c) == LegsOf[IntentOf[c]]
Nonce(c) == NonceOf[IntentOf[c]]
LegIndexes(c) == 1 .. Len(LegsOfCall(c))
Kinds == {"approval", "split"}
Fates == {"none", "pending", "success", "reverted"}
Unsent == [kind \in Kinds |-> "none"]
InLeg == {"leg", "approve", "approving", "split", "send", "sent"}
Rejections == {"none", "no_legs", "expired", "replay", "invalid_signature", "threw"}
Results == {"ok", "unknown_chain", "failed"}

RelayTypeOK ==
  /\ now \in 0 .. MaxTime
  /\ used \subseteq Nonces
  /\ pc \in [Calls -> {"start", "seen", "recover", "record", "done"} \cup InLeg]
  /\ results \in [Calls -> Seq(Results)]
  /\ rejection \in [Calls -> Rejections]
  /\ \A c \in Calls :
       /\ pc[c] \in InLeg => Len(results[c]) < Len(LegsOfCall(c))
       /\ receipt[c] \in [LegIndexes(c) -> [Kinds -> Fates]]
  /\ mempool \in [Executors -> Seq([call : Calls, leg : Nat, kind : Kinds])]
  /\ allowance \in [Executors -> Nat]
  /\ balance \in [Executors -> 0 .. RelayerFunds]
  /\ startedAt \in [Calls -> 0 .. MaxTime]
  /\ retries \subseteq Calls

RelayInit ==
  /\ now = 0
  /\ used = {}
  /\ pc = [c \in Calls |-> "start"]
  /\ results = [c \in Calls |-> <<>>]
  /\ rejection = [c \in Calls |-> "none"]
  /\ mempool = [ch \in Executors |-> <<>>]
  /\ receipt = [c \in Calls |-> [i \in LegIndexes(c) |-> Unsent]]
  /\ allowance = [ch \in Executors |-> 0]
  /\ balance = [ch \in Executors |-> RelayerFunds]
  /\ startedAt = [c \in Calls |-> 0]
  /\ retries = {}

-----------------------------------------------------------------------------
(* Up to the fan-out.                                                      *)

Proceed(c, next) == pc' = [pc EXCEPT ![c] = next] /\ UNCHANGED <<results, rejection>>

RejectCall(c, reason) ==
  /\ pc' = [pc EXCEPT ![c] = "done"]
  /\ rejection' = [rejection EXCEPT ![c] = reason]
  /\ UNCHANGED results

\* The clock is read once; the legs and the deadline are tested without await.
Start(c) ==
  /\ pc[c] = "start"
  /\ startedAt' = [startedAt EXCEPT ![c] = now]
  /\ retries' = IF Nonce(c) \in used THEN retries \cup {c} ELSE retries
  /\ UNCHANGED <<now, used, chainVars>>
  /\ \/ LegsOfCall(c) = <<>> /\ RejectCall(c, "no_legs")
     \/ LegsOfCall(c) # <<>> /\ DeadlineOf[IntentOf[c]] < now /\ RejectCall(c, "expired")
     \/ LegsOfCall(c) # <<>> /\ DeadlineOf[IntentOf[c]] >= now /\ Proceed(c, "seen")

\* Mutant of Seen: the answer of the store is ignored.
SeenIgnored(c) ==
  /\ pc[c] = "seen"
  /\ Proceed(c, "recover")
  /\ UNCHANGED <<now, used, chainVars, history>>

Seen(c) ==
  /\ pc[c] = "seen"
  /\ IF Nonce(c) \in used THEN RejectCall(c, "replay") ELSE Proceed(c, "recover")
  /\ UNCHANGED <<now, used, chainVars, history>>

Recover(c) ==
  /\ pc[c] = "recover"
  /\ IF c \in WellSigned THEN Proceed(c, "record") ELSE RejectCall(c, "invalid_signature")
  /\ UNCHANGED <<now, used, chainVars, history>>

\* Mutant of RecordNonce: the nonce is to be recorded after the fan-out.
RecordNonceLater(c) ==
  /\ pc[c] = "record"
  /\ Proceed(c, "leg")
  /\ UNCHANGED <<now, used, chainVars, history>>

RecordNonce(c) ==
  /\ pc[c] = "record"
  /\ used' = used \cup {Nonce(c)}
  /\ Proceed(c, "leg")
  /\ UNCHANGED <<now, chainVars, history>>

\* The store is a database in production: it may fail, and nothing catches it.
StoreFails(c) ==
  /\ pc[c] \in {"seen", "record"}
  /\ RejectCall(c, "threw")
  /\ UNCHANGED <<now, used, chainVars, history>>

-----------------------------------------------------------------------------
(* The fan-out: one leg after the other.                                   *)

Index(c) == Len(results[c]) + 1
CurrentLeg(c) == LegsOfCall(c)[Index(c)]
Chain(c) == CurrentLeg(c).chain
FateOf(c, kind) == receipt[c][Index(c)][kind]

\* Mutant of EndLeg: the first failure ends the loop.
EndLegStops(c, result) ==
  /\ results' = [results EXCEPT ![c] = Append(@, result)]
  /\ pc' = [pc EXCEPT ![c] =
       IF Index(c) = Len(LegsOfCall(c)) \/ result # "ok" THEN "done" ELSE "leg"]
  /\ UNCHANGED rejection

\* A leg has its result; the loop goes on whatever it is.
EndLeg(c, result) ==
  /\ results' = [results EXCEPT ![c] = Append(@, result)]
  /\ pc' = [pc EXCEPT ![c] = IF Index(c) = Len(LegsOfCall(c)) THEN "done" ELSE "leg"]
  /\ UNCHANGED rejection

\* Mutant of NoExecutor: the loop never leaves an unknown chain.
NoExecutorLoops(c) ==
  /\ pc[c] = "leg"
  /\ Chain(c) = UnknownChain
  /\ UNCHANGED relayVars

NoExecutor(c) ==
  /\ pc[c] = "leg"
  /\ Chain(c) = UnknownChain
  /\ EndLeg(c, "unknown_chain")
  /\ UNCHANGED <<now, used, chainVars, history>>

ReadAllowance(c) ==
  /\ pc[c] = "leg"
  /\ Chain(c) # UnknownChain
  /\ Proceed(c, IF allowance[Chain(c)] < CurrentLeg(c).amount THEN "approve" ELSE "split")
  /\ UNCHANGED <<now, used, chainVars, history>>

Broadcast(c, kind) ==
  /\ mempool' = [mempool EXCEPT ![Chain(c)] =
       Append(@, [call |-> c, leg |-> Index(c), kind |-> kind])]
  /\ receipt' = [receipt EXCEPT ![c][Index(c)][kind] = "pending"]
  /\ UNCHANGED <<allowance, balance>>

Approve(c) ==
  /\ pc[c] = "approve"
  /\ Broadcast(c, "approval")
  /\ Proceed(c, "approving")
  /\ UNCHANGED <<now, used, history>>

MinedFates == {"success", "reverted"}

ApprovalMined(c) ==
  /\ pc[c] = "approving"
  /\ FateOf(c, "approval") \in MinedFates
  /\ Proceed(c, "split")
  /\ UNCHANGED <<now, used, chainVars, history>>

\* splitERC20 takes the amount from the relayer, or reverts.
SplitWorks(leg) ==
  /\ leg.amount > 0
  /\ leg.amount >= MinSplit
  /\ leg.amount <= allowance[leg.chain]
  /\ leg.amount <= balance[leg.chain]

\* simulateContract, and the gas estimate of writeContract, on the latest block.
SimulateSplit(c) ==
  /\ pc[c] = "split"
  /\ SplitWorks(CurrentLeg(c))
  /\ Proceed(c, "send")
  /\ UNCHANGED <<now, used, chainVars, history>>

SendSplit(c) ==
  /\ pc[c] = "send"
  /\ SplitWorks(CurrentLeg(c))
  /\ Broadcast(c, "split")
  /\ Proceed(c, "sent")
  /\ UNCHANGED <<now, used, history>>

\* The receipt's status is not looked at.
SplitMined(c) ==
  /\ pc[c] = "sent"
  /\ FateOf(c, "split") \in MinedFates
  /\ EndLeg(c, "ok")
  /\ UNCHANGED <<now, used, chainVars, history>>

\* The catch block: a call that would revert, an RPC failure, a receipt that did
\* not come in time, a broadcast that took place and whose answer was lost.
LegFails(c) ==
  /\ pc[c] \in InLeg
  /\ Chain(c) # UnknownChain
  /\ EndLeg(c, "failed")
  /\ UNCHANGED <<now, used, history>>
  /\ \/ UNCHANGED chainVars
     \/ pc[c] = "approve" /\ Broadcast(c, "approval")
     \/ pc[c] = "send" /\ SplitWorks(CurrentLeg(c)) /\ Broadcast(c, "split")

-----------------------------------------------------------------------------
(* The chains.                                                             *)

TransactionLeg(tx) == LegsOfCall(tx.call)[tx.leg]

Confirm(ch, fate) ==
  LET tx == Head(mempool[ch])
  IN  /\ mempool' = [mempool EXCEPT ![ch] = Tail(@)]
      /\ receipt' = [receipt EXCEPT ![tx.call][tx.leg][tx.kind] = fate]
      /\ UNCHANGED <<now, used, callVars, history>>

MineApproval(ch) ==
  /\ mempool[ch] # <<>>
  /\ Head(mempool[ch]).kind = "approval"
  /\ allowance' = [allowance EXCEPT ![ch] = TransactionLeg(Head(mempool[ch])).amount]
  /\ UNCHANGED balance
  /\ Confirm(ch, "success")

MineSplit(ch) ==
  LET amount == TransactionLeg(Head(mempool[ch])).amount
  IN  /\ mempool[ch] # <<>>
      /\ Head(mempool[ch]).kind = "split"
      /\ IF SplitWorks(TransactionLeg(Head(mempool[ch])))
         THEN /\ allowance' = [allowance EXCEPT ![ch] = @ - amount]
              /\ balance' = [balance EXCEPT ![ch] = @ - amount]
              /\ Confirm(ch, "success")
         ELSE /\ UNCHANGED <<allowance, balance>>
              /\ Confirm(ch, "reverted")

Tick ==
  /\ now < MaxTime
  /\ now' = now + 1
  /\ UNCHANGED <<used, callVars, chainVars, history>>

-----------------------------------------------------------------------------

Step(c) ==
  \/ Start(c) \/ Seen(c) \/ Recover(c) \/ RecordNonce(c) \/ StoreFails(c)
  \/ NoExecutor(c) \/ ReadAllowance(c)
  \/ Approve(c) \/ ApprovalMined(c) \/ SimulateSplit(c) \/ SendSplit(c)
  \/ SplitMined(c) \/ LegFails(c)

RelayNext ==
  \/ \E c \in Calls : Step(c)
  \/ \E ch \in Executors : MineApproval(ch) \/ MineSplit(ch)
  \/ Tick

RelaySpec == RelayInit /\ [][RelayNext]_relayVars

\* Every awaited promise settles: the store, the RPC client and the wait for a
\* receipt have timeouts.  Nothing is assumed of the chains.
FairRelaySpec == RelaySpec /\ \A c \in Calls : WF_relayVars(Step(c))

-----------------------------------------------------------------------------

\* What a call has on the way to, or on, a chain.
Touched(c) == \E i \in LegIndexes(c) : receipt[c][i] # Unsent

\* "Atomic at the signature level": no transaction of a call exists, not even an
\* approval, unless the intent was signed, was not expired when the call began,
\* and its nonce is in the store already, so that a crash cannot forget it.
SubmittedIsAuthorised ==
  \A c \in Calls :
    Touched(c) =>
      /\ c \in WellSigned
      /\ startedAt[c] <= DeadlineOf[IntentOf[c]]
      /\ Nonce(c) \in used

\* A call that begins when its nonce is recorded runs no leg, whatever became of
\* the legs of the call that recorded it: a retry after a partial failure is
\* refused too.
RetryIsRefused ==
  \A c \in retries :
    /\ ~Touched(c)
    /\ results[c] = <<>>
    /\ pc[c] = "done" => rejection[c] # "none"

\* A call that was not rejected reports one result for every leg, in order, and a
\* failed or unknown leg hides no later one.  "unknown_chain" means that nothing was
\* sent, and "ok" that the split was mined: well, or as a revert.  A hash "on success"
\* and "which legs failed" (:166, :14) promise more: that no leg of a reverted split
\* is reported ok.  The code does not look at the status of the receipt (:338).
EveryLegIsReported ==
  \A c \in Calls :
    /\ pc[c] = "done" /\ rejection[c] = "none" => Len(results[c]) = Len(LegsOfCall(c))
    /\ \A i \in 1 .. Len(results[c]) :
         /\ results[c][i] = "unknown_chain" <=> LegsOfCall(c)[i].chain = UnknownChain
         /\ results[c][i] = "unknown_chain" => receipt[c][i] = Unsent
         /\ results[c][i] = "ok" => receipt[c][i]["split"] \in MinedFates

\* Whatever the chains and the other calls do, every relay returns.
EveryRelayReturns == <>(\A c \in Calls : pc[c] = "done")

\* "Record nonce BEFORE fanning out so a bug in an executor can't let the same
\* intent run twice", with seen and record "all within a critical section": a
\* leg of an intent is paid at most once.
PaidAtMostOnce ==
  \A c, d \in Calls :
    c # d /\ IntentOf[c] = IntentOf[d] =>
      \A i \in LegIndexes(c) :
        ~(receipt[c][i]["split"] = "success" /\ receipt[d][i]["split"] = "success")

=============================================================================
