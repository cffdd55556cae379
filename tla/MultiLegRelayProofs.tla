------------------------ MODULE MultiLegRelayProofs ------------------------
(***************************************************************************)
(* Type correctness of MultiLegRelay and its three safety invariants, for  *)
(* any number of concurrent calls, intents, legs and chains.               *)
(*                                                                         *)
(* The invariants speak of what a call has on the chains.  CallInv ties    *)
(* that to where the call is, and InMempool says that the chains have      *)
(* nothing to mine that some call did not send.                            *)
(*                                                                         *)
(* The last section is about PaidAtMostOnce, which fails: it holds when    *)
(* the look into the nonce store and the record in it are one critical     *)
(* section.                                                                *)
(***************************************************************************)
EXTENDS MultiLegRelay, SequenceTheorems, TLAPS

Early == {"start", "seen", "recover", "record"}
Places == Early \cup InLeg \cup {"done"}

\* Before the fan-out nothing is sent and nothing reported.
EarlyInv(c) == pc[c] \in Early => ~Touched(c) /\ results[c] = <<>>

\* What a call has passed to be where it is.
PassedInv(c) ==
  /\ pc[c] \in (Early \ {"start"}) \cup InLeg =>
       startedAt[c] <= DeadlineOf[IntentOf[c]] /\ LegsOfCall(c) # <<>>
  /\ pc[c] \in {"record"} \cup InLeg => c \in WellSigned
  /\ pc[c] \in InLeg => Nonce(c) \in used
  /\ pc[c] \in InLeg \ {"leg"} => Chain(c) # UnknownChain

Authorised(c) ==
  /\ c \in WellSigned
  /\ startedAt[c] <= DeadlineOf[IntentOf[c]]
  /\ Nonce(c) \in used

\* A retry never passes the look into the nonce store.
RetryInv(c) ==
  c \in retries =>
    /\ pc[c] \in {"seen", "done"}
    /\ Nonce(c) \in used
    /\ ~Touched(c) /\ results[c] = <<>>
    /\ pc[c] = "done" => rejection[c] # "none"

ReportInv(c) ==
  /\ Len(results[c]) <= Len(LegsOfCall(c))
  /\ pc[c] = "done" /\ rejection[c] = "none" => Len(results[c]) = Len(LegsOfCall(c))
  /\ \A i \in 1 .. Len(results[c]) :
       /\ results[c][i] = "unknown_chain" <=> LegsOfCall(c)[i].chain = UnknownChain
       /\ results[c][i] = "ok" => receipt[c][i]["split"] \in MinedFates
  /\ \A i \in LegIndexes(c) :
       LegsOfCall(c)[i].chain = UnknownChain => receipt[c][i] = Unsent

CallInv(c) ==
  /\ EarlyInv(c)
  /\ PassedInv(c)
  /\ Touched(c) => Authorised(c)
  /\ RetryInv(c)
  /\ ReportInv(c)

\* A pending transaction pays a leg of its call on this chain.
InMempool(ch, i) ==
  LET t == mempool[ch][i]
  IN  /\ t.leg \in LegIndexes(t.call)
      /\ TransactionLeg(t).chain = ch
      /\ Touched(t.call)

IInv ==
  /\ RelayTypeOK
  /\ receipt = [c \in Calls |-> receipt[c]]
  /\ \A c \in Calls : CallInv(c)
  /\ \A ch \in Executors : \A i \in 1 .. Len(mempool[ch]) : InMempool(ch, i)

-----------------------------------------------------------------------------

\* The constants of a call, for the provers.
LEMMA LegFacts ==
  ASSUME NEW c \in Calls
  PROVE  /\ IntentOf[c] \in Intents
         /\ Nonce(c) \in Nonces
         /\ DeadlineOf[IntentOf[c]] \in Nat
         /\ LegsOfCall(c) \in Seq(Leg)
         /\ Len(LegsOfCall(c)) \in Nat
         /\ \A i \in LegIndexes(c) : LegsOfCall(c)[i] \in Leg
<1>1. IntentOf[c] \in Intents
  BY RelayAssumption
<1>2. LegsOf[IntentOf[c]] \in Seq(Leg)
  BY <1>1, RelayAssumption
<1>3. QED
  BY <1>1, <1>2, RelayAssumption DEF Nonce, LegsOfCall, LegIndexes

\* A leg of which nothing was sent.
LEMMA UnsentFacts ==
  /\ Unsent \in [Kinds -> Fates]
  /\ \A kind \in Kinds : Unsent[kind] = "none"
  BY DEF Unsent, Kinds, Fates

\* No call has started and the chains have nothing to mine.
LEMMA InitIInv == RelayInit => IInv
<1> SUFFICES ASSUME RelayInit PROVE IInv
  OBVIOUS
<1>1. /\ receipt = [c \in Calls |-> [i \in LegIndexes(c) |-> Unsent]]
      /\ \A c \in Calls : pc[c] = "start" /\ results[c] = <<>> /\ rejection[c] = "none"
      /\ retries = {} /\ \A ch \in Executors : mempool[ch] = <<>>
  BY DEF RelayInit
<1>2. RelayTypeOK
  <2>1. \A c \in Calls : receipt[c] \in [LegIndexes(c) -> [Kinds -> Fates]]
    BY <1>1, UnsentFacts
  <2>2. mempool \in [Executors -> Seq([call : Calls, leg : Nat, kind : Kinds])]
    BY DEF RelayInit
  <2>3. results \in [Calls -> Seq(Results)]
    BY DEF RelayInit
  <2>4. balance \in [Executors -> 0 .. RelayerFunds] /\ now \in 0 .. MaxTime
        /\ startedAt \in [Calls -> 0 .. MaxTime] /\ allowance \in [Executors -> Nat]
    BY RelayAssumption DEF RelayInit
  <2>5. /\ pc \in [Calls -> {"start", "seen", "recover", "record", "done"} \cup InLeg]
        /\ rejection \in [Calls -> Rejections] /\ used \subseteq Nonces
        /\ \A c \in Calls : pc[c] \notin InLeg
        /\ retries \subseteq Calls
    BY DEF RelayInit, InLeg, Rejections
  <2> QED
    BY <2>1, <2>2, <2>3, <2>4, <2>5 DEF RelayTypeOK
<1>3. ASSUME NEW c \in Calls PROVE CallInv(c)
  <2>1. ~Touched(c)
    BY <1>1 DEF Touched
  <2>2. Len(results[c]) = 0 /\ Len(LegsOfCall(c)) \in Nat
    BY <1>1, LegFacts
  <2> QED
    BY <1>1, <2>1, <2>2
    DEF CallInv, EarlyInv, PassedInv, RetryInv, ReportInv, Early, InLeg
<1>4. \A ch \in Executors : Len(mempool[ch]) = 0
  BY <1>1
<1>5. QED
  BY <1>1, <1>2, <1>3, <1>4 DEF IInv

-----------------------------------------------------------------------------

\* A call keeps its invariant when none of its own state changes.
LEMMA OtherCalls ==
  ASSUME IInv, NEW d \in Calls,
         pc'[d] = pc[d], results'[d] = results[d], rejection'[d] = rejection[d],
         receipt'[d] = receipt[d], startedAt'[d] = startedAt[d],
         used \subseteq used', d \in retries' <=> d \in retries
  PROVE  CallInv(d)' /\ (Touched(d)' <=> Touched(d))
<1>1. Touched(d)' <=> Touched(d)
  BY DEF Touched
<1>2. CallInv(d)
  BY DEF IInv
<1>3. EarlyInv(d)' /\ RetryInv(d)' /\ (Touched(d) => Authorised(d))'
  BY <1>1, <1>2 DEF CallInv, EarlyInv, RetryInv, Authorised
<1>4. PassedInv(d)'
  BY <1>2 DEF CallInv, PassedInv, Chain, CurrentLeg, Index
<1>5. ReportInv(d)'
  BY <1>2 DEF CallInv, ReportInv
<1> QED
  BY <1>1, <1>3, <1>4, <1>5 DEF CallInv

\* A step of one call, which may send but mines nothing.
LEMMA CallStep ==
  ASSUME IInv, NEW c \in Calls, NEW p \in Places, NEW r \in Seq(Results),
         NEW j \in Rejections, NEW q \in [LegIndexes(c) -> [Kinds -> Fates]],
         NEW s \in 0 .. MaxTime,
         pc' = [pc EXCEPT ![c] = p],
         results' = [results EXCEPT ![c] = r],
         rejection' = [rejection EXCEPT ![c] = j],
         receipt' = [receipt EXCEPT ![c] = q],
         startedAt' = [startedAt EXCEPT ![c] = s],
         p \in InLeg => Len(r) < Len(LegsOfCall(c)),
         used \subseteq used', used' \subseteq Nonces,
         retries \subseteq retries', retries' \subseteq retries \cup {c},
         now' = now, allowance' = allowance, balance' = balance,
         mempool' \in [Executors -> Seq([call : Calls, leg : Nat, kind : Kinds])],
         \A ch \in Executors : \A i \in 1 .. Len(mempool'[ch]) : InMempool(ch, i)',
         CallInv(c)'
  PROVE  IInv'
<1>1. /\ pc'[c] = p /\ results'[c] = r /\ rejection'[c] = j
      /\ receipt'[c] = q /\ startedAt'[c] = s
      /\ \A d \in Calls : d # c =>
           /\ pc'[d] = pc[d] /\ results'[d] = results[d] /\ rejection'[d] = rejection[d]
           /\ receipt'[d] = receipt[d] /\ startedAt'[d] = startedAt[d]
  <2>1. /\ receipt'[c] = q /\ \A d \in Calls : d # c => receipt'[d] = receipt[d]
    <3>1. receipt = [d \in Calls |-> receipt[d]]
      BY DEF IInv
    <3>2. PICK f : f = receipt
      OBVIOUS
    <3>3. DOMAIN f = Calls
      BY <3>1, <3>2
    <3> QED
      BY <3>2, <3>3
  <2> QED
    BY <2>1 DEF IInv, RelayTypeOK
<1>2. receipt' = [d \in Calls |-> receipt'[d]]
  BY DEF IInv
<1>3. RelayTypeOK'
  <2>1. /\ pc' \in [Calls -> {"start", "seen", "recover", "record", "done"} \cup InLeg]
        /\ results' \in [Calls -> Seq(Results)]
        /\ rejection' \in [Calls -> Rejections]
        /\ startedAt' \in [Calls -> 0 .. MaxTime]
    BY DEF IInv, RelayTypeOK, Places, Early
  <2>2. ASSUME NEW d \in Calls
        PROVE  /\ pc'[d] \in InLeg => Len(results'[d]) < Len(LegsOfCall(d))
               /\ receipt'[d] \in [LegIndexes(d) -> [Kinds -> Fates]]
    BY <1>1 DEF IInv, RelayTypeOK
  <2> QED
    BY <2>1, <2>2 DEF IInv, RelayTypeOK
<1>4. \A d \in Calls : d # c => CallInv(d)'
  BY <1>1, OtherCalls
<1> QED
  BY <1>2, <1>3, <1>4 DEF IInv

\* A pending transaction was sent by one of the calls.
LEMMA PendingCall ==
  ASSUME IInv, NEW ch \in Executors, NEW i \in 1 .. Len(mempool[ch])
  PROVE  /\ mempool[ch] \in Seq([call : Calls, leg : Nat, kind : Kinds])
         /\ mempool[ch][i].call \in Calls
         /\ mempool[ch][i].kind \in Kinds
<1>1. mempool[ch] \in Seq([call : Calls, leg : Nat, kind : Kinds])
  BY DEF IInv, RelayTypeOK
<1>2. mempool[ch][i] \in [call : Calls, leg : Nat, kind : Kinds]
  BY <1>1, ElementOfSeq
<1> QED
  BY <1>1, <1>2

\* What is in a mempool stays good as long as nothing is mined and no call
\* loses what it has sent.
LEMMA MempoolKept ==
  ASSUME IInv, mempool' = mempool,
         \A d \in Calls : Touched(d) => Touched(d)'
  PROVE  \A ch \in Executors : \A i \in 1 .. Len(mempool'[ch]) : InMempool(ch, i)'
<1> SUFFICES ASSUME NEW ch \in Executors, NEW i \in 1 .. Len(mempool[ch])
             PROVE  InMempool(ch, i)'
  OBVIOUS
<1>1. InMempool(ch, i)
  BY DEF IInv
<1>2. mempool[ch][i].call \in Calls
  BY PendingCall
<1> QED
  BY <1>1, <1>2 DEF InMempool

\* A step of one call that leaves the chains and the history alone.
LEMMA LocalStep ==
  ASSUME IInv, NEW c \in Calls, NEW p \in Places, NEW r \in Seq(Results),
         NEW j \in Rejections,
         pc' = [pc EXCEPT ![c] = p],
         results' = [results EXCEPT ![c] = r],
         rejection' = [rejection EXCEPT ![c] = j],
         p \in InLeg => Len(r) < Len(LegsOfCall(c)),
         used \subseteq used', used' \subseteq Nonces,
         now' = now, UNCHANGED chainVars, UNCHANGED history,
         CallInv(c)'
  PROVE  IInv'
<1>1. /\ mempool' = mempool /\ receipt' = receipt /\ allowance' = allowance
      /\ balance' = balance /\ startedAt' = startedAt /\ retries' = retries
  BY DEF chainVars, history
<1>2. /\ receipt' = [receipt EXCEPT ![c] = receipt[c]]
      /\ startedAt' = [startedAt EXCEPT ![c] = startedAt[c]]
      /\ receipt[c] \in [LegIndexes(c) -> [Kinds -> Fates]]
      /\ startedAt[c] \in 0 .. MaxTime
  BY <1>1 DEF IInv, RelayTypeOK
<1>3. mempool' \in [Executors -> Seq([call : Calls, leg : Nat, kind : Kinds])]
  BY <1>1 DEF IInv, RelayTypeOK
<1>4. \A ch \in Executors : \A i \in 1 .. Len(mempool'[ch]) : InMempool(ch, i)'
  BY <1>1, MempoolKept DEF Touched
<1> QED
  BY <1>1, <1>2, <1>3, <1>4, CallStep

-----------------------------------------------------------------------------
(* Before the fan-out.                                                     *)

\* A call that is turned away has sent nothing and says why.
LEMMA RejectStep ==
  ASSUME IInv, NEW c \in Calls, NEW reason \in Rejections \ {"none"},
         pc[c] \in Early, RejectCall(c, reason),
         UNCHANGED <<now, used, chainVars, history>>
  PROVE  IInv'
<1>1. /\ pc' = [pc EXCEPT ![c] = "done"] /\ results' = [results EXCEPT ![c] = results[c]]
      /\ rejection' = [rejection EXCEPT ![c] = reason]
      /\ results[c] \in Seq(Results) /\ "done" \in Places /\ "done" \notin InLeg
  BY DEF RejectCall, IInv, RelayTypeOK, Places, InLeg
<1>2. /\ pc'[c] = "done" /\ results'[c] = results[c] /\ rejection'[c] = reason
      /\ receipt' = receipt /\ used' = used /\ retries' = retries /\ startedAt' = startedAt
  BY <1>1 DEF IInv, RelayTypeOK, chainVars, history
<1>3. CallInv(c) /\ ~Touched(c) /\ results[c] = <<>>
  BY DEF IInv, CallInv, EarlyInv
<1>4. CallInv(c)'
  <2>1. ~Touched(c)'
    BY <1>2, <1>3 DEF Touched
  <2>2. "done" \notin Early \cup InLeg
    BY DEF Early, InLeg
  <2>3. RetryInv(c)'
    BY <1>2, <1>3, <2>1 DEF CallInv, RetryInv
  <2>4. ReportInv(c)'
    BY <1>2, <1>3 DEF CallInv, ReportInv
  <2> QED
    BY <1>2, <2>1, <2>2, <2>3, <2>4 DEF CallInv, EarlyInv, PassedInv
<1>5. used' \subseteq Nonces
  BY <1>2 DEF IInv, RelayTypeOK
<1> QED
  BY <1>1, <1>2, <1>4, <1>5, LocalStep

\* A call goes on towards the fan-out.
LEMMA EarlyStep ==
  ASSUME IInv, NEW c \in Calls, NEW p \in {"recover", "record", "leg"},
         pc[c] \in {"seen", "recover", "record"}, Proceed(c, p), c \notin retries,
         p \in {"record", "leg"} => c \in WellSigned,
         p = "leg" => Nonce(c) \in used',
         used \subseteq used', used' \subseteq Nonces,
         UNCHANGED <<now, chainVars, history>>
  PROVE  IInv'
<1>1. /\ pc' = [pc EXCEPT ![c] = p] /\ results' = results /\ rejection' = rejection
      /\ results' = [results EXCEPT ![c] = results[c]]
      /\ rejection' = [rejection EXCEPT ![c] = rejection[c]]
      /\ results[c] \in Seq(Results) /\ rejection[c] \in Rejections
      /\ p \in Places
  BY DEF Proceed, IInv, RelayTypeOK, Places, Early, InLeg
<1>2. /\ pc'[c] = p /\ results'[c] = results[c] /\ rejection'[c] = rejection[c]
      /\ receipt' = receipt /\ retries' = retries /\ startedAt' = startedAt
  BY <1>1 DEF IInv, RelayTypeOK, chainVars, history
<1>3. pc[c] \in Early \ {"start"} /\ p # "done" /\ (p \in InLeg => p = "leg")
  BY DEF Early, InLeg
<1>4. CallInv(c) /\ ~Touched(c) /\ results[c] = <<>>
  BY <1>3 DEF IInv, CallInv, EarlyInv
<1>5. Len(results[c]) = 0 /\ Len(results[c]) < Len(LegsOfCall(c))
  <2>1. LegsOfCall(c) # <<>> /\ LegsOfCall(c) \in Seq(Leg)
    BY <1>3, <1>4, LegFacts DEF CallInv, PassedInv
  <2> QED
    BY <1>4, <2>1, EmptySeq
<1>6. CallInv(c)'
  <2>1. ~Touched(c)'
    BY <1>2, <1>4 DEF Touched
  <2>2. EarlyInv(c)' /\ RetryInv(c)' /\ ReportInv(c)'
    BY <1>2, <1>3, <1>4, <2>1 DEF CallInv, EarlyInv, RetryInv, ReportInv
  <2>3. PassedInv(c)'
    BY <1>2, <1>3, <1>4 DEF CallInv, PassedInv, InLeg, Early
  <2> QED
    BY <2>1, <2>2, <2>3 DEF CallInv
<1> QED
  BY <1>1, <1>5, <1>6, LocalStep

\* The clock and the legs are looked at; a retry is noted.
LEMMA StartIInv ==
  ASSUME IInv, NEW c \in Calls, Start(c)
  PROVE  IInv'
<1>1. PICK p \in {"seen", "done"}, j \in Rejections :
        /\ pc' = [pc EXCEPT ![c] = p] /\ results' = results
        /\ rejection' = [rejection EXCEPT ![c] = j]
        /\ p = "done" => j # "none"
        /\ p = "seen" => LegsOfCall(c) # <<>> /\ now <= DeadlineOf[IntentOf[c]]
  <2>1. CASE \E reason \in {"no_legs", "expired"} : RejectCall(c, reason)
    BY <2>1 DEF RejectCall, Rejections
  <2>2. CASE /\ LegsOfCall(c) # <<>> /\ DeadlineOf[IntentOf[c]] >= now
             /\ Proceed(c, "seen")
    <3>1. rejection[c] \in Rejections /\ rejection' = [rejection EXCEPT ![c] = rejection[c]]
      BY <2>2 DEF Proceed, IInv, RelayTypeOK
    <3>2. now <= DeadlineOf[IntentOf[c]]
      BY <2>2, LegFacts DEF IInv, RelayTypeOK
    <3> QED
      BY <2>2, <3>1, <3>2 DEF Proceed
  <2> QED
    BY <2>1, <2>2 DEF Start
<1>2. /\ pc[c] = "start" /\ startedAt' = [startedAt EXCEPT ![c] = now]
      /\ retries' = IF Nonce(c) \in used THEN retries \cup {c} ELSE retries
      /\ now' = now /\ used' = used /\ mempool' = mempool /\ receipt' = receipt
      /\ allowance' = allowance /\ balance' = balance
  BY DEF Start, chainVars
<1>3. /\ results' = [results EXCEPT ![c] = results[c]] /\ results[c] \in Seq(Results)
      /\ receipt' = [receipt EXCEPT ![c] = receipt[c]]
      /\ receipt[c] \in [LegIndexes(c) -> [Kinds -> Fates]]
      /\ now \in 0 .. MaxTime /\ p \in Places /\ p \notin InLeg
      /\ used' \subseteq Nonces
      /\ mempool' \in [Executors -> Seq([call : Calls, leg : Nat, kind : Kinds])]
  BY <1>1, <1>2 DEF IInv, RelayTypeOK, Places, Early, InLeg
<1>4. /\ pc'[c] = p /\ results'[c] = results[c] /\ rejection'[c] = j
      /\ receipt'[c] = receipt[c] /\ startedAt'[c] = now
  BY <1>1, <1>2 DEF IInv, RelayTypeOK
<1>5. CallInv(c) /\ ~Touched(c) /\ results[c] = <<>> /\ c \notin retries
  BY <1>2 DEF IInv, CallInv, EarlyInv, RetryInv, Early
<1>6. CallInv(c)'
  <2>1. ~Touched(c)'
    BY <1>4, <1>5 DEF Touched
  <2>2. EarlyInv(c)' /\ ReportInv(c)'
    BY <1>1, <1>4, <1>5, <2>1 DEF CallInv, EarlyInv, ReportInv
  <2>3. RetryInv(c)'
    BY <1>1, <1>2, <1>4, <1>5, <2>1 DEF RetryInv
  <2>4. PassedInv(c)'
    BY <1>1, <1>4 DEF PassedInv, InLeg, Early
  <2> QED
    BY <2>1, <2>2, <2>3, <2>4 DEF CallInv
<1>7. \A ch \in Executors : \A i \in 1 .. Len(mempool'[ch]) : InMempool(ch, i)'
  BY <1>2, MempoolKept DEF Touched
<1>8. retries \subseteq retries' /\ retries' \subseteq retries \cup {c}
  BY <1>2
<1> QED
  BY <1>1, <1>2, <1>3, <1>6, <1>7, <1>8, CallStep

\* The look into the nonce store, where a retry ends.
LEMMA SeenIInv ==
  ASSUME IInv, NEW c \in Calls, Seen(c)
  PROVE  IInv'
<1>1. pc[c] = "seen" /\ UNCHANGED <<now, used, chainVars, history>>
  BY DEF Seen
<1>2. CASE RejectCall(c, "replay")
  BY <1>1, <1>2, RejectStep DEF Early, Rejections
<1>3. CASE Nonce(c) \notin used /\ Proceed(c, "recover")
  <2>1. c \notin retries
    BY <1>3 DEF IInv, CallInv, RetryInv
  <2>2. used' = used /\ used' \subseteq Nonces
    BY <1>1 DEF IInv, RelayTypeOK
  <2> QED
    BY <1>1, <1>3, <2>1, <2>2, EarlyStep
<1> QED
  BY <1>2, <1>3 DEF Seen

\* The signature is recovered.
LEMMA RecoverIInv ==
  ASSUME IInv, NEW c \in Calls, Recover(c)
  PROVE  IInv'
<1>1. pc[c] = "recover" /\ UNCHANGED <<now, used, chainVars, history>>
  BY DEF Recover
<1>2. CASE RejectCall(c, "invalid_signature")
  BY <1>1, <1>2, RejectStep DEF Early, Rejections
<1>3. CASE c \in WellSigned /\ Proceed(c, "record")
  <2>1. c \notin retries
    BY <1>1 DEF IInv, CallInv, RetryInv
  <2>2. used' = used /\ used' \subseteq Nonces
    BY <1>1 DEF IInv, RelayTypeOK
  <2> QED
    BY <1>1, <1>3, <2>1, <2>2, EarlyStep
<1> QED
  BY <1>2, <1>3 DEF Recover

\* The nonce is recorded before the fan-out begins.
LEMMA RecordNonceIInv ==
  ASSUME IInv, NEW c \in Calls, RecordNonce(c)
  PROVE  IInv'
<1>1. /\ pc[c] = "record" /\ Proceed(c, "leg") /\ used' = used \cup {Nonce(c)}
      /\ UNCHANGED <<now, chainVars, history>>
  BY DEF RecordNonce
<1>2. c \notin retries /\ c \in WellSigned
  BY <1>1 DEF IInv, CallInv, RetryInv, PassedInv
<1>3. used' \subseteq Nonces
  BY <1>1, LegFacts DEF IInv, RelayTypeOK
<1> QED
  BY <1>1, <1>2, <1>3, EarlyStep

\* The nonce store fails and the relay throws.
LEMMA StoreFailsIInv ==
  ASSUME IInv, NEW c \in Calls, StoreFails(c)
  PROVE  IInv'
  BY RejectStep DEF StoreFails, Early, Rejections

-----------------------------------------------------------------------------
(* The fan-out.                                                            *)

\* What is known of a call in a leg.
LEMMA InLegFacts ==
  ASSUME IInv, NEW c \in Calls, pc[c] \in InLeg
  PROVE  /\ Len(results[c]) \in Nat
         /\ Index(c) = Len(results[c]) + 1
         /\ Index(c) \in LegIndexes(c)
         /\ CurrentLeg(c) \in Leg
         /\ receipt[c] \in [LegIndexes(c) -> [Kinds -> Fates]]
         /\ c \notin retries
         /\ Authorised(c)
<1>1. results[c] \in Seq(Results) /\ Len(results[c]) < Len(LegsOfCall(c))
      /\ receipt[c] \in [LegIndexes(c) -> [Kinds -> Fates]]
  BY DEF IInv, RelayTypeOK
<1>2. Len(results[c]) \in Nat /\ Len(LegsOfCall(c)) \in Nat
  BY <1>1, LegFacts
<1>3. Index(c) \in LegIndexes(c)
  BY <1>1, <1>2 DEF Index, LegIndexes
<1>4. CurrentLeg(c) \in Leg
  BY <1>3, LegFacts DEF CurrentLeg
<1>5. c \notin retries /\ Authorised(c)
  BY DEF IInv, CallInv, RetryInv, PassedInv, Authorised, InLeg
<1> QED
  BY <1>1, <1>2, <1>3, <1>4, <1>5 DEF Index

\* What a step of the fan-out may do to the chains: nothing, or one broadcast.
Sends(c) ==
  \/ UNCHANGED chainVars
  \/ Chain(c) # UnknownChain /\ \E kind \in Kinds : Broadcast(c, kind)

\* The receipts of a call after such a step.
SentReceipts(c, q) ==
  /\ q \in [LegIndexes(c) -> [Kinds -> Fates]]
  /\ receipt' = [receipt EXCEPT ![c] = q]
  /\ receipt'[c] = q
  /\ \A i \in LegIndexes(c) : i # Index(c) => q[i] = receipt[c][i]
  /\ Chain(c) = UnknownChain => q = receipt[c]

\* A broadcast adds one transaction, for the leg the call is in.
LEMMA BroadcastFacts ==
  ASSUME IInv, NEW c \in Calls, pc[c] \in InLeg, Chain(c) # UnknownChain,
         NEW kind \in Kinds, Broadcast(c, kind)
  PROVE  /\ \E q : SentReceipts(c, q)
         /\ mempool' \in [Executors -> Seq([call : Calls, leg : Nat, kind : Kinds])]
         /\ \A ch \in Executors : \A i \in 1 .. Len(mempool'[ch]) : InMempool(ch, i)'
<1>1. PICK index, leg, f :
        /\ index = Index(c) /\ leg = CurrentLeg(c) /\ f = receipt[c]
        /\ index \in LegIndexes(c) /\ leg \in Leg
        /\ f \in [LegIndexes(c) -> [Kinds -> Fates]]
  BY InLegFacts
<1>2. leg.chain \in Executors /\ Chain(c) = leg.chain
  BY <1>1 DEF Leg, Chain
<1> DEFINE q == [f EXCEPT ![index] = [f[index] EXCEPT ![kind] = "pending"]]
<1>3. receipt' = [receipt EXCEPT ![c] = q]
  BY <1>1 DEF Broadcast
<1>4. receipt'[c] = q /\ \A d \in Calls : d # c => receipt'[d] = receipt[d]
  <2>1. receipt = [d \in Calls |-> receipt[d]]
    BY DEF IInv
  <2>2. PICK g : g = receipt
    OBVIOUS
  <2>3. DOMAIN g = Calls
    BY <2>1, <2>2
  <2> HIDE DEF q
  <2> QED
    BY <1>3, <2>2, <2>3
<1>5. q \in [LegIndexes(c) -> [Kinds -> Fates]]
  BY <1>1 DEF Fates
<1>6. q[index][kind] = "pending" /\ \A i \in LegIndexes(c) : i # index => q[i] = f[i]
  BY <1>1
<1>7. SentReceipts(c, q)
  <2> HIDE DEF q
  <2> QED
    BY <1>1, <1>3, <1>4, <1>5, <1>6 DEF SentReceipts
<1>8. Touched(c)'
  <2>1. "pending" # "none"
    OBVIOUS
  <2>2. q[index] # Unsent
    BY <1>6, <2>1, UnsentFacts
  <2> HIDE DEF q
  <2> QED
    BY <1>1, <1>4, <2>2 DEF Touched
<1>9. \A d \in Calls : Touched(d) => Touched(d)'
  <2> HIDE DEF q
  <2> QED
    BY <1>4, <1>8 DEF Touched
<1>10. PICK tx : tx = [call |-> c, leg |-> index, kind |-> kind]
  OBVIOUS
<1>11. tx \in [call : Calls, leg : Nat, kind : Kinds] /\ tx.call = c /\ tx.leg = index
  BY <1>1, <1>10, LegFacts DEF LegIndexes
<1>12. PICK m : m = mempool[leg.chain]
  OBVIOUS
<1>13. /\ m \in Seq([call : Calls, leg : Nat, kind : Kinds])
       /\ mempool' = [mempool EXCEPT ![leg.chain] = Append(m, tx)]
  BY <1>1, <1>2, <1>10, <1>12 DEF Broadcast, IInv, RelayTypeOK
<1>14. /\ Append(m, tx) \in Seq([call : Calls, leg : Nat, kind : Kinds])
       /\ Len(Append(m, tx)) = Len(m) + 1 /\ Len(m) \in Nat
       /\ Append(m, tx)[Len(m) + 1] = tx
       /\ \A i \in 1 .. Len(m) : Append(m, tx)[i] = m[i]
  <2> DEFINE S == [call : Calls, leg : Nat, kind : Kinds]
  <2>1. m \in Seq(S) /\ tx \in S
    BY <1>11, <1>13
  <2> HIDE DEF S
  <2>2. /\ Append(m, tx) \in Seq(S) /\ Len(Append(m, tx)) = Len(m) + 1 /\ Len(m) \in Nat
        /\ Append(m, tx)[Len(m) + 1] = tx
        /\ \A i \in 1 .. Len(m) : Append(m, tx)[i] = m[i]
    BY <2>1, AppendProperties
  <2> QED
    BY <2>2 DEF S
<1>15. /\ mempool'[leg.chain] = Append(m, tx)
       /\ \A ch \in Executors : ch # leg.chain => mempool'[ch] = mempool[ch]
  BY <1>2, <1>13 DEF IInv, RelayTypeOK
<1>16. ASSUME NEW ch \in Executors, NEW i \in 1 .. Len(mempool'[ch])
       PROVE  InMempool(ch, i)'
  <2>1. CASE ch # leg.chain \/ i # Len(m) + 1
    <3>1. i \in 1 .. Len(mempool[ch]) /\ mempool'[ch][i] = mempool[ch][i]
      BY <1>12, <1>14, <1>15, <2>1
    <3>2. InMempool(ch, i) /\ mempool[ch][i].call \in Calls
      BY <3>1, PendingCall DEF IInv
    <3> QED
      BY <1>9, <3>1, <3>2 DEF InMempool
  <2>2. CASE ch = leg.chain /\ i = Len(m) + 1
    <3>1. mempool'[ch][i] = tx
      BY <1>14, <1>15, <2>2
    <3>2. TransactionLeg(tx).chain = ch
      BY <1>1, <1>11, <2>2 DEF TransactionLeg, CurrentLeg
    <3> QED
      BY <1>1, <1>8, <1>11, <3>1, <3>2 DEF InMempool
  <2> QED
    BY <2>1, <2>2
<1>17. mempool' \in [Executors -> Seq([call : Calls, leg : Nat, kind : Kinds])]
  BY <1>2, <1>13, <1>14 DEF IInv, RelayTypeOK
<1> QED
  BY <1>7, <1>16, <1>17

\* A step of a leg leaves the chains alone or broadcasts one transaction.
LEMMA SendsFacts ==
  ASSUME IInv, NEW c \in Calls, pc[c] \in InLeg, Sends(c)
  PROVE  /\ \E q : SentReceipts(c, q)
         /\ mempool' \in [Executors -> Seq([call : Calls, leg : Nat, kind : Kinds])]
         /\ \A ch \in Executors : \A i \in 1 .. Len(mempool'[ch]) : InMempool(ch, i)'
         /\ allowance' = allowance /\ balance' = balance
<1>1. CASE UNCHANGED chainVars
  <2>1. /\ mempool' = mempool /\ receipt' = receipt
        /\ allowance' = allowance /\ balance' = balance
    BY <1>1 DEF chainVars
  <2>2. receipt[c] \in [LegIndexes(c) -> [Kinds -> Fates]]
        /\ receipt' = [receipt EXCEPT ![c] = receipt[c]]
    BY <2>1 DEF IInv, RelayTypeOK
  <2>3. SentReceipts(c, receipt[c])
    BY <2>1, <2>2 DEF SentReceipts
  <2>4. \A ch \in Executors : \A i \in 1 .. Len(mempool'[ch]) : InMempool(ch, i)'
    BY <2>1, MempoolKept DEF Touched
  <2> QED
    BY <2>1, <2>3, <2>4 DEF IInv, RelayTypeOK
<1>2. CASE Chain(c) # UnknownChain /\ \E kind \in Kinds : Broadcast(c, kind)
  BY <1>2, BroadcastFacts DEF Broadcast
<1> QED
  BY <1>1, <1>2 DEF Sends

\* The call goes on within a leg that has an executor.
LEMMA LegStays ==
  ASSUME IInv, NEW c \in Calls, NEW p \in InLeg \ {"leg"}, pc[c] \in InLeg,
         Proceed(c, p), Chain(c) # UnknownChain, Sends(c),
         UNCHANGED <<now, used, history>>
  PROVE  IInv'
<1>1. PICK q : SentReceipts(c, q)
  BY SendsFacts
<1>2. /\ pc' = [pc EXCEPT ![c] = p] /\ results' = results /\ rejection' = rejection
      /\ results' = [results EXCEPT ![c] = results[c]]
      /\ rejection' = [rejection EXCEPT ![c] = rejection[c]]
      /\ startedAt' = startedAt /\ startedAt' = [startedAt EXCEPT ![c] = startedAt[c]]
      /\ results[c] \in Seq(Results) /\ rejection[c] \in Rejections
      /\ startedAt[c] \in 0 .. MaxTime
      /\ retries' = retries /\ used' = used /\ now' = now /\ used' \subseteq Nonces
      /\ p \in Places /\ Len(results[c]) < Len(LegsOfCall(c))
  BY DEF Proceed, IInv, RelayTypeOK, Places, history
<1>3. pc'[c] = p /\ p \notin Early \cup {"start", "record", "done"}
  BY <1>2 DEF IInv, RelayTypeOK, Early, InLeg
<1>4. CallInv(c) /\ Authorised(c) /\ c \notin retries
  BY InLegFacts DEF IInv
<1>5. CallInv(c)'
  <2>1. EarlyInv(c)' /\ RetryInv(c)' /\ Authorised(c)'
    BY <1>2, <1>3, <1>4 DEF EarlyInv, RetryInv, Authorised
  <2>2. PassedInv(c)'
    <3>1. Chain(c)' = Chain(c)
      BY <1>2 DEF Chain, CurrentLeg, Index
    <3>2. LegsOfCall(c) # <<>>
      BY <1>4, InLegFacts DEF CallInv, PassedInv
    <3> QED
      BY <1>2, <1>4, <3>1, <3>2 DEF PassedInv, Authorised
  <2>3. ReportInv(c)'
    <3>1. ASSUME NEW i \in 1 .. Len(results[c]), results[c][i] = "ok"
          PROVE  receipt'[c][i]["split"] \in MinedFates
      <4>1. i \in LegIndexes(c) /\ i # Index(c)
        BY InLegFacts, LegFacts DEF LegIndexes
      <4> QED
        BY <1>1, <1>4, <3>1, <4>1 DEF SentReceipts, CallInv, ReportInv
    <3>2. ASSUME NEW i \in LegIndexes(c), LegsOfCall(c)[i].chain = UnknownChain
          PROVE  receipt'[c][i] = Unsent
      <4>1. i # Index(c)
        BY <3>2 DEF Chain, CurrentLeg
      <4> QED
        BY <1>1, <1>4, <3>2, <4>1 DEF SentReceipts, CallInv, ReportInv
    <3> QED
      BY <1>2, <1>3, <1>4, <3>1, <3>2 DEF CallInv, ReportInv
  <2> QED
    BY <2>1, <2>2, <2>3 DEF CallInv
<1>6. q \in [LegIndexes(c) -> [Kinds -> Fates]] /\ receipt' = [receipt EXCEPT ![c] = q]
  BY <1>1 DEF SentReceipts
<1> QED
  BY <1>2, <1>5, <1>6, SendsFacts, CallStep

\* A leg has its result.
LEMMA LegEnds ==
  ASSUME IInv, NEW c \in Calls, NEW result \in Results, pc[c] \in InLeg,
         EndLeg(c, result), Sends(c),
         result = "unknown_chain" <=> Chain(c) = UnknownChain,
         result = "ok" => UNCHANGED chainVars /\ FateOf(c, "split") \in MinedFates,
         UNCHANGED <<now, used, history>>
  PROVE  IInv'
<1>1. PICK q : SentReceipts(c, q)
  BY SendsFacts
<1>2. PICK index, old : index = Index(c) /\ old = results[c]
  OBVIOUS
<1>3. /\ old \in Seq(Results) /\ Len(old) \in Nat /\ index = Len(old) + 1
      /\ index \in LegIndexes(c) /\ index <= Len(LegsOfCall(c))
      /\ Len(LegsOfCall(c)) \in Nat
  <2>1. results[c] \in Seq(Results)
    BY DEF IInv, RelayTypeOK
  <2>2. Len(LegsOfCall(c)) \in Nat /\ Index(c) \in 1 .. Len(LegsOfCall(c))
    BY InLegFacts, LegFacts DEF LegIndexes
  <2> QED
    BY <1>2, <2>1, <2>2, InLegFacts
<1>4. PICK r, p :
        /\ r = Append(old, result)
        /\ p = IF index = Len(LegsOfCall(c)) THEN "done" ELSE "leg"
  OBVIOUS
<1>5. /\ r \in Seq(Results) /\ Len(r) = index /\ r[index] = result
      /\ \A i \in 1 .. Len(old) : r[i] = old[i]
  BY <1>3, <1>4, AppendProperties
<1>6. /\ pc' = [pc EXCEPT ![c] = p] /\ results' = [results EXCEPT ![c] = r]
      /\ rejection' = rejection
      /\ rejection' = [rejection EXCEPT ![c] = rejection[c]]
      /\ startedAt' = startedAt /\ startedAt' = [startedAt EXCEPT ![c] = startedAt[c]]
      /\ rejection[c] \in Rejections /\ startedAt[c] \in 0 .. MaxTime
      /\ retries' = retries /\ used' = used /\ now' = now /\ used' \subseteq Nonces
  BY <1>2, <1>4 DEF EndLeg, IInv, RelayTypeOK, history
<1>7. /\ pc'[c] = p /\ results'[c] = r /\ p \in Places /\ p \notin Early
      /\ p = "done" => Len(r) = Len(LegsOfCall(c))
      /\ p \in InLeg => p = "leg" /\ Len(r) < Len(LegsOfCall(c))
  BY <1>3, <1>4, <1>5, <1>6 DEF IInv, RelayTypeOK, Places, Early, InLeg
<1>8. CallInv(c) /\ Authorised(c) /\ c \notin retries
  BY InLegFacts DEF IInv
<1>9. CallInv(c)'
  <2>1. EarlyInv(c)' /\ RetryInv(c)' /\ Authorised(c)'
    BY <1>6, <1>7, <1>8 DEF EarlyInv, RetryInv, Authorised
  <2>2. PassedInv(c)'
    <3>1. LegsOfCall(c) # <<>>
      BY <1>8, InLegFacts DEF CallInv, PassedInv
    <3> QED
      BY <1>6, <1>7, <1>8, <3>1 DEF PassedInv, Authorised
  <2>3. ReportInv(c)'
    <3>1. ASSUME NEW i \in 1 .. Len(r)
          PROVE  /\ r[i] = "unknown_chain" <=> LegsOfCall(c)[i].chain = UnknownChain
                 /\ r[i] = "ok" => receipt'[c][i]["split"] \in MinedFates
      <4>1. CASE i = index
        <5>1. LegsOfCall(c)[i].chain = Chain(c)
          BY <1>2, <4>1 DEF Chain, CurrentLeg
        <5>2. result = "ok" => receipt'[c][i]["split"] \in MinedFates
          BY <1>2, <4>1 DEF FateOf, chainVars
        <5> QED
          BY <1>5, <4>1, <5>1, <5>2
      <4>2. CASE i # index
        <5>1. i \in 1 .. Len(old) /\ i \in LegIndexes(c)
          BY <1>3, <1>5, <4>2 DEF LegIndexes
        <5> QED
          BY <1>1, <1>2, <1>5, <1>8, <4>2, <5>1 DEF SentReceipts, CallInv, ReportInv
      <4> QED
        BY <4>1, <4>2
    <3>2. ASSUME NEW i \in LegIndexes(c), LegsOfCall(c)[i].chain = UnknownChain
          PROVE  receipt'[c][i] = Unsent
      <4>1. i # Index(c) \/ Chain(c) = UnknownChain
        BY <3>2 DEF Chain, CurrentLeg
      <4> QED
        BY <1>1, <1>8, <3>2, <4>1 DEF SentReceipts, CallInv, ReportInv
    <3>3. Len(r) <= Len(LegsOfCall(c))
      BY <1>3, <1>5
    <3> QED
      BY <1>7, <3>1, <3>2, <3>3 DEF ReportInv
  <2> QED
    BY <2>1, <2>2, <2>3 DEF CallInv
<1>10. q \in [LegIndexes(c) -> [Kinds -> Fates]] /\ receipt' = [receipt EXCEPT ![c] = q]
  BY <1>1 DEF SentReceipts
<1> QED
  BY <1>5, <1>6, <1>7, <1>9, <1>10, SendsFacts, CallStep

\* The steps of a leg, each of them an end or a going on.
LEMMA LegIInv ==
  ASSUME IInv, NEW c \in Calls,
         \/ NoExecutor(c) \/ ReadAllowance(c)
         \/ Approve(c) \/ ApprovalMined(c) \/ SimulateSplit(c) \/ SendSplit(c)
         \/ SplitMined(c) \/ LegFails(c)
  PROVE  IInv'
<1>1. pc[c] \in InLeg /\ UNCHANGED <<now, used, history>>
  BY DEF NoExecutor, ReadAllowance, Approve, ApprovalMined, SimulateSplit, SendSplit,
         SplitMined, LegFails, InLeg
<1>2. pc[c] # "leg" => Chain(c) # UnknownChain
  BY <1>1 DEF IInv, CallInv, PassedInv
<1>3. {"approval", "split"} \subseteq Kinds
  BY DEF Kinds
<1>4. CASE NoExecutor(c)
  <2>1. Sends(c) /\ "unknown_chain" \in Results
    BY <1>4 DEF NoExecutor, Sends, Results
  <2> QED
    BY <1>1, <1>4, <2>1, LegEnds DEF NoExecutor
<1>5. CASE ReadAllowance(c)
  <2>1. Sends(c) /\ {"approve", "split"} \subseteq InLeg \ {"leg"}
    BY <1>5 DEF ReadAllowance, Sends, InLeg
  <2> QED
    BY <1>1, <1>5, <2>1, LegStays DEF ReadAllowance
<1>6. CASE Approve(c)
  <2>1. Sends(c) /\ "approving" \in InLeg \ {"leg"}
    BY <1>2, <1>3, <1>6 DEF Approve, Sends, InLeg
  <2> QED
    BY <1>1, <1>2, <1>6, <2>1, LegStays DEF Approve
<1>7. CASE ApprovalMined(c)
  <2>1. Sends(c) /\ "split" \in InLeg \ {"leg"}
    BY <1>7 DEF ApprovalMined, Sends, InLeg
  <2> QED
    BY <1>1, <1>2, <1>7, <2>1, LegStays DEF ApprovalMined
<1>8. CASE SimulateSplit(c)
  <2>1. Sends(c) /\ "send" \in InLeg \ {"leg"}
    BY <1>8 DEF SimulateSplit, Sends, InLeg
  <2> QED
    BY <1>1, <1>2, <1>8, <2>1, LegStays DEF SimulateSplit
<1>9. CASE SendSplit(c)
  <2>1. Sends(c) /\ "sent" \in InLeg \ {"leg"}
    BY <1>2, <1>3, <1>9 DEF SendSplit, Sends, InLeg
  <2> QED
    BY <1>1, <1>2, <1>9, <2>1, LegStays DEF SendSplit
<1>10. CASE SplitMined(c)
  <2>1. Sends(c) /\ "ok" \in Results /\ pc[c] = "sent"
    BY <1>10 DEF SplitMined, Sends, Results
  <2> QED
    BY <1>1, <1>2, <1>10, <2>1, LegEnds DEF SplitMined
<1>11. CASE LegFails(c)
  <2>1. Sends(c) /\ "failed" \in Results
    BY <1>3, <1>11 DEF LegFails, Sends, Results
  <2> QED
    BY <1>1, <1>11, <2>1, LegEnds DEF LegFails
<1> QED
  BY <1>4, <1>5, <1>6, <1>7, <1>8, <1>9, <1>10, <1>11

-----------------------------------------------------------------------------
(* The chains.                                                             *)

\* A transaction is mined: its leg has a receipt, whatever became of the call.
LEMMA ConfirmIInv ==
  ASSUME IInv, NEW ch \in Executors, NEW fate \in MinedFates, mempool[ch] # <<>>,
         Confirm(ch, fate),
         allowance' \in [Executors -> Nat], balance' \in [Executors -> 0 .. RelayerFunds]
  PROVE  IInv'
<1>1. PICK m, tx : m = mempool[ch] /\ tx = Head(m)
  OBVIOUS
<1>2. /\ m \in Seq([call : Calls, leg : Nat, kind : Kinds])
      /\ tx \in [call : Calls, leg : Nat, kind : Kinds]
      /\ tx = m[1] /\ Len(m) \in Nat /\ 1 <= Len(m)
      /\ Tail(m) \in Seq([call : Calls, leg : Nat, kind : Kinds])
      /\ Len(Tail(m)) = Len(m) - 1
      /\ \A i \in 1 .. Len(Tail(m)) : Tail(m)[i] = m[i + 1]
  <2> DEFINE S == [call : Calls, leg : Nat, kind : Kinds]
  <2>1. m \in Seq(S) /\ m # <<>> /\ tx = Head(m)
    BY <1>1 DEF IInv, RelayTypeOK
  <2> HIDE DEF S
  <2>2. /\ tx \in S /\ tx = m[1] /\ Len(m) \in Nat /\ 1 <= Len(m)
        /\ Tail(m) \in Seq(S) /\ Len(Tail(m)) = Len(m) - 1
        /\ \A i \in 1 .. Len(Tail(m)) : Tail(m)[i] = m[i + 1]
    BY <2>1, HeadTailProperties, LenProperties, EmptySeq
  <2> QED
    BY <2>1, <2>2 DEF S
<1>3. PICK c \in Calls, leg \in Nat, kind \in Kinds :
        c = tx.call /\ leg = tx.leg /\ kind = tx.kind
  <2>1. tx.call \in Calls /\ tx.leg \in Nat /\ tx.kind \in Kinds
    BY <1>2
  <2> QED
    BY <2>1
<1>4. /\ leg \in LegIndexes(c) /\ LegsOfCall(c)[leg].chain = ch /\ Touched(c)
  <2>1. InMempool(ch, 1)
    BY <1>1, <1>2 DEF IInv
  <2> QED
    BY <1>1, <1>2, <1>3, <2>1 DEF InMempool, TransactionLeg
<1>5. /\ mempool' = [mempool EXCEPT ![ch] = Tail(m)]
      /\ receipt' = [receipt EXCEPT ![c][leg][kind] = fate]
      /\ UNCHANGED <<now, used, callVars, history>>
  BY <1>1, <1>3 DEF Confirm
<1>6. PICK f : f = receipt[c] /\ f \in [LegIndexes(c) -> [Kinds -> Fates]]
  BY DEF IInv, RelayTypeOK
<1> DEFINE q == [f EXCEPT ![leg] = [f[leg] EXCEPT ![kind] = fate]]
<1>7. /\ receipt' = [d \in Calls |-> receipt'[d]]
      /\ receipt'[c] = q /\ \A d \in Calls : d # c => receipt'[d] = receipt[d]
  <2>1. receipt = [d \in Calls |-> receipt[d]]
    BY DEF IInv
  <2>2. PICK g : g = receipt
    OBVIOUS
  <2>3. g = [d \in Calls |-> g[d]] /\ receipt' = [g EXCEPT ![c] = q]
    BY <1>5, <1>6, <2>1, <2>2
  <2> HIDE DEF q
  <2> QED
    BY <2>2, <2>3
<1>8. /\ q \in [LegIndexes(c) -> [Kinds -> Fates]]
      /\ q[leg][kind] = fate
      /\ \A i \in LegIndexes(c) : i # leg => q[i] = f[i]
      /\ \A k \in Kinds : q[leg][k] \in {f[leg][k], fate}
  BY <1>4, <1>6 DEF MinedFates, Fates
<1> HIDE DEF q
<1>9. fate # "none"
  BY DEF MinedFates
<1>10. Touched(c)'
  BY <1>4, <1>7, <1>8, <1>9, UnsentFacts DEF Touched
<1>11. \A d \in Calls : Touched(d) => Touched(d)'
  BY <1>7, <1>10 DEF Touched
<1>12. /\ pc' = pc /\ results' = results /\ rejection' = rejection
       /\ startedAt' = startedAt /\ retries' = retries /\ used' = used /\ now' = now
  BY <1>5 DEF callVars, history
<1>13. CallInv(c)'
  <2>1. CallInv(c) /\ pc[c] \notin Early /\ Authorised(c) /\ c \notin retries
    BY <1>4 DEF IInv, CallInv, EarlyInv, RetryInv
  <2>2. PassedInv(c)'
    BY <1>12, <2>1 DEF CallInv, PassedInv, Chain, CurrentLeg, Index
  <2>3. ReportInv(c)'
    <3>1. ASSUME NEW i \in 1 .. Len(results[c]), results[c][i] = "ok"
          PROVE  q[i]["split"] \in MinedFates
      <4>1. f[i]["split"] \in MinedFates
        BY <1>6, <2>1, <3>1 DEF CallInv, ReportInv
      <4>2. i \in LegIndexes(c)
        <5>1. results[c] \in Seq(Results) /\ Len(results[c]) <= Len(LegsOfCall(c))
          BY <2>1 DEF CallInv, ReportInv, IInv, RelayTypeOK
        <5>2. Len(results[c]) \in Nat
          BY <5>1
        <5> QED
          BY <5>1, <5>2, LegFacts DEF LegIndexes
      <4> QED
        BY <1>8, <4>1, <4>2 DEF Kinds
    <3>2. ASSUME NEW i \in LegIndexes(c), LegsOfCall(c)[i].chain = UnknownChain
          PROVE  q[i] = Unsent
      <4>1. i # leg
        BY <1>4, <3>2, RelayAssumption
      <4> QED
        BY <1>6, <1>8, <2>1, <3>2, <4>1 DEF CallInv, ReportInv
    <3> QED
      BY <1>7, <1>12, <2>1, <3>1, <3>2 DEF CallInv, ReportInv
  <2> QED
    BY <1>12, <2>1, <2>2, <2>3 DEF CallInv, EarlyInv, RetryInv, Authorised
<1>14. \A d \in Calls : CallInv(d)'
  BY <1>7, <1>12, <1>13, OtherCalls
<1>15. mempool' \in [Executors -> Seq([call : Calls, leg : Nat, kind : Kinds])]
  BY <1>2, <1>5 DEF IInv, RelayTypeOK
<1>16. RelayTypeOK'
  <2>1. \A d \in Calls : receipt'[d] \in [LegIndexes(d) -> [Kinds -> Fates]]
    BY <1>7, <1>8 DEF IInv, RelayTypeOK
  <2> QED
    BY <1>12, <1>15, <2>1 DEF IInv, RelayTypeOK
<1>17. ASSUME NEW h \in Executors, NEW i \in 1 .. Len(mempool'[h])
       PROVE  InMempool(h, i)'
  <2>1. CASE h = ch
    <3>1. mempool'[h] = Tail(m)
      BY <1>5, <2>1 DEF IInv, RelayTypeOK
    <3>2. i + 1 \in 1 .. Len(mempool[h]) /\ mempool'[h][i] = mempool[h][i + 1]
      BY <1>1, <1>2, <2>1, <3>1
    <3>3. InMempool(h, i + 1) /\ mempool[h][i + 1].call \in Calls
      BY <3>2, PendingCall DEF IInv
    <3> QED
      BY <1>11, <3>2, <3>3 DEF InMempool
  <2>2. CASE h # ch
    <3>1. mempool'[h] = mempool[h]
      BY <1>5, <2>2 DEF IInv, RelayTypeOK
    <3>2. InMempool(h, i) /\ mempool[h][i].call \in Calls
      BY <3>1, PendingCall DEF IInv
    <3> QED
      BY <1>11, <3>1, <3>2 DEF InMempool
  <2> QED
    BY <2>1, <2>2
<1> QED
  BY <1>7, <1>14, <1>16, <1>17 DEF IInv

\* The chain decides whether the first pending transaction takes effect.
LEMMA MineIInv ==
  ASSUME IInv, NEW ch \in Executors, MineApproval(ch) \/ MineSplit(ch)
  PROVE  IInv'
<1>1. PICK leg : leg = TransactionLeg(Head(mempool[ch]))
  OBVIOUS
<1>2. mempool[ch] # <<>> /\ leg.amount \in Nat /\ leg.chain = ch
  <2>1. mempool[ch] # <<>>
    BY DEF MineApproval, MineSplit
  <2>2. mempool[ch] \in Seq([call : Calls, leg : Nat, kind : Kinds])
    BY DEF IInv, RelayTypeOK
  <2>3. 1 \in 1 .. Len(mempool[ch]) /\ Head(mempool[ch]) = mempool[ch][1]
    BY <2>1, <2>2, EmptySeq
  <2>4. InMempool(ch, 1) /\ mempool[ch][1].call \in Calls
    BY <2>3, PendingCall DEF IInv
  <2>5. leg \in Leg
    BY <1>1, <2>3, <2>4, LegFacts DEF InMempool, TransactionLeg
  <2> QED
    BY <1>1, <2>1, <2>3, <2>4, <2>5 DEF InMempool, Leg
<1>3. CASE MineApproval(ch)
  <2>1. allowance' = [allowance EXCEPT ![ch] = leg.amount] /\ balance' = balance
        /\ Confirm(ch, "success")
    BY <1>1, <1>3 DEF MineApproval
  <2>2. allowance' \in [Executors -> Nat] /\ balance' \in [Executors -> 0 .. RelayerFunds]
    BY <1>2, <2>1 DEF IInv, RelayTypeOK
  <2> QED
    BY <1>2, <2>1, <2>2, ConfirmIInv DEF MinedFates
<1>4. CASE MineSplit(ch)
  <2>1. CASE SplitWorks(leg)
    <3>1. /\ allowance' = [allowance EXCEPT ![ch] = @ - leg.amount]
          /\ balance' = [balance EXCEPT ![ch] = @ - leg.amount]
          /\ Confirm(ch, "success")
      BY <1>1, <1>4, <2>1 DEF MineSplit
    <3>2. leg.amount <= allowance[ch] /\ leg.amount <= balance[ch]
      BY <1>2, <2>1 DEF SplitWorks
    <3>3. /\ allowance[ch] - leg.amount \in Nat
          /\ balance[ch] - leg.amount \in 0 .. RelayerFunds
      <4>1. PICK a, b, amount : a = allowance[ch] /\ b = balance[ch] /\ amount = leg.amount
        OBVIOUS
      <4>2. a \in Nat /\ b \in 0 .. RelayerFunds /\ RelayerFunds \in Nat /\ amount \in Nat
        BY <1>2, <4>1, RelayAssumption DEF IInv, RelayTypeOK
      <4>3. amount <= a /\ amount <= b
        BY <3>2, <4>1
      <4>4. a - amount \in Nat /\ b - amount \in 0 .. RelayerFunds
        BY <4>2, <4>3
      <4> QED
        BY <4>1, <4>4
    <3>4. allowance' \in [Executors -> Nat] /\ balance' \in [Executors -> 0 .. RelayerFunds]
      BY <3>1, <3>3 DEF IInv, RelayTypeOK
    <3> QED
      BY <1>2, <3>1, <3>4, ConfirmIInv DEF MinedFates
  <2>2. CASE ~SplitWorks(leg)
    <3>1. UNCHANGED <<allowance, balance>> /\ Confirm(ch, "reverted")
      BY <1>1, <1>4, <2>2 DEF MineSplit
    <3>2. allowance' \in [Executors -> Nat] /\ balance' \in [Executors -> 0 .. RelayerFunds]
      BY <3>1 DEF IInv, RelayTypeOK
    <3> QED
      BY <1>2, <3>1, <3>2, ConfirmIInv DEF MinedFates
  <2> QED
    BY <2>1, <2>2
<1> QED
  BY <1>3, <1>4

\* Steps that touch no call and no chain.
LEMMA IdleIInv ==
  ASSUME IInv, Tick \/ UNCHANGED relayVars
  PROVE  IInv'
<1>1. /\ pc' = pc /\ results' = results /\ rejection' = rejection /\ used' = used
      /\ mempool' = mempool /\ receipt' = receipt /\ allowance' = allowance
      /\ balance' = balance /\ startedAt' = startedAt /\ retries' = retries
  BY DEF Tick, relayVars, callVars, chainVars, history
<1>2. now' \in 0 .. MaxTime
  BY RelayAssumption DEF Tick, relayVars, IInv, RelayTypeOK
<1>3. RelayTypeOK'
  BY <1>1, <1>2 DEF IInv, RelayTypeOK
<1>4. \A c \in Calls : CallInv(c)'
  BY <1>1, OtherCalls
<1>5. \A ch \in Executors : \A i \in 1 .. Len(mempool'[ch]) : InMempool(ch, i)'
  BY <1>1, MempoolKept DEF Touched
<1> QED
  BY <1>1, <1>3, <1>4, <1>5 DEF IInv

\* The inductive step, one case per action.
LEMMA StepIInv == IInv /\ [RelayNext]_relayVars => IInv'
<1> SUFFICES ASSUME IInv, [RelayNext]_relayVars PROVE IInv'
  OBVIOUS
<1>1. ASSUME NEW c \in Calls, Step(c) PROVE IInv'
  BY <1>1, StartIInv, SeenIInv, RecoverIInv, RecordNonceIInv, StoreFailsIInv, LegIInv
  DEF Step
<1>2. ASSUME NEW ch \in Executors, MineApproval(ch) \/ MineSplit(ch) PROVE IInv'
  BY <1>2, MineIInv
<1>3. CASE Tick \/ UNCHANGED relayVars
  BY <1>3, IdleIInv
<1> QED
  BY <1>1, <1>2, <1>3 DEF RelayNext

-----------------------------------------------------------------------------

\* What a call has on the chains and in its report agrees with where it is, in
\* every reachable state: IInv is inductive.
THEOREM RelayInductive == RelaySpec => []IInv
  BY InitIInv, StepIInv, PTL DEF RelaySpec

\* The state of the relay keeps its types, and a call that is in a leg has legs
\* without a result left.
THEOREM RelayTypeCorrect == RelaySpec => []RelayTypeOK
<1>1. IInv => RelayTypeOK
  BY DEF IInv
<1> QED
  BY RelayInductive, <1>1, PTL

\* No transaction of a call exists, not even an approval, unless the intent was
\* signed and not expired, and its nonce is in the store: relayPaymentIntent
\* returns or throws early otherwise, and records the nonce before the fan-out.
THEOREM RelaySubmittedIsAuthorised == RelaySpec => []SubmittedIsAuthorised
<1>1. IInv => SubmittedIsAuthorised
  BY DEF IInv, CallInv, Authorised, SubmittedIsAuthorised
<1> QED
  BY RelayInductive, <1>1, PTL

\* A call of relayPaymentIntent that begins when its nonce is recorded runs no
\* leg and is rejected, whatever became of the call that recorded it.
THEOREM RelayRetryIsRefused == RelaySpec => []RetryIsRefused
<1>1. IInv => RetryIsRefused
  <2> SUFFICES ASSUME IInv, NEW c \in retries
               PROVE  /\ ~Touched(c) /\ results[c] = <<>>
                      /\ pc[c] = "done" => rejection[c] # "none"
    BY DEF RetryIsRefused
  <2>1. c \in Calls
    BY DEF IInv, RelayTypeOK
  <2> QED
    BY <2>1 DEF IInv, CallInv, RetryInv
<1> QED
  BY RelayInductive, <1>1, PTL

\* A call that was not rejected reports a result for every leg, in order, and
\* the result says what was sent: the loop over the legs goes on after a failure.
THEOREM RelayEveryLegIsReported == RelaySpec => []EveryLegIsReported
<1>1. IInv => EveryLegIsReported
  <2> SUFFICES ASSUME IInv, NEW c \in Calls
               PROVE  /\ pc[c] = "done" /\ rejection[c] = "none" =>
                           Len(results[c]) = Len(LegsOfCall(c))
                      /\ \A i \in 1 .. Len(results[c]) :
                           /\ results[c][i] = "unknown_chain"
                                <=> LegsOfCall(c)[i].chain = UnknownChain
                           /\ results[c][i] = "unknown_chain" => receipt[c][i] = Unsent
                           /\ results[c][i] = "ok" => receipt[c][i]["split"] \in MinedFates
    BY DEF EveryLegIsReported
  <2>1. ReportInv(c)
    BY DEF IInv, CallInv
  <2>2. results[c] \in Seq(Results)
    BY DEF IInv, RelayTypeOK
  <2>3. Len(results[c]) \in Nat /\ Len(LegsOfCall(c)) \in Nat
    BY <2>2, LegFacts
  <2>4. \A i \in 1 .. Len(results[c]) : i \in LegIndexes(c)
    BY <2>1, <2>3 DEF ReportInv, LegIndexes
  <2> QED
    BY <2>1, <2>4 DEF ReportInv
<1> QED
  BY RelayInductive, <1>1, PTL

-----------------------------------------------------------------------------
(* One relay of an intent, when the look into the nonce store and the      *)
(* record are in one critical section.                                     *)

\* "The relayer asks seen before fanning out and record after verification
\* succeeds, all within a critical section" (multi-leg-relay.ts:83): no two calls
\* of a nonce are between the two at a time.
Checking(c) == pc[c] \in {"recover", "record"}

CriticalSection ==
  \A c, d \in Calls : c # d /\ Nonce(c) = Nonce(d) => ~(Checking(c) /\ Checking(d))

\* Of the calls of a nonce, the one that has fanned out is alone past the look
\* into the store.
FannedOut(c) == pc[c] \in InLeg \/ Touched(c)

OneFansOut ==
  \A c, d \in Calls :
    c # d /\ Nonce(c) = Nonce(d) /\ FannedOut(c) => ~FannedOut(d) /\ ~Checking(d)

\* A call that has fanned out has its nonce in the store.
LEMMA FannedOutIsUsed ==
  ASSUME IInv, NEW c \in Calls, FannedOut(c)
  PROVE  Nonce(c) \in used
  BY DEF IInv, CallInv, PassedInv, Authorised, FannedOut

\* A step of a call is no step of another one.
LEMMA OnlyItsCall ==
  ASSUME IInv, NEW c \in Calls, Step(c), NEW d \in Calls, d # c
  PROVE  pc'[d] = pc[d] /\ (Touched(d)' <=> Touched(d))
<1>1. \E p : pc' = [pc EXCEPT ![c] = p]
  BY DEF Step, Start, Seen, Recover, RecordNonce, StoreFails, NoExecutor, ReadAllowance,
         Approve, ApprovalMined, SimulateSplit, SendSplit, SplitMined, LegFails,
         RejectCall, Proceed, EndLeg
<1>2. receipt' = receipt \/ \E kind \in Kinds : Broadcast(c, kind)
  BY DEF Step, Start, Seen, Recover, RecordNonce, StoreFails, NoExecutor, ReadAllowance,
         Approve, ApprovalMined, SimulateSplit, SendSplit, SplitMined, LegFails,
         chainVars, Kinds
<1>3. receipt'[d] = receipt[d]
  <2>1. CASE receipt' = receipt
    BY <2>1
  <2>2. CASE \E kind \in Kinds : Broadcast(c, kind)
    <3>1. PICK q : receipt' = [receipt EXCEPT ![c] = q]
      BY <2>2 DEF Broadcast
    <3>2. PICK g : g = receipt
      OBVIOUS
    <3>3. g = [e \in Calls |-> g[e]]
      BY <3>2 DEF IInv
    <3> QED
      BY <3>1, <3>2, <3>3
  <2> QED
    BY <1>2, <2>1, <2>2
<1> QED
  BY <1>1, <1>3 DEF IInv, RelayTypeOK, Touched

\* A call fans out by recording its nonce, and passes the look into the store
\* only when its nonce is not recorded.
LEMMA WhoFansOut ==
  ASSUME IInv, NEW c \in Calls, Step(c)
  PROVE  /\ FannedOut(c)' => FannedOut(c) \/ RecordNonce(c)
         /\ Checking(c)' => Checking(c) \/ (Seen(c) /\ Nonce(c) \notin used)
<1>1. PICK p : p = pc[c]
  OBVIOUS
<1>2. CASE p \in InLeg
  <2>1. FannedOut(c)
    BY <1>1, <1>2 DEF FannedOut
  <2>2. ~Checking(c)'
    <3>1. \E r \in InLeg \cup {"done"} : pc' = [pc EXCEPT ![c] = r]
      BY <1>1, <1>2 DEF Step, Start, Seen, Recover, RecordNonce, StoreFails, NoExecutor,
         ReadAllowance, Approve, ApprovalMined, SimulateSplit, SendSplit, SplitMined,
         LegFails, Proceed, EndLeg, InLeg
    <3> QED
      BY <3>1 DEF IInv, RelayTypeOK, Checking, InLeg
  <2> QED
    BY <2>1, <2>2
<1>3. CASE p \notin InLeg
  <2>1. Start(c) \/ Seen(c) \/ Recover(c) \/ RecordNonce(c) \/ StoreFails(c)
    BY <1>1, <1>3 DEF Step, NoExecutor, ReadAllowance, Approve, ApprovalMined,
       SimulateSplit, SendSplit, SplitMined, LegFails, InLeg
  <2>2. receipt' = receipt
    BY <2>1 DEF Start, Seen, Recover, RecordNonce, StoreFails, chainVars
  <2>3. Touched(c)' <=> Touched(c)
    BY <2>2 DEF Touched
  <2>4. CASE RecordNonce(c)
    BY <2>4 DEF RecordNonce, Checking
  <2>5. CASE Start(c) \/ Seen(c) \/ Recover(c) \/ StoreFails(c)
    <3>1. /\ pc'[c] \in {"seen", "recover", "record", "done"}
          /\ pc'[c] = "record" => Recover(c)
          /\ pc'[c] = "recover" => Seen(c) /\ Nonce(c) \notin used
      BY <2>5 DEF Start, Seen, Recover, StoreFails, RejectCall, Proceed, IInv, RelayTypeOK
    <3>2. Recover(c) => Checking(c)
      BY DEF Recover, Checking
    <3> QED
      BY <2>3, <3>1, <3>2 DEF FannedOut, Checking, InLeg
  <2> QED
    BY <2>1, <2>4, <2>5
<1> QED
  BY <1>2, <1>3

\* A transaction that is mined was sent by a call that has fanned out.
LEMMA MiningFansNobodyOut ==
  ASSUME IInv, NEW ch \in Executors, MineApproval(ch) \/ MineSplit(ch), NEW c \in Calls
  PROVE  pc'[c] = pc[c] /\ (Touched(c)' => Touched(c))
<1>1. PICK tx, fate :
        /\ tx = Head(mempool[ch]) /\ mempool[ch] # <<>> /\ pc' = pc
        /\ receipt' = [receipt EXCEPT ![tx.call][tx.leg][tx.kind] = fate]
  BY DEF MineApproval, MineSplit, Confirm, callVars
<1>2. tx.call \in Calls /\ Touched(tx.call)
  <2>1. mempool[ch] \in Seq([call : Calls, leg : Nat, kind : Kinds])
    BY DEF IInv, RelayTypeOK
  <2>2. 1 \in 1 .. Len(mempool[ch]) /\ tx = mempool[ch][1]
    BY <1>1, <2>1, EmptySeq
  <2> QED
    BY <2>2, PendingCall DEF IInv, InMempool
<1>3. c # tx.call => receipt'[c] = receipt[c]
  <2>1. PICK q, who : receipt' = [receipt EXCEPT ![who] = q] /\ who = tx.call
    BY <1>1
  <2>2. PICK g : g = receipt
    OBVIOUS
  <2>3. g = [e \in Calls |-> g[e]]
    BY <2>2 DEF IInv
  <2> QED
    BY <2>1, <2>2, <2>3
<1> QED
  BY <1>1, <1>2, <1>3 DEF Touched

\* Inductive as long as the critical section is kept.
LEMMA OneFansOutStep ==
  ASSUME IInv, OneFansOut, CriticalSection, [RelayNext]_relayVars
  PROVE  OneFansOut'
<1> SUFFICES ASSUME NEW c \in Calls, NEW d \in Calls, c # d, Nonce(c) = Nonce(d),
                    FannedOut(c)', FannedOut(d)' \/ Checking(d)'
             PROVE  FALSE
  BY DEF OneFansOut, Nonce
<1>1. CASE Step(c)
  <2>1. FannedOut(d) \/ Checking(d)
    BY <1>1, OnlyItsCall DEF FannedOut, Checking
  <2>2. RecordNonce(c)
    BY <1>1, <2>1, WhoFansOut DEF OneFansOut
  <2>3. Checking(c)
    BY <2>2 DEF RecordNonce, Checking
  <2> QED
    BY <2>1, <2>3 DEF OneFansOut, CriticalSection
<1>2. CASE Step(d)
  <2>1. FannedOut(c)
    BY <1>2, OnlyItsCall DEF FannedOut
  <2>2. Nonce(d) \in used
    BY <2>1, FannedOutIsUsed
  <2>3. FannedOut(d) \/ RecordNonce(d) \/ Checking(d)
    BY <1>2, <2>2, WhoFansOut
  <2>4. RecordNonce(d) => Checking(d)
    BY DEF RecordNonce, Checking
  <2> QED
    BY <2>1, <2>3, <2>4 DEF OneFansOut
<1>3. CASE \/ \E e \in Calls : Step(e) /\ e # c /\ e # d
           \/ \E ch \in Executors : MineApproval(ch) \/ MineSplit(ch)
           \/ Tick \/ UNCHANGED relayVars
  <2>1. ASSUME NEW e \in {c, d}
        PROVE  pc'[e] = pc[e] /\ (Touched(e)' => Touched(e))
    BY <1>3, <2>1, OnlyItsCall, MiningFansNobodyOut
    DEF Tick, relayVars, callVars, chainVars, Touched
  <2>2. FannedOut(c) /\ (FannedOut(d) \/ Checking(d))
    BY <2>1 DEF FannedOut, Checking
  <2> QED
    BY <2>2 DEF OneFansOut
<1> QED
  BY <1>1, <1>2, <1>3 DEF RelayNext

\* "So a bug in an executor can't let the same intent run twice": a leg is paid at
\* most once by the relays of an intent, as long as the look into the nonce store
\* and the record are the critical section the comment speaks of.  The code has
\* none, and without one the run `relay_twice' pays twice.
THEOREM RelayPaysOnceInCriticalSection == RelaySpec /\ []CriticalSection => []PaidAtMostOnce
<1>1. RelayInit => OneFansOut
  <2> SUFFICES ASSUME RelayInit, NEW c \in Calls PROVE ~FannedOut(c)
    BY DEF OneFansOut
  <2>1. pc[c] = "start" /\ IInv
    BY InitIInv DEF RelayInit
  <2> QED
    BY <2>1 DEF IInv, CallInv, EarlyInv, Early, FannedOut, InLeg
<1>2. IInv /\ OneFansOut => PaidAtMostOnce
  <2> SUFFICES ASSUME IInv, OneFansOut, NEW c \in Calls, NEW d \in Calls, c # d,
                      IntentOf[c] = IntentOf[d], NEW i \in LegIndexes(c),
                      receipt[c][i]["split"] = "success", receipt[d][i]["split"] = "success"
               PROVE  FALSE
    BY DEF PaidAtMostOnce
  <2>1. i \in LegIndexes(d) /\ Nonce(c) = Nonce(d)
    BY DEF LegIndexes, LegsOfCall, Nonce
  <2>2. Touched(c) /\ Touched(d)
    BY <2>1, UnsentFacts DEF Touched, Kinds
  <2> QED
    BY <2>1, <2>2 DEF OneFansOut, FannedOut
<1>3. IInv /\ OneFansOut /\ CriticalSection /\ [RelayNext]_relayVars => OneFansOut'
  BY OneFansOutStep
<1> QED
  BY RelayInductive, <1>1, <1>2, <1>3, PTL DEF RelaySpec

=============================================================================
