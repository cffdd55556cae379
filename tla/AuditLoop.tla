------------------------------ MODULE AuditLoop ------------------------------
(***************************************************************************)
(* The audit loop, runCrossAgentDemo of apps/demo/src/cross-agent.ts with  *)
(* the live dependencies of live-deps.ts and loop-helpers.ts: several runs *)
(* at once, one action per await, over the contracts they send to.         *)
(*                                                                         *)
(* A run passes the spend-cap gate, pays the oracle on one of two rails,   *)
(* reads the agent's capabilities, commits to its plan, probes the agent,  *)
(* pins the report, posts a receipt, and only then writes the audit log,   *)
(* pins the agent's memory root and reveals the plan.  Every await may     *)
(* fail.  A transaction that was sent may be mined at any later time, as a *)
(* success or as a revert, or never.  Simulation and sending are one step: *)
(* nothing is read in between, and mining tests the call again.            *)
(*                                                                         *)
(* The gate itself is SpendCapGate.  Here it lets the run pass, blocks it  *)
(* or throws.                                                              *)
(***************************************************************************)
EXTENDS AxiomCommit, AuditCore, FiniteSets

CONSTANTS
  Runs,
  AgentOf,        \* the audited iNFT of a run
  Wallet,         \* the account that signs on 0G
  BarePlan,       \* the plan without the agent's capabilities in it
  FullPlan,       \* the plan with them
  Probes,
  Other,          \* stands for the runs of other processes on the same wallet
  OtherPlans,     \* what they commit to
  None

ASSUME AuditLoopAssumption ==
  /\ AgentOf \in [Runs -> Tokens]
  /\ Wallet \in Callers
  /\ {BarePlan, FullPlan} \cup OtherPlans \subseteq Plans
  /\ Other \notin Runs /\ Results = Runs \cup {Other}
  /\ IsFiniteSet(Probes)
  /\ None \notin CommitIds \cup Plans
  /\ Roots = Results

VARIABLES
  run,          \* the local state of a run
  payments,     \* the rails on which money of the run has moved
  tx,           \* its transactions
  commitBlock,  \* the block its commit was mined in
  stored,       \* what 0G Storage holds
  precommitted  \* history: was the plan on chain when the probes began?

loopVars == <<run, payments, tx, commitBlock, stored, precommitted>>
chainVars == <<nftVars, axiomVars>>
vars == <<chainVars, loopVars>>

Waits == {"gate", "marketplace", "split", "split_receipt", "capabilities",
          "commit", "commit_receipt", "audit", "anchor", "receipt", "log",
          "pin", "reveal"}

\* How a run is started: on a workflow's metadata only, with settlement disabled,
\* paying through the fee splitter, or through the marketplace.
Modes == {"workflow", "dry", "split", "marketplace"}

Run ==
  [mode     : Modes,
   at       : Waits \cup {"returned", "rejected"},
   settle   : {"none", "x402", "direct_split"},
   plan     : Plans \cup {None},
   commitId : CommitIds \cup {None},
   verdict  : Verdicts \cup {"none"},
   pinned   : BOOLEAN]

Transactions == {"split", "commit", "feedback", "pin", "reveal"}

TypeOK ==
  /\ NftTypeOK
  /\ AxiomTypeOK
  /\ run \in [Runs -> Run]
  /\ payments \in [Runs -> SUBSET {"x402", "direct_split"}]
  /\ tx \in [Runs -> [Transactions -> {"none", "pending", "mined", "reverted"}]]
  /\ commitBlock \in [Runs -> 0 .. MaxBlock]
  /\ stored \subseteq Results \X {"report", "log"}
  /\ precommitted \in [Runs -> BOOLEAN]

Init ==
  /\ NftInit
  /\ AxiomInit
  /\ \E mode \in [Runs -> Modes] :
       run = [r \in Runs |->
         [mode |-> mode[r], at |-> IF mode[r] = "workflow" THEN "audit" ELSE "gate",
          settle |-> "none", plan |-> None, commitId |-> None,
          verdict |-> "none", pinned |-> FALSE]]
  /\ payments = [r \in Runs |-> {}]
  /\ tx = [r \in Runs |-> [k \in Transactions |-> "none"]]
  /\ commitBlock = [r \in Runs |-> 0]
  /\ stored = {}
  /\ precommitted = [r \in Runs |-> FALSE]

-----------------------------------------------------------------------------

At(r, place) == run[r].at = place

GoTo(r, place) == run' = [run EXCEPT ![r].at = place]

Send(r, kind) == tx' = [tx EXCEPT ![r][kind] = "pending"]

\* The rail that is tried first.
Settlement(r) == IF run[r].mode = "dry" THEN "capabilities" ELSE run[r].mode

\* The spend-cap gate.  A blocked run returns its transcript at once.
Gate(r) ==
  /\ At(r, "gate")
  /\ \E place \in {Settlement(r), "returned", "rejected"} : GoTo(r, place)
  /\ UNCHANGED <<chainVars, payments, tx, commitBlock, stored, precommitted>>

\* The marketplace answers, or fails; the run then falls back to paying through
\* the fee splitter itself.  Either may happen with the money moved or not: a
\* service that asks for no payment is answered like one that was paid.
PayMarketplace(r) ==
  /\ At(r, "marketplace")
  /\ \E charged \in SUBSET {"x402"} :
       payments' = [payments EXCEPT ![r] = @ \cup charged]
  /\ \/ run' = [run EXCEPT ![r].at = "capabilities", ![r].settle = "x402"]
     \/ GoTo(r, "split")
  /\ UNCHANGED <<chainVars, tx, commitBlock, stored, precommitted>>

\* Allowance, approval, gas estimate and sending: a failure of any rejects the run.
SendSplit(r) ==
  /\ At(r, "split")
  /\ \/ GoTo(r, "split_receipt") /\ Send(r, "split")
     \/ GoTo(r, "rejected") /\ UNCHANGED tx
  /\ UNCHANGED <<chainVars, payments, commitBlock, stored, precommitted>>

\* Mutant of SplitReceipt: no timeout.
SplitReceiptForever(r) ==
  /\ At(r, "split_receipt")
  /\ \/ /\ tx[r]["split"] = "mined"
        /\ run' = [run EXCEPT ![r].at = "capabilities", ![r].settle = "direct_split"]
     \/ tx[r]["split"] = "reverted" /\ GoTo(r, "rejected")
  /\ UNCHANGED <<chainVars, payments, tx, commitBlock, stored, precommitted>>

\* The receipt: a revert, a timeout and a failing node reject the run.
SplitReceipt(r) ==
  /\ At(r, "split_receipt")
  /\ \/ /\ tx[r]["split"] = "mined"
        /\ run' = [run EXCEPT ![r].at = "capabilities", ![r].settle = "direct_split"]
     \/ GoTo(r, "rejected")
  /\ UNCHANGED <<chainVars, payments, tx, commitBlock, stored, precommitted>>

\* An unread or an empty manifest leaves the plan bare.
ReadCapabilities(r) ==
  /\ At(r, "capabilities")
  /\ \E plan \in {BarePlan, FullPlan} :
       run' = [run EXCEPT ![r].at = "commit", ![r].plan = plan]
  /\ UNCHANGED <<chainVars, payments, tx, commitBlock, stored, precommitted>>

SendCommit(r) ==
  /\ At(r, "commit")
  /\ \/ /\ MayCommit(Wallet, AgentOf[r])
        /\ GoTo(r, "commit_receipt") /\ Send(r, "commit")
     \/ GoTo(r, "audit") /\ UNCHANGED tx
  /\ UNCHANGED <<chainVars, payments, commitBlock, stored, precommitted>>

\* Mutant of CommitIdOf: the height of the chain when the receipt is read.
CommitIdOfSnapshot(r) == CommitId(Wallet, AgentOf[r], run[r].plan, block)

\* The id in the event, or, when the commit was there already and emitted none,
\* computed again from the receipt's block: the same value.
CommitIdOf(r) == CommitId(Wallet, AgentOf[r], run[r].plan, commitBlock[r])

\* pollReceipt: a revert and the timeout leave the run without a commit.
CommitReceipt(r) ==
  /\ At(r, "commit_receipt")
  /\ \/ /\ tx[r]["commit"] = "mined"
        /\ run' = [run EXCEPT ![r].at = "audit", ![r].commitId = CommitIdOf(r)]
     \/ GoTo(r, "audit")
  /\ UNCHANGED <<chainVars, payments, tx, commitBlock, stored, precommitted>>

\* runAudit: the probes, all at once.  One that throws fails the audit.
RunProbes(r) ==
  /\ At(r, "audit")
  /\ \/ \E answers \in [Probes -> {"yes", "no", "null"}] :
          run' = [run EXCEPT ![r].at = "anchor", ![r].verdict = AggregateVerdict(answers)]
     \/ GoTo(r, "returned")
  /\ precommitted' = [precommitted EXCEPT ![r] = run[r].commitId \in commits]
  /\ UNCHANGED <<chainVars, payments, tx, commitBlock, stored>>

\* Where runAudit goes once the anchor is known: skipReceiptPost ends it.
AfterAnchor(r) == IF run[r].mode = "workflow" THEN "returned" ELSE "receipt"

\* Bytes the storage kept although the upload failed are bytes nobody points to.
Upload(item, ok) == stored' = IF ok THEN stored \cup {item} ELSE stored

\* buildFeedbackAnchor: the report is pinned, or goes out unpinned, or its
\* construction throws and the audit fails.
AnchorReport(r) ==
  /\ At(r, "anchor")
  /\ \/ \E ok \in BOOLEAN :
          /\ Upload(<<r, "report">>, ok)
          /\ run' = [run EXCEPT ![r].at = AfterAnchor(r), ![r].pinned = ok]
     \/ /\ run' = [run EXCEPT ![r].at = "returned", ![r].verdict = "none"]
        /\ UNCHANGED stored
  /\ UNCHANGED <<chainVars, payments, tx, commitBlock, precommitted>>

\* Mutant of PostReceipt: a failed post goes on like a posted one.
PostReceiptAnyway(r) ==
  /\ At(r, "receipt")
  /\ GoTo(r, "log")
  /\ Send(r, "feedback") \/ UNCHANGED tx
  /\ UNCHANGED <<chainVars, payments, commitBlock, stored, precommitted>>

\* postReceipt returns the hash of the transaction as soon as it is sent.
PostReceipt(r) ==
  /\ At(r, "receipt")
  /\ \/ GoTo(r, "log") /\ Send(r, "feedback")
     \/ GoTo(r, "returned") /\ UNCHANGED tx
  /\ UNCHANGED <<chainVars, payments, commitBlock, stored, precommitted>>

WriteLog(r) ==
  /\ At(r, "log")
  /\ \E ok \in BOOLEAN :
       /\ Upload(<<r, "log">>, ok)
       /\ GoTo(r, IF ok THEN "pin" ELSE "reveal")
  /\ UNCHANGED <<chainVars, payments, tx, commitBlock, precommitted>>

PinRoot(r) ==
  /\ At(r, "pin")
  /\ GoTo(r, "reveal")
  /\ \/ IsOwner(Wallet, AgentOf[r]) /\ Send(r, "pin")
     \/ UNCHANGED tx
  /\ UNCHANGED <<chainVars, payments, commitBlock, stored, precommitted>>

SendReveal(r) ==
  /\ At(r, "reveal")
  /\ GoTo(r, "returned")
  /\ \/ /\ run[r].commitId # None
        /\ MayReveal(Wallet, run[r].commitId, run[r].plan)
        /\ Send(r, "reveal")
     \/ UNCHANGED tx
  /\ UNCHANGED <<chainVars, payments, commitBlock, stored, precommitted>>

\* Mutant of Refundable: only an audit without a report is refundable.
RefundableNoUnclear(r) == run[r].settle # "none" /\ run[r].verdict = "none"

\* The transcript's flag, computed when the run returns.
Refundable(r) == run[r].settle # "none" /\ run[r].verdict \in {"none", "unclear"}

Step(r) ==
  \/ Gate(r) \/ PayMarketplace(r) \/ SendSplit(r) \/ SplitReceipt(r)
  \/ ReadCapabilities(r) \/ SendCommit(r) \/ CommitReceipt(r)
  \/ RunProbes(r) \/ AnchorReport(r) \/ PostReceipt(r)
  \/ WriteLog(r) \/ PinRoot(r) \/ SendReveal(r)

-----------------------------------------------------------------------------

\* The chains.

Included(r, kind, status) ==
  /\ tx[r][kind] = "pending"
  /\ tx' = [tx EXCEPT ![r][kind] = status]

Reverts(r, kind) ==
  /\ Included(r, kind, "reverted")
  /\ UNCHANGED <<chainVars, run, payments, commitBlock, stored, precommitted>>

MineSplit(r) ==
  /\ Included(r, "split", "mined")
  /\ payments' = [payments EXCEPT ![r] = @ \cup {"direct_split"}]
  /\ UNCHANGED <<chainVars, run, commitBlock, stored, precommitted>>

MineCommit(r) ==
  /\ Included(r, "commit", "mined")
  /\ CommitPlan(Wallet, AgentOf[r], run[r].plan)
  /\ commitBlock' = [commitBlock EXCEPT ![r] = block]
  /\ UNCHANGED <<nftVars, run, payments, stored, precommitted>>

MineFeedback(r) ==
  /\ Included(r, "feedback", "mined")
  /\ UNCHANGED <<chainVars, run, payments, commitBlock, stored, precommitted>>

MinePin(r) ==
  /\ Included(r, "pin", "mined")
  /\ UpdateMemoryRoot(Wallet, AgentOf[r], r)
  /\ UNCHANGED <<axiomVars, run, payments, commitBlock, stored, precommitted>>

MineReveal(r) ==
  /\ Included(r, "reveal", "mined")
  /\ RevealPlan(Wallet, AgentOf[r], run[r].commitId, run[r].plan, r)
  /\ UNCHANGED <<nftVars, run, payments, commitBlock, stored, precommitted>>

\* The other runs commit, reveal and pin as they please.
OtherRuns ==
  \/ /\ \/ \E token \in Tokens, plan \in OtherPlans : CommitPlan(Wallet, token, plan)
        \/ \E id \in commits : RevealPlan(Wallet, id.token, id, id.plan, Other)
     /\ UNCHANGED <<nftVars, loopVars>>
  \/ /\ \E token \in Tokens : UpdateMemoryRoot(Wallet, token, Other)
     /\ stored' = stored \cup {<<Other, "log">>}
     /\ UNCHANGED <<axiomVars, run, payments, tx, commitBlock, precommitted>>

\* A transaction whose receipt is awaited may revert: its gas, its state or its
\* caller's rights changed.  Nobody waits for the other three, and one that reverts
\* is like one that is never mined.
Chain ==
  \/ \E r \in Runs :
       \/ MineSplit(r) \/ MineCommit(r) \/ MineFeedback(r) \/ MinePin(r) \/ MineReveal(r)
       \/ \E kind \in {"split", "commit"} : Reverts(r, kind)
  \/ /\ \E token \in Tokens, allowed \in BOOLEAN :
          SetOperator(nftOwner[token], token, Wallet, allowed)
     /\ UNCHANGED <<nftVars, loopVars>>
  \/ /\ \E token \in Tokens, to \in Callers \cup {Nobody} :
          ITransferFrom(nftOwner[token], to, token)
     /\ UNCHANGED <<axiomVars, loopVars>>
  \/ NewBlock /\ UNCHANGED <<nftVars, loopVars>>

Next == (\E r \in Runs : Step(r)) \/ OtherRuns \/ Chain

Spec == Init /\ [][Next]_vars

\* Every await of a run returns: by an answer, an error or its timeout.  The fetches
\* of the marketplace have none (keeperhub-marketplace.ts:86, :115), and are assumed
\* to return.
FairSpec == Spec /\ \A r \in Runs : WF_vars(Step(r))

-----------------------------------------------------------------------------

Returned(r) == At(r, "returned")

\* A returned transcript hides no money (cross-agent.ts:61-66, :684).  One that
\* names no settlement has paid nothing, also when it was blocked; it names the
\* split exactly when the split moved money; and where money moved and bought no
\* clear verdict, it is refundable.  It is never refundable with a clear verdict,
\* and with nothing paid only where it names x402: the code takes any answer of
\* the marketplace for a settlement, an uncharged one too.  Of a run that paid
\* twice it names the split and not the charge before it.
TranscriptIsHonest ==
  \A r \in Runs : Returned(r) =>
    LET unclear == run[r].verdict \notin {"compliant", "non_compliant"}
    IN  /\ run[r].settle = "none" => payments[r] = {}
        /\ run[r].settle = "direct_split" <=> "direct_split" \in payments[r]
        /\ payments[r] # {} /\ unclear => Refundable(r)
        /\ Refundable(r) => unclear /\ (payments[r] # {} \/ run[r].settle = "x402")

\* A run that has come to its reveal holds the id of a commit that exists: the id
\* is taken from the block the commit landed in and not from a snapshot of the
\* height.  A commit is revealed once, though two runs that committed the same
\* plan in the same block share it; and the plan that a run reveals was on chain
\* before its probes began, so that no answer of a model has shaped it.
RevealFindsItsCommit ==
  /\ \A r \in Runs : At(r, "reveal") =>
       run[r].commitId = None \/ run[r].commitId \in commits
  /\ \A v, w \in reveals : v.id = w.id => v = w
  /\ \A v \in reveals : v.result \in Runs => precommitted[v.result]

\* What the chain points to exists: a receipt that was mined with the hash of a
\* report, and a memory root, name bytes that the storage holds.  A run whose
\* audit failed, or whose receipt was not sent, leaves no trail of success,
\* neither a memory root nor a reveal.
EveryTraceIsStored ==
  /\ \A r \in Runs :
       tx[r]["feedback"] = "mined" /\ run[r].pinned => <<r, "report">> \in stored
  /\ \A t \in Tokens : memoryRoot[t] # NoRoot => <<memoryRoot[t], "log">> \in stored
  /\ \A r \in Runs :
       r \in {v.result : v \in reveals} \cup {memoryRoot[t] : t \in Tokens} =>
         run[r].verdict \in Verdicts /\ tx[r]["feedback"] # "none"

\* Every run returns a transcript or rejects, whatever the nodes, the storage and
\* the other run do.
EveryRunEnds == \A r \in Runs : <>(run[r].at \in {"returned", "rejected"})

=============================================================================
