--------------------------- MODULE AuditLoopProofs ---------------------------
(***************************************************************************)
(* Theorems about the audit loop, for any number of runs, agents, plans,   *)
(* probes and blocks, whatever the runs of other processes do on the same  *)
(* wallet and whoever owns the agents: a transcript hides no money that    *)
(* was paid, a reveal finds a commit that preceded the probes, and what    *)
(* the chain points to is stored.                                          *)
(*                                                                         *)
(* Then about one audit from the inside, for any number of probes, any     *)
(* providers and envelopes: the feedback on chain can be checked, and what *)
(* a report says of a TEE was said of a probe.                             *)
(***************************************************************************)
EXTENDS AuditLoop, Evidence, SumTheorems, TLAPS

\* The money of a run: it names the split once it has the receipt of one that was
\* mined; one that names no rail has moved no money, unless its split is still on
\* its way.
MoneyInv(r) ==
  /\ At(r, "gate") => run[r].mode # "workflow"
  /\ run[r].at \in {"gate", "marketplace", "split", "split_receipt"} => run[r].settle = "none"
  /\ run[r].settle = "direct_split" => "direct_split" \in payments[r]
  /\ "direct_split" \in payments[r] =>
       run[r].settle = "direct_split" \/ run[r].at \in {"split_receipt", "rejected"}
  /\ run[r].settle = "none" /\ run[r].at \notin {"split", "split_receipt", "rejected"} =>
       payments[r] = {} /\ tx[r]["split"] = "none"
  /\ tx[r]["split"] = "pending" => run[r].at \in {"split_receipt", "rejected"}
  /\ tx[r]["split"] = "mined" => "direct_split" \in payments[r]

Uncommitted ==
  {"gate", "marketplace", "split", "split_receipt", "capabilities", "commit"}

\* The plan of a run: it is fixed before it is committed, and what the run holds as
\* the id of its commit is one.
PlanInv(r) ==
  /\ At(r, "commit") \/ At(r, "commit_receipt") \/ tx[r]["commit"] # "none" =>
       run[r].plan # None
  /\ tx[r]["commit"] # "none" => run[r].at \notin Uncommitted
  /\ tx[r]["commit"] = "mined" => CommitIdOf(r) \in commits
  /\ run[r].commitId # None => run[r].commitId \in commits
  /\ run[r].at \in {"anchor", "receipt", "log", "pin", "reveal"} /\ run[r].commitId # None =>
       precommitted[r]
  /\ tx[r]["reveal"] # "none" => At(r, "returned") /\ precommitted[r]

\* What a run leaves behind: only one whose receipt was sent writes a log, and only
\* one whose log is stored points to it.
TraceInv(r) ==
  /\ run[r].at \in {"anchor", "receipt"} => run[r].verdict \in Verdicts
  /\ run[r].pinned => <<r, "report">> \in stored
  /\ At(r, "pin") \/ tx[r]["pin"] # "none" => <<r, "log">> \in stored
  /\ \/ run[r].at \in {"log", "pin", "reveal"}
     \/ tx[r]["pin"] # "none" \/ tx[r]["reveal"] # "none"
     => /\ run[r].verdict \in Verdicts
        /\ tx[r]["feedback"] # "none"
        /\ run[r].at \in {"log", "pin", "reveal", "returned"}

RunInv(r) == MoneyInv(r) /\ PlanInv(r) /\ TraceInv(r)

\* The chain: a reveal uses up its commit, and a reveal or a memory root of a run
\* is the work of its transaction.
ChainInv ==
  /\ \A v \in reveals :
       /\ v.id \in revealed
       /\ v.result \in Runs => tx[v.result]["reveal"] # "none"
  /\ \A v, w \in reveals : v.id = w.id => v = w
  /\ \A t \in Tokens :
       /\ memoryRoot[t] \in Runs => tx[memoryRoot[t]]["pin"] # "none"
       /\ memoryRoot[t] # NoRoot => <<memoryRoot[t], "log">> \in stored

IInv == TypeOK /\ (\A r \in Runs : RunInv(r)) /\ ChainInv

-----------------------------------------------------------------------------

LEMMA VerdictIsOne ==
  ASSUME NEW answers
  PROVE  AggregateVerdict(answers) \in Verdicts
  BY Zenon DEF AggregateVerdict, Verdicts

LEMMA InitIInv == Init => IInv
<1> SUFFICES ASSUME Init PROVE IInv
  OBVIOUS
<1> USE AuditLoopAssumption, AgentNFTAssumption, AxiomAssumption
<1>1. TypeOK
  BY DEF Init, NftInit, AxiomInit, TypeOK, NftTypeOK, AxiomTypeOK, Run, Waits, Modes,
         Transactions, Verdicts
<1>2. ASSUME NEW r \in Runs PROVE RunInv(r)
  BY DEF Init, RunInv, MoneyInv, PlanInv, TraceInv, At, Transactions
<1>3. ChainInv
  BY DEF Init, NftInit, AxiomInit, ChainInv
<1> QED
  BY <1>1, <1>2, <1>3 DEF IInv

-----------------------------------------------------------------------------
(* The steps of a run                                                      *)

Places == Waits \cup {"returned", "rejected"}

Statuses == {"none", "pending", "mined", "reverted"}

\* What the steps of a run leave as it is.
StepFrame(r) ==
  /\ UNCHANGED <<nftOwner, memoryRoot, operatorOf, commits, revealed, reveals, block, commitBlock>>
  /\ stored \subseteq stored'
  /\ \A d \in Runs \ {r} :
       /\ run'[d] = run[d] /\ payments'[d] = payments[d]
       /\ tx'[d] = tx[d] /\ precommitted'[d] = precommitted[d]
  /\ \A kind \in Transactions : tx[r][kind] # "none" => tx'[r][kind] # "none"

\* A step of a run that keeps its own invariant keeps everybody's.
LEMMA StepIInv ==
  ASSUME IInv, NEW r \in Runs, StepFrame(r), TypeOK', RunInv(r)'
  PROVE  IInv'
<1>1. ASSUME NEW d \in Runs \ {r} PROVE RunInv(d)'
  BY <1>1 DEF IInv, StepFrame, RunInv, MoneyInv, PlanInv, TraceInv, At, CommitIdOf
<1>2. ChainInv'
  <2>1. \A d \in Runs, kind \in Transactions : tx[d][kind] # "none" => tx'[d][kind] # "none"
    BY DEF StepFrame
  <2>2. \A d \in Runs :
          /\ tx[d]["reveal"] # "none" => tx'[d]["reveal"] # "none"
          /\ tx[d]["pin"] # "none" => tx'[d]["pin"] # "none"
    BY <2>1 DEF Transactions
  <2> QED
    BY <2>2 DEF IInv, StepFrame, ChainInv
<1> QED
  BY <1>1, <1>2 DEF IInv

\* The types of what a step of a run may change.
OwnTypes ==
  /\ run \in [Runs -> Run]
  /\ payments \in [Runs -> SUBSET {"x402", "direct_split"}]
  /\ tx \in [Runs -> [Transactions -> Statuses]]
  /\ stored \subseteq Results \X {"report", "log"}
  /\ precommitted \in [Runs -> BOOLEAN]

LEMMA OwnSteps ==
  ASSUME IInv, NEW r \in Runs, StepFrame(r), OwnTypes', MoneyInv(r)', PlanInv(r)', TraceInv(r)'
  PROVE  IInv'
<1>1. TypeOK'
  BY DEF IInv, StepFrame, OwnTypes, TypeOK, NftTypeOK, AxiomTypeOK, Statuses
<1> QED
  BY <1>1, StepIInv DEF RunInv

LEMMA Known ==
  ASSUME IInv, NEW r \in Runs
  PROVE  /\ OwnTypes /\ MoneyInv(r) /\ PlanInv(r) /\ TraceInv(r)
         /\ commitBlock \in [Runs -> 0 .. MaxBlock]
  BY DEF IInv, TypeOK, OwnTypes, RunInv, Statuses

\* A run that goes on is at its new place, and is otherwise what it was.
LEMMA RunGoes ==
  ASSUME run \in [Runs -> Run], NEW r \in Runs, NEW place \in Places, GoTo(r, place)
  PROVE  /\ run' \in [Runs -> Run]
         /\ \A d \in Runs \ {r} : run'[d] = run[d]
         /\ run'[r].at = place
         /\ run'[r].mode = run[r].mode /\ run'[r].settle = run[r].settle
         /\ run'[r].plan = run[r].plan /\ run'[r].commitId = run[r].commitId
         /\ run'[r].verdict = run[r].verdict /\ run'[r].pinned = run[r].pinned
<1>1. run[r] \in Run
  OBVIOUS
<1>2. [run[r] EXCEPT !.at = place] \in Run
  BY <1>1 DEF Run, Places
<1>3. run'[r] = [run[r] EXCEPT !.at = place]
  BY DEF GoTo
<1>4. run' \in [Runs -> Run] /\ \A d \in Runs \ {r} : run'[d] = run[d]
  BY <1>2 DEF GoTo
<1> QED
  BY <1>1, <1>3, <1>4 DEF Run

\* A transaction that is sent is pending; the others of the run are what they were.
LEMMA TxSent ==
  ASSUME tx \in [Runs -> [Transactions -> Statuses]], NEW r \in Runs,
         NEW kind \in Transactions, Send(r, kind)
  PROVE  /\ tx' \in [Runs -> [Transactions -> Statuses]]
         /\ \A d \in Runs \ {r} : tx'[d] = tx[d]
         /\ tx'[r][kind] = "pending"
         /\ \A k \in Transactions \ {kind} : tx'[r][k] = tx[r][k]
  BY DEF Send, Statuses

LEMMA GateKeeps ==
  ASSUME IInv, NEW r \in Runs, Gate(r)
  PROVE  IInv'
<1>0. At(r, "gate") /\ UNCHANGED <<chainVars, payments, tx, commitBlock, stored, precommitted>>
  BY DEF Gate
<1> PICK place \in {"capabilities", "split", "marketplace", "returned", "rejected"} :
       GoTo(r, place)
  BY Known DEF Gate, Settlement, OwnTypes, Run, Modes, MoneyInv, At
<1>9. GoTo(r, place)
  OBVIOUS
<1>1. /\ run' \in [Runs -> Run]
      /\ \A d \in Runs \ {r} : run'[d] = run[d]
      /\ run'[r].at = place
      /\ run'[r].mode = run[r].mode /\ run'[r].settle = run[r].settle
      /\ run'[r].plan = run[r].plan /\ run'[r].commitId = run[r].commitId
      /\ run'[r].verdict = run[r].verdict /\ run'[r].pinned = run[r].pinned
  BY <1>9, Known, RunGoes DEF OwnTypes, Places, Waits
<1>2. tx' = tx
  BY <1>0
<1>3. OwnTypes'
  BY <1>0, <1>1, <1>2, Known, AuditLoopAssumption DEF OwnTypes
<1>4. StepFrame(r)
  BY <1>0, <1>1, <1>2, Known DEF StepFrame, OwnTypes, Transactions, chainVars, nftVars, axiomVars
<1>5. MoneyInv(r)'
  BY <1>0, <1>1, <1>2, Known DEF MoneyInv, Transactions, At
<1>6. PlanInv(r)'
  BY <1>0, <1>1, <1>2, Known
     DEF PlanInv, Transactions, Uncommitted, CommitIdOf, At, chainVars, nftVars, axiomVars
<1>7. TraceInv(r)'
  BY <1>0, <1>1, <1>2, Known DEF TraceInv, Transactions, At
<1> QED
  BY <1>3, <1>4, <1>5, <1>6, <1>7, OwnSteps

LEMMA PayMarketplaceKeeps ==
  ASSUME IInv, NEW r \in Runs, PayMarketplace(r)
  PROVE  IInv'
<1>0. At(r, "marketplace") /\ UNCHANGED <<chainVars, tx, commitBlock, stored, precommitted>>
  BY DEF PayMarketplace
<1>1. ASSUME NEW charged \in SUBSET {"x402"},
             run' = [run EXCEPT ![r].at = "capabilities", ![r].settle = "x402"],
             payments' = [payments EXCEPT ![r] = @ \cup charged]
      PROVE  IInv'
  <2>1. /\ run' \in [Runs -> Run]
        /\ \A d \in Runs \ {r} : run'[d] = run[d]
        /\ run'[r].at = "capabilities" /\ run'[r].settle = "x402"
        /\ run'[r].mode = run[r].mode /\ run'[r].plan = run[r].plan
        /\ run'[r].commitId = run[r].commitId /\ run'[r].verdict = run[r].verdict
        /\ run'[r].pinned = run[r].pinned
    <3>1. run[r] \in Run
      BY Known DEF OwnTypes
    <3>2. [run[r] EXCEPT !.at = "capabilities", !.settle = "x402"] \in Run
      BY <1>1, <3>1 DEF Run, Waits
    <3>3. run'[r] = [run[r] EXCEPT !.at = "capabilities", !.settle = "x402"]
      BY <1>1, Known DEF OwnTypes
    <3>4. run' \in [Runs -> Run] /\ \A d \in Runs \ {r} : run'[d] = run[d]
      BY <1>1, <3>2, Known DEF OwnTypes
    <3> QED
      BY <3>1, <3>3, <3>4 DEF Run
  <2>2. tx' = tx
    BY <1>0
  <2>3. OwnTypes'
    BY <1>0, <1>1, <2>1, <2>2, Known, AuditLoopAssumption DEF OwnTypes
  <2>4. StepFrame(r)
    BY <1>0, <1>1, <2>1, <2>2, Known DEF StepFrame, OwnTypes, Transactions, chainVars, nftVars, axiomVars
  <2>5. MoneyInv(r)'
    BY <1>0, <1>1, <2>1, <2>2, Known DEF MoneyInv, OwnTypes, Transactions, At
  <2>6. PlanInv(r)'
    BY <1>0, <1>1, <2>1, <2>2, Known
       DEF PlanInv, Transactions, Uncommitted, CommitIdOf, At, chainVars, nftVars, axiomVars
  <2>7. TraceInv(r)'
    BY <1>0, <1>1, <2>1, <2>2, Known DEF TraceInv, Transactions, At
  <2> QED
    BY <2>3, <2>4, <2>5, <2>6, <2>7, OwnSteps
<1>2. ASSUME NEW charged \in SUBSET {"x402"}, GoTo(r, "split"),
             payments' = [payments EXCEPT ![r] = @ \cup charged]
      PROVE  IInv'
  <2>1. /\ run' \in [Runs -> Run]
        /\ \A d \in Runs \ {r} : run'[d] = run[d]
        /\ run'[r].at = "split"
        /\ run'[r].mode = run[r].mode /\ run'[r].settle = run[r].settle
        /\ run'[r].plan = run[r].plan /\ run'[r].commitId = run[r].commitId
        /\ run'[r].verdict = run[r].verdict /\ run'[r].pinned = run[r].pinned
    BY <1>2, Known, RunGoes DEF OwnTypes, Places, Waits
  <2>2. tx' = tx
    BY <1>0
  <2>3. OwnTypes'
    BY <1>0, <1>2, <2>1, <2>2, Known, AuditLoopAssumption DEF OwnTypes
  <2>4. StepFrame(r)
    BY <1>0, <1>2, <2>1, <2>2, Known DEF StepFrame, OwnTypes, Transactions, chainVars, nftVars, axiomVars
  <2>5. MoneyInv(r)'
    BY <1>0, <1>2, <2>1, <2>2, Known DEF MoneyInv, Transactions, At
  <2>6. PlanInv(r)'
    BY <1>0, <1>2, <2>1, <2>2, Known
       DEF PlanInv, Transactions, Uncommitted, CommitIdOf, At, chainVars, nftVars, axiomVars
  <2>7. TraceInv(r)'
    BY <1>0, <1>2, <2>1, <2>2, Known DEF TraceInv, Transactions, At
  <2> QED
    BY <2>3, <2>4, <2>5, <2>6, <2>7, OwnSteps
<1> QED
  BY <1>1, <1>2 DEF PayMarketplace

LEMMA SendSplitKeeps ==
  ASSUME IInv, NEW r \in Runs, SendSplit(r)
  PROVE  IInv'
<1>0. At(r, "split") /\ UNCHANGED <<chainVars, payments, commitBlock, stored, precommitted>>
  BY DEF SendSplit
<1>1. CASE GoTo(r, "split_receipt") /\ Send(r, "split")
  <2>1. /\ run' \in [Runs -> Run]
        /\ \A d \in Runs \ {r} : run'[d] = run[d]
        /\ run'[r].at = "split_receipt"
        /\ run'[r].mode = run[r].mode /\ run'[r].settle = run[r].settle
        /\ run'[r].plan = run[r].plan /\ run'[r].commitId = run[r].commitId
        /\ run'[r].verdict = run[r].verdict /\ run'[r].pinned = run[r].pinned
    BY <1>1, Known, RunGoes DEF OwnTypes, Places, Waits
  <2>2. /\ tx' \in [Runs -> [Transactions -> Statuses]]
        /\ \A d \in Runs \ {r} : tx'[d] = tx[d]
        /\ tx'[r]["split"] = "pending"
        /\ \A k \in Transactions \ {"split"} : tx'[r][k] = tx[r][k]
    BY <1>1, Known, TxSent DEF OwnTypes, Transactions
  <2>3. OwnTypes'
    BY <1>0, <2>1, <2>2, Known, AuditLoopAssumption DEF OwnTypes
  <2>4. StepFrame(r)
    BY <1>0, <2>1, <2>2, Known DEF StepFrame, OwnTypes, Transactions, chainVars, nftVars, axiomVars
  <2>5. MoneyInv(r)'
    BY <1>0, <2>1, <2>2, Known DEF MoneyInv, Transactions, At
  <2>6. PlanInv(r)'
    BY <1>0, <2>1, <2>2, Known
       DEF PlanInv, Transactions, Uncommitted, CommitIdOf, At, chainVars, nftVars, axiomVars
  <2>7. TraceInv(r)'
    BY <1>0, <2>1, <2>2, Known DEF TraceInv, Transactions, At
  <2> QED
    BY <2>3, <2>4, <2>5, <2>6, <2>7, OwnSteps
<1>2. CASE GoTo(r, "rejected") /\ UNCHANGED tx
  <2>1. /\ run' \in [Runs -> Run]
        /\ \A d \in Runs \ {r} : run'[d] = run[d]
        /\ run'[r].at = "rejected"
        /\ run'[r].mode = run[r].mode /\ run'[r].settle = run[r].settle
        /\ run'[r].plan = run[r].plan /\ run'[r].commitId = run[r].commitId
        /\ run'[r].verdict = run[r].verdict /\ run'[r].pinned = run[r].pinned
    BY <1>2, Known, RunGoes DEF OwnTypes, Places, Waits
  <2>2. tx' = tx
    BY <1>2
  <2>3. OwnTypes'
    BY <1>0, <2>1, <2>2, Known, AuditLoopAssumption DEF OwnTypes
  <2>4. StepFrame(r)
    BY <1>0, <2>1, <2>2, Known DEF StepFrame, OwnTypes, Transactions, chainVars, nftVars, axiomVars
  <2>5. MoneyInv(r)'
    BY <1>0, <2>1, <2>2, Known DEF MoneyInv, Transactions, At
  <2>6. PlanInv(r)'
    BY <1>0, <2>1, <2>2, Known
       DEF PlanInv, Transactions, Uncommitted, CommitIdOf, At, chainVars, nftVars, axiomVars
  <2>7. TraceInv(r)'
    BY <1>0, <2>1, <2>2, Known DEF TraceInv, Transactions, At
  <2> QED
    BY <2>3, <2>4, <2>5, <2>6, <2>7, OwnSteps
<1> QED
  BY <1>1, <1>2 DEF SendSplit

LEMMA SplitReceiptKeeps ==
  ASSUME IInv, NEW r \in Runs, SplitReceipt(r)
  PROVE  IInv'
<1>0. At(r, "split_receipt") /\ UNCHANGED <<chainVars, payments, tx, commitBlock, stored, precommitted>>
  BY DEF SplitReceipt
<1>1. ASSUME tx[r]["split"] = "mined",
             run' = [run EXCEPT ![r].at = "capabilities", ![r].settle = "direct_split"]
      PROVE  IInv'
  <2>1. /\ run' \in [Runs -> Run]
        /\ \A d \in Runs \ {r} : run'[d] = run[d]
        /\ run'[r].at = "capabilities" /\ run'[r].settle = "direct_split"
        /\ run'[r].mode = run[r].mode /\ run'[r].plan = run[r].plan
        /\ run'[r].commitId = run[r].commitId /\ run'[r].verdict = run[r].verdict
        /\ run'[r].pinned = run[r].pinned
    <3>1. run[r] \in Run
      BY Known DEF OwnTypes
    <3>2. [run[r] EXCEPT !.at = "capabilities", !.settle = "direct_split"] \in Run
      BY <1>1, <3>1 DEF Run, Waits
    <3>3. run'[r] = [run[r] EXCEPT !.at = "capabilities", !.settle = "direct_split"]
      BY <1>1, Known DEF OwnTypes
    <3>4. run' \in [Runs -> Run] /\ \A d \in Runs \ {r} : run'[d] = run[d]
      BY <1>1, <3>2, Known DEF OwnTypes
    <3> QED
      BY <3>1, <3>3, <3>4 DEF Run
  <2>2. tx' = tx
    BY <1>0
  <2>3. OwnTypes'
    BY <1>0, <1>1, <2>1, <2>2, Known, AuditLoopAssumption DEF OwnTypes
  <2>4. StepFrame(r)
    BY <1>0, <1>1, <2>1, <2>2, Known DEF StepFrame, OwnTypes, Transactions, chainVars, nftVars, axiomVars
  <2>5. MoneyInv(r)'
    BY <1>0, <1>1, <2>1, <2>2, Known DEF MoneyInv, Transactions, At
  <2>6. PlanInv(r)'
    BY <1>0, <1>1, <2>1, <2>2, Known
       DEF PlanInv, Transactions, Uncommitted, CommitIdOf, At, chainVars, nftVars, axiomVars
  <2>7. TraceInv(r)'
    BY <1>0, <1>1, <2>1, <2>2, Known DEF TraceInv, Transactions, At
  <2> QED
    BY <2>3, <2>4, <2>5, <2>6, <2>7, OwnSteps
<1>2. CASE GoTo(r, "rejected")
  <2>1. /\ run' \in [Runs -> Run]
        /\ \A d \in Runs \ {r} : run'[d] = run[d]
        /\ run'[r].at = "rejected"
        /\ run'[r].mode = run[r].mode /\ run'[r].settle = run[r].settle
        /\ run'[r].plan = run[r].plan /\ run'[r].commitId = run[r].commitId
        /\ run'[r].verdict = run[r].verdict /\ run'[r].pinned = run[r].pinned
    BY <1>2, Known, RunGoes DEF OwnTypes, Places, Waits
  <2>2. tx' = tx
    BY <1>0
  <2>3. OwnTypes'
    BY <1>0, <2>1, <2>2, Known, AuditLoopAssumption DEF OwnTypes
  <2>4. StepFrame(r)
    BY <1>0, <2>1, <2>2, Known DEF StepFrame, OwnTypes, Transactions, chainVars, nftVars, axiomVars
  <2>5. MoneyInv(r)'
    BY <1>0, <2>1, <2>2, Known DEF MoneyInv, Transactions, At
  <2>6. PlanInv(r)'
    BY <1>0, <2>1, <2>2, Known
       DEF PlanInv, Transactions, Uncommitted, CommitIdOf, At, chainVars, nftVars, axiomVars
  <2>7. TraceInv(r)'
    BY <1>0, <2>1, <2>2, Known DEF TraceInv, Transactions, At
  <2> QED
    BY <2>3, <2>4, <2>5, <2>6, <2>7, OwnSteps
<1> QED
  BY <1>1, <1>2 DEF SplitReceipt

LEMMA ReadCapabilitiesKeeps ==
  ASSUME IInv, NEW r \in Runs, ReadCapabilities(r)
  PROVE  IInv'
<1>0. At(r, "capabilities") /\ UNCHANGED <<chainVars, payments, tx, commitBlock, stored, precommitted>>
  BY DEF ReadCapabilities
<1>1. ASSUME NEW plan \in {BarePlan, FullPlan},
             run' = [run EXCEPT ![r].at = "commit", ![r].plan = plan]
      PROVE  IInv'
  <2>0. plan \in Plans /\ plan # None
    BY AuditLoopAssumption
  <2>1. /\ run' \in [Runs -> Run]
        /\ \A d \in Runs \ {r} : run'[d] = run[d]
        /\ run'[r].at = "commit" /\ run'[r].plan = plan
        /\ run'[r].mode = run[r].mode /\ run'[r].settle = run[r].settle
        /\ run'[r].commitId = run[r].commitId /\ run'[r].verdict = run[r].verdict
        /\ run'[r].pinned = run[r].pinned
    <3>1. run[r] \in Run
      BY Known DEF OwnTypes
    <3>2. [run[r] EXCEPT !.at = "commit", !.plan = plan] \in Run
      BY <2>0, <3>1 DEF Run, Waits
    <3>3. run'[r] = [run[r] EXCEPT !.at = "commit", !.plan = plan]
      BY <1>1, Known DEF OwnTypes
    <3>4. run' \in [Runs -> Run] /\ \A d \in Runs \ {r} : run'[d] = run[d]
      BY <1>1, <3>2, Known DEF OwnTypes
    <3> QED
      BY <3>1, <3>3, <3>4 DEF Run
  <2>2. tx' = tx
    BY <1>0
  <2>3. OwnTypes'
    BY <1>0, <2>0, <2>1, <2>2, Known, AuditLoopAssumption DEF OwnTypes
  <2>4. StepFrame(r)
    BY <1>0, <2>0, <2>1, <2>2, Known DEF StepFrame, OwnTypes, Transactions, chainVars, nftVars, axiomVars
  <2>5. MoneyInv(r)'
    BY <1>0, <2>0, <2>1, <2>2, Known DEF MoneyInv, Transactions, At
  <2>6. PlanInv(r)'
    BY <1>0, <2>0, <2>1, <2>2, Known
       DEF PlanInv, Transactions, Uncommitted, CommitIdOf, At, chainVars, nftVars, axiomVars
  <2>7. TraceInv(r)'
    BY <1>0, <2>0, <2>1, <2>2, Known DEF TraceInv, Transactions, At
  <2> QED
    BY <2>3, <2>4, <2>5, <2>6, <2>7, OwnSteps
<1> QED
  BY <1>1 DEF ReadCapabilities

LEMMA SendCommitKeeps ==
  ASSUME IInv, NEW r \in Runs, SendCommit(r)
  PROVE  IInv'
<1>0. At(r, "commit") /\ UNCHANGED <<chainVars, payments, commitBlock, stored, precommitted>>
  BY DEF SendCommit
<1>1. CASE GoTo(r, "commit_receipt") /\ Send(r, "commit")
  <2>1. /\ run' \in [Runs -> Run]
        /\ \A d \in Runs \ {r} : run'[d] = run[d]
        /\ run'[r].at = "commit_receipt"
        /\ run'[r].mode = run[r].mode /\ run'[r].settle = run[r].settle
        /\ run'[r].plan = run[r].plan /\ run'[r].commitId = run[r].commitId
        /\ run'[r].verdict = run[r].verdict /\ run'[r].pinned = run[r].pinned
    BY <1>1, Known, RunGoes DEF OwnTypes, Places, Waits
  <2>2. /\ tx' \in [Runs -> [Transactions -> Statuses]]
        /\ \A d \in Runs \ {r} : tx'[d] = tx[d]
        /\ tx'[r]["commit"] = "pending"
        /\ \A k \in Transactions \ {"commit"} : tx'[r][k] = tx[r][k]
    BY <1>1, Known, TxSent DEF OwnTypes, Transactions
  <2>3. OwnTypes'
    BY <1>0, <2>1, <2>2, Known, AuditLoopAssumption DEF OwnTypes
  <2>4. StepFrame(r)
    BY <1>0, <2>1, <2>2, Known DEF StepFrame, OwnTypes, Transactions, chainVars, nftVars, axiomVars
  <2>5. MoneyInv(r)'
    BY <1>0, <2>1, <2>2, Known DEF MoneyInv, Transactions, At
  <2>6. PlanInv(r)'
    BY <1>0, <2>1, <2>2, Known
       DEF PlanInv, Transactions, Uncommitted, CommitIdOf, At, chainVars, nftVars, axiomVars
  <2>7. TraceInv(r)'
    BY <1>0, <2>1, <2>2, Known DEF TraceInv, Transactions, At
  <2> QED
    BY <2>3, <2>4, <2>5, <2>6, <2>7, OwnSteps
<1>2. CASE GoTo(r, "audit") /\ UNCHANGED tx
  <2>1. /\ run' \in [Runs -> Run]
        /\ \A d \in Runs \ {r} : run'[d] = run[d]
        /\ run'[r].at = "audit"
        /\ run'[r].mode = run[r].mode /\ run'[r].settle = run[r].settle
        /\ run'[r].plan = run[r].plan /\ run'[r].commitId = run[r].commitId
        /\ run'[r].verdict = run[r].verdict /\ run'[r].pinned = run[r].pinned
    BY <1>2, Known, RunGoes DEF OwnTypes, Places, Waits
  <2>2. tx' = tx
    BY <1>2
  <2>3. OwnTypes'
    BY <1>0, <2>1, <2>2, Known, AuditLoopAssumption DEF OwnTypes
  <2>4. StepFrame(r)
    BY <1>0, <2>1, <2>2, Known DEF StepFrame, OwnTypes, Transactions, chainVars, nftVars, axiomVars
  <2>5. MoneyInv(r)'
    BY <1>0, <2>1, <2>2, Known DEF MoneyInv, Transactions, At
  <2>6. PlanInv(r)'
    BY <1>0, <2>1, <2>2, Known
       DEF PlanInv, Transactions, Uncommitted, CommitIdOf, At, chainVars, nftVars, axiomVars
  <2>7. TraceInv(r)'
    BY <1>0, <2>1, <2>2, Known DEF TraceInv, Transactions, At
  <2> QED
    BY <2>3, <2>4, <2>5, <2>6, <2>7, OwnSteps
<1> QED
  BY <1>1, <1>2 DEF SendCommit

LEMMA CommitReceiptKeeps ==
  ASSUME IInv, NEW r \in Runs, CommitReceipt(r)
  PROVE  IInv'
<1>0. At(r, "commit_receipt") /\ UNCHANGED <<chainVars, payments, tx, commitBlock, stored, precommitted>>
  BY DEF CommitReceipt
<1>1. ASSUME tx[r]["commit"] = "mined",
             run' = [run EXCEPT ![r].at = "audit", ![r].commitId = CommitIdOf(r)]
      PROVE  IInv'
  <2>0. CommitIdOf(r) \in commits /\ CommitIdOf(r) \in CommitIds
    BY <1>1, Known DEF PlanInv, IInv, TypeOK, AxiomTypeOK
  <2>1. /\ run' \in [Runs -> Run]
        /\ \A d \in Runs \ {r} : run'[d] = run[d]
        /\ run'[r].at = "audit" /\ run'[r].commitId = CommitIdOf(r)
        /\ run'[r].mode = run[r].mode /\ run'[r].settle = run[r].settle
        /\ run'[r].plan = run[r].plan /\ run'[r].verdict = run[r].verdict
        /\ run'[r].pinned = run[r].pinned
    <3>1. run[r] \in Run
      BY Known DEF OwnTypes
    <3>2. [run[r] EXCEPT !.at = "audit", !.commitId = CommitIdOf(r)] \in Run
      BY <2>0, <3>1 DEF Run, Waits
    <3>3. run'[r] = [run[r] EXCEPT !.at = "audit", !.commitId = CommitIdOf(r)]
      BY <1>1, Known DEF OwnTypes
    <3>4. run' \in [Runs -> Run] /\ \A d \in Runs \ {r} : run'[d] = run[d]
      BY <1>1, <3>2, Known DEF OwnTypes
    <3> QED
      BY <3>1, <3>3, <3>4 DEF Run
  <2>2. tx' = tx
    BY <1>0
  <2>3. OwnTypes'
    BY <1>0, <2>0, <2>1, <2>2, Known, AuditLoopAssumption DEF OwnTypes
  <2>4. StepFrame(r)
    BY <1>0, <2>0, <2>1, <2>2, Known DEF StepFrame, OwnTypes, Transactions, chainVars, nftVars, axiomVars
  <2>5. MoneyInv(r)'
    BY <1>0, <2>0, <2>1, <2>2, Known DEF MoneyInv, Transactions, At
  <2>6. PlanInv(r)'
    BY <1>0, <2>0, <2>1, <2>2, Known
       DEF PlanInv, Transactions, Uncommitted, CommitIdOf, At, chainVars, nftVars, axiomVars
  <2>7. TraceInv(r)'
    BY <1>0, <2>0, <2>1, <2>2, Known DEF TraceInv, Transactions, At
  <2> QED
    BY <2>3, <2>4, <2>5, <2>6, <2>7, OwnSteps
<1>2. CASE GoTo(r, "audit")
  <2>1. /\ run' \in [Runs -> Run]
        /\ \A d \in Runs \ {r} : run'[d] = run[d]
        /\ run'[r].at = "audit"
        /\ run'[r].mode = run[r].mode /\ run'[r].settle = run[r].settle
        /\ run'[r].plan = run[r].plan /\ run'[r].commitId = run[r].commitId
        /\ run'[r].verdict = run[r].verdict /\ run'[r].pinned = run[r].pinned
    BY <1>2, Known, RunGoes DEF OwnTypes, Places, Waits
  <2>2. tx' = tx
    BY <1>0
  <2>3. OwnTypes'
    BY <1>0, <2>1, <2>2, Known, AuditLoopAssumption DEF OwnTypes
  <2>4. StepFrame(r)
    BY <1>0, <2>1, <2>2, Known DEF StepFrame, OwnTypes, Transactions, chainVars, nftVars, axiomVars
  <2>5. MoneyInv(r)'
    BY <1>0, <2>1, <2>2, Known DEF MoneyInv, Transactions, At
  <2>6. PlanInv(r)'
    BY <1>0, <2>1, <2>2, Known
       DEF PlanInv, Transactions, Uncommitted, CommitIdOf, At, chainVars, nftVars, axiomVars
  <2>7. TraceInv(r)'
    BY <1>0, <2>1, <2>2, Known DEF TraceInv, Transactions, At
  <2> QED
    BY <2>3, <2>4, <2>5, <2>6, <2>7, OwnSteps
<1> QED
  BY <1>1, <1>2 DEF CommitReceipt

LEMMA RunProbesKeeps ==
  ASSUME IInv, NEW r \in Runs, RunProbes(r)
  PROVE  IInv'
<1>0. At(r, "audit") /\ UNCHANGED <<chainVars, payments, tx, commitBlock, stored>>
  BY DEF RunProbes
<1>1. precommitted' = [precommitted EXCEPT ![r] = run[r].commitId \in commits]
  BY DEF RunProbes
<1>2. ASSUME NEW verdict \in Verdicts,
             run' = [run EXCEPT ![r].at = "anchor", ![r].verdict = verdict]
      PROVE  IInv'
  <2>1. /\ run' \in [Runs -> Run]
        /\ \A d \in Runs \ {r} : run'[d] = run[d]
        /\ run'[r].at = "anchor" /\ run'[r].verdict = verdict
        /\ run'[r].mode = run[r].mode /\ run'[r].settle = run[r].settle
        /\ run'[r].plan = run[r].plan /\ run'[r].commitId = run[r].commitId
        /\ run'[r].pinned = run[r].pinned
    <3>1. run[r] \in Run
      BY Known DEF OwnTypes
    <3>2. [run[r] EXCEPT !.at = "anchor", !.verdict = verdict] \in Run
      BY <1>1, <3>1 DEF Run, Waits
    <3>3. run'[r] = [run[r] EXCEPT !.at = "anchor", !.verdict = verdict]
      BY <1>2, Known DEF OwnTypes
    <3>4. run' \in [Runs -> Run] /\ \A d \in Runs \ {r} : run'[d] = run[d]
      BY <1>2, <3>2, Known DEF OwnTypes
    <3> QED
      BY <3>1, <3>3, <3>4 DEF Run
  <2>2. tx' = tx
    BY <1>0
  <2>3. OwnTypes'
    BY <1>0, <1>1, <2>1, <2>2, Known, AuditLoopAssumption DEF OwnTypes
  <2>4. StepFrame(r)
    BY <1>0, <1>1, <2>1, <2>2, Known DEF StepFrame, OwnTypes, Transactions, chainVars, nftVars, axiomVars
  <2>5. MoneyInv(r)'
    BY <1>0, <1>1, <2>1, <2>2, Known DEF MoneyInv, Transactions, At
  <2>6. PlanInv(r)'
    <3>1. run[r].commitId # None => precommitted'[r]
      BY <1>1, Known DEF PlanInv, OwnTypes
    <3>2. tx[r]["reveal"] = "none"
      BY <1>0, Known DEF PlanInv, At
    <3> QED
      BY <1>0, <2>1, <2>2, <3>1, <3>2, Known
         DEF PlanInv, Uncommitted, CommitIdOf, At, chainVars, nftVars, axiomVars
  <2>7. TraceInv(r)'
    BY <1>0, <1>1, <2>1, <2>2, Known DEF TraceInv, Transactions, At
  <2> QED
    BY <2>3, <2>4, <2>5, <2>6, <2>7, OwnSteps
<1>3. CASE GoTo(r, "returned")
  <2>1. /\ run' \in [Runs -> Run]
        /\ \A d \in Runs \ {r} : run'[d] = run[d]
        /\ run'[r].at = "returned"
        /\ run'[r].mode = run[r].mode /\ run'[r].settle = run[r].settle
        /\ run'[r].plan = run[r].plan /\ run'[r].commitId = run[r].commitId
        /\ run'[r].verdict = run[r].verdict /\ run'[r].pinned = run[r].pinned
    BY <1>3, Known, RunGoes DEF OwnTypes, Places, Waits
  <2>2. tx' = tx
    BY <1>0
  <2>3. OwnTypes'
    BY <1>0, <1>1, <2>1, <2>2, Known, AuditLoopAssumption DEF OwnTypes
  <2>4. StepFrame(r)
    BY <1>0, <1>1, <2>1, <2>2, Known DEF StepFrame, OwnTypes, Transactions, chainVars, nftVars, axiomVars
  <2>5. MoneyInv(r)'
    BY <1>0, <1>1, <2>1, <2>2, Known DEF MoneyInv, Transactions, At
  <2>6. PlanInv(r)'
    BY <1>0, <1>1, <2>1, <2>2, Known
       DEF PlanInv, Transactions, Uncommitted, CommitIdOf, At, chainVars, nftVars, axiomVars
  <2>7. TraceInv(r)'
    BY <1>0, <1>1, <2>1, <2>2, Known DEF TraceInv, Transactions, At
  <2> QED
    BY <2>3, <2>4, <2>5, <2>6, <2>7, OwnSteps
<1> QED
  BY <1>2, <1>3, VerdictIsOne DEF RunProbes

LEMMA AnchorReportKeeps ==
  ASSUME IInv, NEW r \in Runs, AnchorReport(r)
  PROVE  IInv'
<1>0. At(r, "anchor") /\ UNCHANGED <<chainVars, payments, tx, commitBlock, precommitted>>
  BY DEF AnchorReport
<1>1. ASSUME NEW place \in {"returned", "receipt"}, stored' = stored \cup {<<r, "report">>},
             run' = [run EXCEPT ![r].at = place, ![r].pinned = TRUE]
      PROVE  IInv'
  <2>1. /\ run' \in [Runs -> Run]
        /\ \A d \in Runs \ {r} : run'[d] = run[d]
        /\ run'[r].at = place /\ run'[r].pinned = TRUE
        /\ run'[r].mode = run[r].mode /\ run'[r].settle = run[r].settle
        /\ run'[r].plan = run[r].plan /\ run'[r].commitId = run[r].commitId
        /\ run'[r].verdict = run[r].verdict
    <3>1. run[r] \in Run
      BY Known DEF OwnTypes
    <3>2. [run[r] EXCEPT !.at = place, !.pinned = TRUE] \in Run
      BY <1>1, <3>1 DEF Run, Waits
    <3>3. run'[r] = [run[r] EXCEPT !.at = place, !.pinned = TRUE]
      BY <1>1, Known DEF OwnTypes
    <3>4. run' \in [Runs -> Run] /\ \A d \in Runs \ {r} : run'[d] = run[d]
      BY <1>1, <3>2, Known DEF OwnTypes
    <3> QED
      BY <3>1, <3>3, <3>4 DEF Run
  <2>2. tx' = tx
    BY <1>0
  <2>3. OwnTypes'
    BY <1>0, <1>1, <2>1, <2>2, Known, AuditLoopAssumption DEF OwnTypes
  <2>4. StepFrame(r)
    BY <1>0, <1>1, <2>1, <2>2, Known DEF StepFrame, OwnTypes, Transactions, chainVars, nftVars, axiomVars
  <2>5. MoneyInv(r)'
    BY <1>0, <1>1, <2>1, <2>2, Known DEF MoneyInv, Transactions, At
  <2>6. PlanInv(r)'
    BY <1>0, <1>1, <2>1, <2>2, Known
       DEF PlanInv, Transactions, Uncommitted, CommitIdOf, At, chainVars, nftVars, axiomVars
  <2>7. TraceInv(r)'
    BY <1>0, <1>1, <2>1, <2>2, Known DEF TraceInv, Transactions, At
  <2> QED
    BY <2>3, <2>4, <2>5, <2>6, <2>7, OwnSteps
<1>2. ASSUME NEW place \in {"returned", "receipt"}, stored' = stored,
             run' = [run EXCEPT ![r].at = place, ![r].pinned = FALSE]
      PROVE  IInv'
  <2>1. /\ run' \in [Runs -> Run]
        /\ \A d \in Runs \ {r} : run'[d] = run[d]
        /\ run'[r].at = place /\ run'[r].pinned = FALSE
        /\ run'[r].mode = run[r].mode /\ run'[r].settle = run[r].settle
        /\ run'[r].plan = run[r].plan /\ run'[r].commitId = run[r].commitId
        /\ run'[r].verdict = run[r].verdict
    <3>1. run[r] \in Run
      BY Known DEF OwnTypes
    <3>2. [run[r] EXCEPT !.at = place, !.pinned = FALSE] \in Run
      BY <1>2, <3>1 DEF Run, Waits
    <3>3. run'[r] = [run[r] EXCEPT !.at = place, !.pinned = FALSE]
      BY <1>2, Known DEF OwnTypes
    <3>4. run' \in [Runs -> Run] /\ \A d \in Runs \ {r} : run'[d] = run[d]
      BY <1>2, <3>2, Known DEF OwnTypes
    <3> QED
      BY <3>1, <3>3, <3>4 DEF Run
  <2>2. tx' = tx
    BY <1>0
  <2>3. OwnTypes'
    BY <1>0, <1>2, <2>1, <2>2, Known, AuditLoopAssumption DEF OwnTypes
  <2>4. StepFrame(r)
    BY <1>0, <1>2, <2>1, <2>2, Known DEF StepFrame, OwnTypes, Transactions, chainVars, nftVars, axiomVars
  <2>5. MoneyInv(r)'
    BY <1>0, <1>2, <2>1, <2>2, Known DEF MoneyInv, Transactions, At
  <2>6. PlanInv(r)'
    BY <1>0, <1>2, <2>1, <2>2, Known
       DEF PlanInv, Transactions, Uncommitted, CommitIdOf, At, chainVars, nftVars, axiomVars
  <2>7. TraceInv(r)'
    BY <1>0, <1>2, <2>1, <2>2, Known DEF TraceInv, Transactions, At
  <2> QED
    BY <2>3, <2>4, <2>5, <2>6, <2>7, OwnSteps
<1>3. ASSUME run' = [run EXCEPT ![r].at = "returned", ![r].verdict = "none"], stored' = stored
      PROVE  IInv'
  <2>1. /\ run' \in [Runs -> Run]
        /\ \A d \in Runs \ {r} : run'[d] = run[d]
        /\ run'[r].at = "returned" /\ run'[r].verdict = "none"
        /\ run'[r].mode = run[r].mode /\ run'[r].settle = run[r].settle
        /\ run'[r].plan = run[r].plan /\ run'[r].commitId = run[r].commitId
        /\ run'[r].pinned = run[r].pinned
    <3>1. run[r] \in Run
      BY Known DEF OwnTypes
    <3>2. [run[r] EXCEPT !.at = "returned", !.verdict = "none"] \in Run
      BY <1>3, <3>1 DEF Run, Waits
    <3>3. run'[r] = [run[r] EXCEPT !.at = "returned", !.verdict = "none"]
      BY <1>3, Known DEF OwnTypes
    <3>4. run' \in [Runs -> Run] /\ \A d \in Runs \ {r} : run'[d] = run[d]
      BY <1>3, <3>2, Known DEF OwnTypes
    <3> QED
      BY <3>1, <3>3, <3>4 DEF Run
  <2>2. tx' = tx
    BY <1>0
  <2>3. OwnTypes'
    BY <1>0, <1>3, <2>1, <2>2, Known, AuditLoopAssumption DEF OwnTypes
  <2>4. StepFrame(r)
    BY <1>0, <1>3, <2>1, <2>2, Known DEF StepFrame, OwnTypes, Transactions, chainVars, nftVars, axiomVars
  <2>5. MoneyInv(r)'
    BY <1>0, <1>3, <2>1, <2>2, Known DEF MoneyInv, Transactions, At
  <2>6. PlanInv(r)'
    BY <1>0, <1>3, <2>1, <2>2, Known
       DEF PlanInv, Transactions, Uncommitted, CommitIdOf, At, chainVars, nftVars, axiomVars
  <2>7. TraceInv(r)'
    BY <1>0, <1>3, <2>1, <2>2, Known DEF TraceInv, Transactions, At
  <2> QED
    BY <2>3, <2>4, <2>5, <2>6, <2>7, OwnSteps
<1> QED
  BY <1>1, <1>2, <1>3 DEF AnchorReport, AfterAnchor, Upload

LEMMA PostReceiptKeeps ==
  ASSUME IInv, NEW r \in Runs, PostReceipt(r)
  PROVE  IInv'
<1>0. At(r, "receipt") /\ UNCHANGED <<chainVars, payments, commitBlock, stored, precommitted>>
  BY DEF PostReceipt
<1>1. CASE GoTo(r, "log") /\ Send(r, "feedback")
  <2>1. /\ run' \in [Runs -> Run]
        /\ \A d \in Runs \ {r} : run'[d] = run[d]
        /\ run'[r].at = "log"
        /\ run'[r].mode = run[r].mode /\ run'[r].settle = run[r].settle
        /\ run'[r].plan = run[r].plan /\ run'[r].commitId = run[r].commitId
        /\ run'[r].verdict = run[r].verdict /\ run'[r].pinned = run[r].pinned
    BY <1>1, Known, RunGoes DEF OwnTypes, Places, Waits
  <2>2. /\ tx' \in [Runs -> [Transactions -> Statuses]]
        /\ \A d \in Runs \ {r} : tx'[d] = tx[d]
        /\ tx'[r]["feedback"] = "pending"
        /\ \A k \in Transactions \ {"feedback"} : tx'[r][k] = tx[r][k]
    BY <1>1, Known, TxSent DEF OwnTypes, Transactions
  <2>3. OwnTypes'
    BY <1>0, <2>1, <2>2, Known, AuditLoopAssumption DEF OwnTypes
  <2>4. StepFrame(r)
    BY <1>0, <2>1, <2>2, Known DEF StepFrame, OwnTypes, Transactions, chainVars, nftVars, axiomVars
  <2>5. MoneyInv(r)'
    BY <1>0, <2>1, <2>2, Known DEF MoneyInv, Transactions, At
  <2>6. PlanInv(r)'
    BY <1>0, <2>1, <2>2, Known
       DEF PlanInv, Transactions, Uncommitted, CommitIdOf, At, chainVars, nftVars, axiomVars
  <2>7. TraceInv(r)'
    BY <1>0, <2>1, <2>2, Known DEF TraceInv, Transactions, At
  <2> QED
    BY <2>3, <2>4, <2>5, <2>6, <2>7, OwnSteps
<1>2. CASE GoTo(r, "returned") /\ UNCHANGED tx
  <2>1. /\ run' \in [Runs -> Run]
        /\ \A d \in Runs \ {r} : run'[d] = run[d]
        /\ run'[r].at = "returned"
        /\ run'[r].mode = run[r].mode /\ run'[r].settle = run[r].settle
        /\ run'[r].plan = run[r].plan /\ run'[r].commitId = run[r].commitId
        /\ run'[r].verdict = run[r].verdict /\ run'[r].pinned = run[r].pinned
    BY <1>2, Known, RunGoes DEF OwnTypes, Places, Waits
  <2>2. tx' = tx
    BY <1>2
  <2>3. OwnTypes'
    BY <1>0, <2>1, <2>2, Known, AuditLoopAssumption DEF OwnTypes
  <2>4. StepFrame(r)
    BY <1>0, <2>1, <2>2, Known DEF StepFrame, OwnTypes, Transactions, chainVars, nftVars, axiomVars
  <2>5. MoneyInv(r)'
    BY <1>0, <2>1, <2>2, Known DEF MoneyInv, Transactions, At
  <2>6. PlanInv(r)'
    BY <1>0, <2>1, <2>2, Known
       DEF PlanInv, Transactions, Uncommitted, CommitIdOf, At, chainVars, nftVars, axiomVars
  <2>7. TraceInv(r)'
    BY <1>0, <2>1, <2>2, Known DEF TraceInv, Transactions, At
  <2> QED
    BY <2>3, <2>4, <2>5, <2>6, <2>7, OwnSteps
<1> QED
  BY <1>1, <1>2 DEF PostReceipt

LEMMA WriteLogKeeps ==
  ASSUME IInv, NEW r \in Runs, WriteLog(r)
  PROVE  IInv'
<1>0. At(r, "log") /\ UNCHANGED <<chainVars, payments, tx, commitBlock, precommitted>>
  BY DEF WriteLog
<1>1. ASSUME stored' = stored \cup {<<r, "log">>}, GoTo(r, "pin")
      PROVE  IInv'
  <2>1. /\ run' \in [Runs -> Run]
        /\ \A d \in Runs \ {r} : run'[d] = run[d]
        /\ run'[r].at = "pin"
        /\ run'[r].mode = run[r].mode /\ run'[r].settle = run[r].settle
        /\ run'[r].plan = run[r].plan /\ run'[r].commitId = run[r].commitId
        /\ run'[r].verdict = run[r].verdict /\ run'[r].pinned = run[r].pinned
    BY <1>1, Known, RunGoes DEF OwnTypes, Places, Waits
  <2>2. tx' = tx
    BY <1>0
  <2>3. OwnTypes'
    BY <1>0, <1>1, <2>1, <2>2, Known, AuditLoopAssumption DEF OwnTypes
  <2>4. StepFrame(r)
    BY <1>0, <1>1, <2>1, <2>2, Known DEF StepFrame, OwnTypes, Transactions, chainVars, nftVars, axiomVars
  <2>5. MoneyInv(r)'
    BY <1>0, <1>1, <2>1, <2>2, Known DEF MoneyInv, Transactions, At
  <2>6. PlanInv(r)'
    BY <1>0, <1>1, <2>1, <2>2, Known
       DEF PlanInv, Transactions, Uncommitted, CommitIdOf, At, chainVars, nftVars, axiomVars
  <2>7. TraceInv(r)'
    BY <1>0, <1>1, <2>1, <2>2, Known DEF TraceInv, Transactions, At
  <2> QED
    BY <2>3, <2>4, <2>5, <2>6, <2>7, OwnSteps
<1>2. ASSUME stored' = stored, GoTo(r, "reveal")
      PROVE  IInv'
  <2>1. /\ run' \in [Runs -> Run]
        /\ \A d \in Runs \ {r} : run'[d] = run[d]
        /\ run'[r].at = "reveal"
        /\ run'[r].mode = run[r].mode /\ run'[r].settle = run[r].settle
        /\ run'[r].plan = run[r].plan /\ run'[r].commitId = run[r].commitId
        /\ run'[r].verdict = run[r].verdict /\ run'[r].pinned = run[r].pinned
    BY <1>2, Known, RunGoes DEF OwnTypes, Places, Waits
  <2>2. tx' = tx
    BY <1>0
  <2>3. OwnTypes'
    BY <1>0, <1>2, <2>1, <2>2, Known, AuditLoopAssumption DEF OwnTypes
  <2>4. StepFrame(r)
    BY <1>0, <1>2, <2>1, <2>2, Known DEF StepFrame, OwnTypes, Transactions, chainVars, nftVars, axiomVars
  <2>5. MoneyInv(r)'
    BY <1>0, <1>2, <2>1, <2>2, Known DEF MoneyInv, Transactions, At
  <2>6. PlanInv(r)'
    BY <1>0, <1>2, <2>1, <2>2, Known
       DEF PlanInv, Transactions, Uncommitted, CommitIdOf, At, chainVars, nftVars, axiomVars
  <2>7. TraceInv(r)'
    BY <1>0, <1>2, <2>1, <2>2, Known DEF TraceInv, Transactions, At
  <2> QED
    BY <2>3, <2>4, <2>5, <2>6, <2>7, OwnSteps
<1> QED
  BY <1>1, <1>2 DEF WriteLog, Upload

LEMMA PinRootKeeps ==
  ASSUME IInv, NEW r \in Runs, PinRoot(r)
  PROVE  IInv'
<1>0. At(r, "pin") /\ GoTo(r, "reveal") /\ UNCHANGED <<chainVars, payments, commitBlock, stored, precommitted>>
  BY DEF PinRoot
<1>1. CASE Send(r, "pin")
  <2>1. /\ run' \in [Runs -> Run]
        /\ \A d \in Runs \ {r} : run'[d] = run[d]
        /\ run'[r].at = "reveal"
        /\ run'[r].mode = run[r].mode /\ run'[r].settle = run[r].settle
        /\ run'[r].plan = run[r].plan /\ run'[r].commitId = run[r].commitId
        /\ run'[r].verdict = run[r].verdict /\ run'[r].pinned = run[r].pinned
    BY <1>0, Known, RunGoes DEF OwnTypes, Places, Waits
  <2>2. /\ tx' \in [Runs -> [Transactions -> Statuses]]
        /\ \A d \in Runs \ {r} : tx'[d] = tx[d]
        /\ tx'[r]["pin"] = "pending"
        /\ \A k \in Transactions \ {"pin"} : tx'[r][k] = tx[r][k]
    BY <1>1, Known, TxSent DEF OwnTypes, Transactions
  <2>3. OwnTypes'
    BY <1>0, <2>1, <2>2, Known, AuditLoopAssumption DEF OwnTypes
  <2>4. StepFrame(r)
    BY <1>0, <2>1, <2>2, Known DEF StepFrame, OwnTypes, Transactions, chainVars, nftVars, axiomVars
  <2>5. MoneyInv(r)'
    BY <1>0, <2>1, <2>2, Known DEF MoneyInv, Transactions, At
  <2>6. PlanInv(r)'
    BY <1>0, <2>1, <2>2, Known
       DEF PlanInv, Transactions, Uncommitted, CommitIdOf, At, chainVars, nftVars, axiomVars
  <2>7. TraceInv(r)'
    BY <1>0, <2>1, <2>2, Known DEF TraceInv, Transactions, At
  <2> QED
    BY <2>3, <2>4, <2>5, <2>6, <2>7, OwnSteps
<1>2. CASE UNCHANGED tx
  <2>1. /\ run' \in [Runs -> Run]
        /\ \A d \in Runs \ {r} : run'[d] = run[d]
        /\ run'[r].at = "reveal"
        /\ run'[r].mode = run[r].mode /\ run'[r].settle = run[r].settle
        /\ run'[r].plan = run[r].plan /\ run'[r].commitId = run[r].commitId
        /\ run'[r].verdict = run[r].verdict /\ run'[r].pinned = run[r].pinned
    BY <1>0, Known, RunGoes DEF OwnTypes, Places, Waits
  <2>2. tx' = tx
    BY <1>2
  <2>3. OwnTypes'
    BY <1>0, <2>1, <2>2, Known, AuditLoopAssumption DEF OwnTypes
  <2>4. StepFrame(r)
    BY <1>0, <2>1, <2>2, Known DEF StepFrame, OwnTypes, Transactions, chainVars, nftVars, axiomVars
  <2>5. MoneyInv(r)'
    BY <1>0, <2>1, <2>2, Known DEF MoneyInv, Transactions, At
  <2>6. PlanInv(r)'
    BY <1>0, <2>1, <2>2, Known
       DEF PlanInv, Transactions, Uncommitted, CommitIdOf, At, chainVars, nftVars, axiomVars
  <2>7. TraceInv(r)'
    BY <1>0, <2>1, <2>2, Known DEF TraceInv, Transactions, At
  <2> QED
    BY <2>3, <2>4, <2>5, <2>6, <2>7, OwnSteps
<1> QED
  BY <1>1, <1>2 DEF PinRoot

LEMMA SendRevealKeeps ==
  ASSUME IInv, NEW r \in Runs, SendReveal(r)
  PROVE  IInv'
<1>0. At(r, "reveal") /\ GoTo(r, "returned") /\ UNCHANGED <<chainVars, payments, commitBlock, stored, precommitted>>
  BY DEF SendReveal
<1>1. CASE run[r].commitId # None /\ Send(r, "reveal")
  <2>1. /\ run' \in [Runs -> Run]
        /\ \A d \in Runs \ {r} : run'[d] = run[d]
        /\ run'[r].at = "returned"
        /\ run'[r].mode = run[r].mode /\ run'[r].settle = run[r].settle
        /\ run'[r].plan = run[r].plan /\ run'[r].commitId = run[r].commitId
        /\ run'[r].verdict = run[r].verdict /\ run'[r].pinned = run[r].pinned
    BY <1>0, Known, RunGoes DEF OwnTypes, Places, Waits
  <2>2. /\ tx' \in [Runs -> [Transactions -> Statuses]]
        /\ \A d \in Runs \ {r} : tx'[d] = tx[d]
        /\ tx'[r]["reveal"] = "pending"
        /\ \A k \in Transactions \ {"reveal"} : tx'[r][k] = tx[r][k]
    BY <1>1, Known, TxSent DEF OwnTypes, Transactions
  <2>3. OwnTypes'
    BY <1>0, <1>1, <2>1, <2>2, Known, AuditLoopAssumption DEF OwnTypes
  <2>4. StepFrame(r)
    BY <1>0, <1>1, <2>1, <2>2, Known DEF StepFrame, OwnTypes, Transactions, chainVars, nftVars, axiomVars
  <2>5. MoneyInv(r)'
    BY <1>0, <1>1, <2>1, <2>2, Known DEF MoneyInv, Transactions, At
  <2>6. PlanInv(r)'
    BY <1>0, <1>1, <2>1, <2>2, Known
       DEF PlanInv, Transactions, Uncommitted, CommitIdOf, At, chainVars, nftVars, axiomVars
  <2>7. TraceInv(r)'
    BY <1>0, <1>1, <2>1, <2>2, Known DEF TraceInv, Transactions, At
  <2> QED
    BY <2>3, <2>4, <2>5, <2>6, <2>7, OwnSteps
<1>2. CASE UNCHANGED tx
  <2>1. /\ run' \in [Runs -> Run]
        /\ \A d \in Runs \ {r} : run'[d] = run[d]
        /\ run'[r].at = "returned"
        /\ run'[r].mode = run[r].mode /\ run'[r].settle = run[r].settle
        /\ run'[r].plan = run[r].plan /\ run'[r].commitId = run[r].commitId
        /\ run'[r].verdict = run[r].verdict /\ run'[r].pinned = run[r].pinned
    BY <1>0, Known, RunGoes DEF OwnTypes, Places, Waits
  <2>2. tx' = tx
    BY <1>2
  <2>3. OwnTypes'
    BY <1>0, <2>1, <2>2, Known, AuditLoopAssumption DEF OwnTypes
  <2>4. StepFrame(r)
    BY <1>0, <2>1, <2>2, Known DEF StepFrame, OwnTypes, Transactions, chainVars, nftVars, axiomVars
  <2>5. MoneyInv(r)'
    BY <1>0, <2>1, <2>2, Known DEF MoneyInv, Transactions, At
  <2>6. PlanInv(r)'
    BY <1>0, <2>1, <2>2, Known
       DEF PlanInv, Transactions, Uncommitted, CommitIdOf, At, chainVars, nftVars, axiomVars
  <2>7. TraceInv(r)'
    BY <1>0, <2>1, <2>2, Known DEF TraceInv, Transactions, At
  <2> QED
    BY <2>3, <2>4, <2>5, <2>6, <2>7, OwnSteps
<1> QED
  BY <1>1, <1>2 DEF SendReveal

LEMMA StepKeeps ==
  ASSUME IInv, NEW r \in Runs, Step(r)
  PROVE  IInv'
  BY GateKeeps, PayMarketplaceKeeps, SendSplitKeeps, SplitReceiptKeeps, ReadCapabilitiesKeeps,
     SendCommitKeeps, CommitReceiptKeeps, RunProbesKeeps, AnchorReportKeeps, PostReceiptKeeps,
     WriteLogKeeps, PinRootKeeps, SendRevealKeeps DEF Step

-----------------------------------------------------------------------------
(* The steps of the chains                                                 *)

LEMMA TxIncluded ==
  ASSUME tx \in [Runs -> [Transactions -> Statuses]], NEW r \in Runs,
         NEW kind \in Transactions, NEW status \in {"mined", "reverted"},
         Included(r, kind, status)
  PROVE  /\ tx' \in [Runs -> [Transactions -> Statuses]]
         /\ \A d \in Runs \ {r} : tx'[d] = tx[d]
         /\ tx[r][kind] = "pending" /\ tx'[r][kind] = status
         /\ \A k \in Transactions \ {kind} : tx'[r][k] = tx[r][k]
  BY DEF Included, Statuses

\* A transaction that is mined and touches no contract the invariant speaks of.
LEMMA PlainInclusion ==
  ASSUME IInv, NEW r \in Runs, NEW kind \in {"split", "commit", "feedback"},
         NEW status \in {"mined", "reverted"}, Included(r, kind, status),
         kind = "commit" => status = "reverted",
         UNCHANGED <<chainVars, run, commitBlock, stored, precommitted>>,
         payments' = IF kind = "split" /\ status = "mined"
                     THEN [payments EXCEPT ![r] = @ \cup {"direct_split"}] ELSE payments
  PROVE  IInv'
<1>1. /\ tx' \in [Runs -> [Transactions -> Statuses]]
      /\ \A d \in Runs \ {r} : tx'[d] = tx[d]
      /\ tx[r][kind] = "pending" /\ tx'[r][kind] = status
      /\ \A k \in Transactions \ {kind} : tx'[r][k] = tx[r][k]
  BY Known, TxIncluded DEF OwnTypes, Transactions
<1>2. /\ payments' \in [Runs -> SUBSET {"x402", "direct_split"}]
      /\ payments[r] \subseteq payments'[r]
      /\ kind = "split" /\ status = "mined" => "direct_split" \in payments'[r]
      /\ kind # "split" => payments'[r] = payments[r]
      /\ \A d \in Runs \ {r} : payments'[d] = payments[d]
  BY Known DEF OwnTypes
<1>3. OwnTypes'
  BY <1>1, <1>2, Known DEF OwnTypes
<1>4. StepFrame(r)
  BY <1>1, <1>2, Known DEF StepFrame, OwnTypes, Transactions, chainVars, nftVars, axiomVars
<1>5. MoneyInv(r)'
  BY <1>1, <1>2, Known DEF MoneyInv, Transactions, At
<1>6. PlanInv(r)'
  BY <1>1, Known
     DEF PlanInv, Transactions, Uncommitted, CommitIdOf, At,
         chainVars, nftVars, axiomVars
<1>7. TraceInv(r)'
  BY <1>1, Known DEF TraceInv, Transactions, At
<1> QED
  BY <1>3, <1>4, <1>5, <1>6, <1>7, OwnSteps

\* A commit that is mined is there, and is the one the run will compute the id of.
LEMMA MineCommitKeeps ==
  ASSUME IInv, NEW r \in Runs, MineCommit(r)
  PROVE  IInv'
<1>0. UNCHANGED <<nftVars, run, payments, stored, precommitted, operatorOf, revealed, reveals, block>>
  BY DEF MineCommit, CommitPlan
<1>1. /\ tx' \in [Runs -> [Transactions -> Statuses]]
      /\ \A d \in Runs \ {r} : tx'[d] = tx[d]
      /\ tx[r]["commit"] = "pending" /\ tx'[r]["commit"] = "mined"
      /\ \A k \in Transactions \ {"commit"} : tx'[r][k] = tx[r][k]
  BY Known, TxIncluded DEF OwnTypes, Transactions, MineCommit
<1>2. block \in 0 .. MaxBlock /\ commitBlock' = [commitBlock EXCEPT ![r] = block]
  BY DEF MineCommit, IInv, TypeOK, AxiomTypeOK
<1>3. run[r].plan \in Plans
  BY <1>1, Known DEF PlanInv, OwnTypes, Run
<1>4. commits' = commits \cup {CommitId(Wallet, AgentOf[r], run[r].plan, block)}
  BY DEF MineCommit, CommitPlan
<1>5. CommitId(Wallet, AgentOf[r], run[r].plan, block) \in CommitIds
  BY <1>2, <1>3, AuditLoopAssumption DEF CommitId, CommitIds
<1>6. TypeOK'
  <2>1. NftTypeOK' /\ AxiomTypeOK'
    BY <1>0, <1>4, <1>5 DEF IInv, TypeOK, NftTypeOK, AxiomTypeOK, nftVars
  <2>2. OwnTypes' /\ commitBlock' \in [Runs -> 0 .. MaxBlock]
    BY <1>0, <1>1, <1>2, Known DEF OwnTypes
  <2> QED
    BY <2>1, <2>2 DEF TypeOK, OwnTypes, Statuses
<1>7. ASSUME NEW d \in Runs PROVE RunInv(d)'
  <2>1. MoneyInv(d)'
    BY <1>0, <1>1, Known DEF MoneyInv, Transactions, At
  <2>2. PlanInv(d)'
    <3>1. CASE d = r
      <4>1. CommitIdOf(r)' \in commits'
        BY <1>0, <1>2, <1>4, Known DEF CommitIdOf
      <4> QED
        BY <3>1, <4>1, <1>0, <1>1, <1>4, Known DEF PlanInv, Transactions, Uncommitted, At
    <3>2. CASE d # r
      <4>1. CommitIdOf(d)' = CommitIdOf(d)
        BY <3>2, <1>0, <1>2, Known DEF CommitIdOf
      <4> QED
        BY <3>2, <4>1, <1>0, <1>1, <1>4, Known DEF PlanInv, Transactions, Uncommitted, At
    <3> QED
      BY <3>1, <3>2
  <2>3. TraceInv(d)'
    BY <1>0, <1>1, Known DEF TraceInv, Transactions, At
  <2> QED
    BY <2>1, <2>2, <2>3 DEF RunInv
<1>8. ChainInv'
  <2>1. \A d \in Runs : tx'[d]["reveal"] = tx[d]["reveal"] /\ tx'[d]["pin"] = tx[d]["pin"]
    BY <1>1 DEF Transactions
  <2> QED
    BY <1>0, <2>1 DEF IInv, ChainInv, nftVars
<1> QED
  BY <1>6, <1>7, <1>8 DEF IInv

LEMMA MinePinKeeps ==
  ASSUME IInv, NEW r \in Runs, MinePin(r)
  PROVE  IInv'
<1>0. /\ UNCHANGED <<axiomVars, run, payments, commitBlock, stored, precommitted, nftOwner>>
      /\ memoryRoot' = [memoryRoot EXCEPT ![AgentOf[r]] = r]
  BY DEF MinePin, UpdateMemoryRoot
<1>1. /\ tx' \in [Runs -> [Transactions -> Statuses]]
      /\ \A d \in Runs \ {r} : tx'[d] = tx[d]
      /\ tx[r]["pin"] = "pending" /\ tx'[r]["pin"] = "mined"
      /\ \A k \in Transactions \ {"pin"} : tx'[r][k] = tx[r][k]
  BY Known, TxIncluded DEF OwnTypes, Transactions, MinePin
<1>2. TypeOK'
  BY <1>0, <1>1, AuditLoopAssumption
     DEF IInv, TypeOK, NftTypeOK, AxiomTypeOK, axiomVars, Statuses
<1>3. ASSUME NEW d \in Runs PROVE RunInv(d)'
  <2>1. /\ \A k \in Transactions \ {"pin"} : tx'[d][k] = tx[d][k]
        /\ tx'[d]["pin"] # "none" => tx[d]["pin"] # "none"
    BY <1>1
  <2>2. MoneyInv(d)'
    BY <1>0, <2>1, Known DEF MoneyInv, Transactions, At
  <2>3. PlanInv(d)'
    <3>1. CommitIdOf(d)' = CommitIdOf(d)
      BY <1>0 DEF CommitIdOf
    <3> QED
      BY <1>0, <2>1, <3>1, Known DEF PlanInv, Transactions, Uncommitted, At, axiomVars
  <2>4. TraceInv(d)'
    BY <1>0, <2>1, Known DEF TraceInv, Transactions, At
  <2> QED
    BY <2>2, <2>3, <2>4 DEF RunInv
<1>4. ChainInv'
  <2>1. /\ \A v \in reveals' :
             v.id \in revealed' /\ (v.result \in Runs => tx'[v.result]["reveal"] # "none")
        /\ \A v, w \in reveals' : v.id = w.id => v = w
    BY <1>0, <1>1 DEF IInv, ChainInv, axiomVars, Transactions
  <2>2. ASSUME NEW t \in Tokens
        PROVE  /\ memoryRoot'[t] \in Runs => tx'[memoryRoot'[t]]["pin"] # "none"
               /\ memoryRoot'[t] # NoRoot => <<memoryRoot'[t], "log">> \in stored'
    <3>1. memoryRoot'[t] = r \/ memoryRoot'[t] = memoryRoot[t]
      BY <1>0 DEF IInv, TypeOK, NftTypeOK
    <3>2. <<r, "log">> \in stored
      BY <1>1, Known DEF TraceInv
    <3> QED
      BY <3>1, <3>2, <1>0, <1>1 DEF IInv, ChainInv, Transactions
  <2> QED
    BY <2>1, <2>2 DEF ChainInv
<1> QED
  BY <1>2, <1>3, <1>4 DEF IInv

\* A reveal, of one of the runs or of another, uses up its commit.
LEMMA RevealChain ==
  ASSUME IInv, NEW token \in Tokens, NEW id, NEW plan, NEW result \in Results,
         RevealPlan(Wallet, token, id, plan, result),
         result \in Runs => tx'[result]["reveal"] # "none",
         \A d \in Runs : tx[d]["reveal"] # "none" => tx'[d]["reveal"] # "none",
         \A d \in Runs : tx[d]["pin"] # "none" => tx'[d]["pin"] # "none",
         UNCHANGED <<nftVars, stored>>
  PROVE  ChainInv' /\ AxiomTypeOK'
<1>1. /\ id \in commits /\ id \notin revealed
      /\ revealed' = revealed \cup {id}
      /\ reveals' = reveals \cup {[token |-> token, id |-> id, result |-> result]}
      /\ UNCHANGED <<operatorOf, commits, block>>
  BY DEF RevealPlan, MayReveal
<1>2. AxiomTypeOK /\ ChainInv
  BY DEF IInv, TypeOK
<1>3. AxiomTypeOK'
  BY <1>1, <1>2 DEF AxiomTypeOK, Reveals
<1>4. ASSUME NEW v \in reveals'
      PROVE  v.id \in revealed' /\ (v.result \in Runs => tx'[v.result]["reveal"] # "none")
  BY <1>1, <1>2 DEF ChainInv
<1>5. ASSUME NEW v \in reveals', NEW w \in reveals', v.id = w.id PROVE v = w
  BY <1>1, <1>2, <1>5 DEF ChainInv
<1>6. \A t \in Tokens :
        /\ memoryRoot'[t] \in Runs => tx'[memoryRoot'[t]]["pin"] # "none"
        /\ memoryRoot'[t] # NoRoot => <<memoryRoot'[t], "log">> \in stored'
  BY <1>2 DEF ChainInv, nftVars
<1> QED
  BY <1>3, <1>4, <1>5, <1>6 DEF ChainInv

LEMMA MineRevealKeeps ==
  ASSUME IInv, NEW r \in Runs, MineReveal(r)
  PROVE  IInv'
<1>0. UNCHANGED <<nftVars, run, payments, commitBlock, stored, precommitted, commits>>
  BY DEF MineReveal, RevealPlan
<1>1. /\ tx' \in [Runs -> [Transactions -> Statuses]]
      /\ \A d \in Runs \ {r} : tx'[d] = tx[d]
      /\ tx[r]["reveal"] = "pending" /\ tx'[r]["reveal"] = "mined"
      /\ \A k \in Transactions \ {"reveal"} : tx'[r][k] = tx[r][k]
  BY Known, TxIncluded DEF OwnTypes, Transactions, MineReveal
<1>2. ChainInv' /\ AxiomTypeOK'
  BY <1>0, <1>1, RevealChain, AuditLoopAssumption DEF MineReveal, Transactions
<1>3. TypeOK'
  BY <1>0, <1>1, <1>2 DEF IInv, TypeOK, NftTypeOK, nftVars, Statuses
<1>4. ASSUME NEW d \in Runs PROVE RunInv(d)'
  <2>1. MoneyInv(d)'
    BY <1>0, <1>1, Known DEF MoneyInv, Transactions, At
  <2>2. PlanInv(d)'
    BY <1>0, <1>1, Known DEF PlanInv, Transactions, At, CommitIdOf
  <2>3. TraceInv(d)'
    BY <1>0, <1>1, Known DEF TraceInv, Transactions, At
  <2> QED
    BY <2>1, <2>2, <2>3 DEF RunInv
<1> QED
  BY <1>2, <1>3, <1>4 DEF IInv

-----------------------------------------------------------------------------
(* What moves besides the runs                                             *)

\* A step that leaves the runs alone keeps what is true of each.
LEMMA RunsRest ==
  ASSUME IInv, UNCHANGED <<run, payments, tx, commitBlock, precommitted>>,
         commits \subseteq commits', stored \subseteq stored'
  PROVE  \A r \in Runs : RunInv(r)'
<1> SUFFICES ASSUME NEW r \in Runs PROVE RunInv(r)'
  OBVIOUS
<1>1. MoneyInv(r)'
  BY Known DEF MoneyInv, At
<1>2. PlanInv(r)'
  BY Known DEF PlanInv, At, CommitIdOf
<1>3. TraceInv(r)'
  BY Known DEF TraceInv, At
<1> QED
  BY <1>1, <1>2, <1>3 DEF RunInv

LEMMA OtherRunsKeep ==
  ASSUME IInv, OtherRuns
  PROVE  IInv'
<1>1. ASSUME NEW token \in Tokens, NEW plan \in OtherPlans, CommitPlan(Wallet, token, plan),
             UNCHANGED <<nftVars, loopVars>>
      PROVE  IInv'
  <2>1. CommitId(Wallet, token, plan, block) \in CommitIds
    BY AuditLoopAssumption DEF IInv, TypeOK, AxiomTypeOK, CommitId, CommitIds
  <2>2. TypeOK'
    BY <1>1, <2>1 DEF CommitPlan, IInv, TypeOK, NftTypeOK, AxiomTypeOK, nftVars, loopVars
  <2>3. ChainInv'
    BY <1>1 DEF CommitPlan, IInv, ChainInv, nftVars, loopVars
  <2> QED
    BY <1>1, <2>2, <2>3, RunsRest DEF IInv, CommitPlan, loopVars
<1>2. ASSUME NEW id \in commits, RevealPlan(Wallet, id.token, id, id.plan, Other),
             UNCHANGED <<nftVars, loopVars>>
      PROVE  IInv'
  <2>1. id.token \in Tokens
    BY DEF IInv, TypeOK, AxiomTypeOK, CommitIds
  <2>2. ChainInv' /\ AxiomTypeOK'
    BY <1>2, <2>1, RevealChain, AuditLoopAssumption DEF loopVars
  <2>3. TypeOK'
    BY <1>2, <2>2 DEF IInv, TypeOK, NftTypeOK, nftVars, loopVars
  <2> QED
    BY <1>2, <2>2, <2>3, RunsRest DEF IInv, RevealPlan, loopVars
<1>3. ASSUME NEW token \in Tokens, UpdateMemoryRoot(Wallet, token, Other),
             stored' = stored \cup {<<Other, "log">>},
             UNCHANGED <<axiomVars, run, payments, tx, commitBlock, precommitted>>
      PROVE  IInv'
  <2>1. TypeOK'
    BY <1>3, AuditLoopAssumption
       DEF UpdateMemoryRoot, IInv, TypeOK, NftTypeOK, AxiomTypeOK, axiomVars
  <2>2. ASSUME NEW t \in Tokens
        PROVE  /\ memoryRoot'[t] \in Runs => tx'[memoryRoot'[t]]["pin"] # "none"
               /\ memoryRoot'[t] # NoRoot => <<memoryRoot'[t], "log">> \in stored'
    BY <1>3, AuditLoopAssumption DEF UpdateMemoryRoot, IInv, TypeOK, NftTypeOK, ChainInv
  <2>3. ChainInv'
    BY <1>3, <2>2 DEF IInv, ChainInv, axiomVars
  <2> QED
    BY <1>3, <2>1, <2>3, RunsRest DEF IInv, axiomVars
<1> QED
  BY <1>1, <1>2, <1>3 DEF OtherRuns

\* The owners and the clock.
LEMMA SurroundingsKeep ==
  ASSUME IInv, UNCHANGED loopVars, UNCHANGED <<memoryRoot, commits, revealed, reveals>>,
         NftTypeOK', AxiomTypeOK'
  PROVE  IInv'
<1>1. TypeOK'
  BY DEF IInv, TypeOK, loopVars
<1>2. ChainInv'
  BY DEF IInv, ChainInv, loopVars
<1> QED
  BY <1>1, <1>2, RunsRest DEF IInv, loopVars

LEMMA ChainKeeps ==
  ASSUME IInv, Chain
  PROVE  IInv'
<1> USE DEF IInv, TypeOK, NftTypeOK, AxiomTypeOK
<1>1. ASSUME NEW r \in Runs, MineSplit(r) \/ MineFeedback(r) PROVE IInv'
  BY <1>1, PlainInclusion DEF MineSplit, MineFeedback
<1>2. ASSUME NEW r \in Runs, NEW kind \in {"split", "commit"}, Reverts(r, kind) PROVE IInv'
  BY <1>2, PlainInclusion DEF Reverts
<1>3. ASSUME NEW token \in Tokens, NEW allowed \in BOOLEAN,
             SetOperator(nftOwner[token], token, Wallet, allowed),
             UNCHANGED <<nftVars, loopVars>>
      PROVE  IInv'
  BY <1>3, SurroundingsKeep, AuditLoopAssumption DEF SetOperator, nftVars
<1>4. ASSUME NEW token \in Tokens, NEW to \in Callers \cup {Nobody},
             ITransferFrom(nftOwner[token], to, token), UNCHANGED <<axiomVars, loopVars>>
      PROVE  IInv'
  BY <1>4, SurroundingsKeep DEF ITransferFrom, axiomVars
<1>5. ASSUME NewBlock, UNCHANGED <<nftVars, loopVars>> PROVE IInv'
  BY <1>5, SurroundingsKeep, AxiomAssumption DEF NewBlock, nftVars
<1> QED
  BY <1>1, <1>2, <1>3, <1>4, <1>5, MineCommitKeeps, MinePinKeeps, MineRevealKeeps DEF Chain

LEMMA NextKeepsIInv == IInv /\ [Next]_vars => IInv'
<1>1. ASSUME IInv, UNCHANGED vars PROVE IInv'
  <2>1. NftTypeOK' /\ AxiomTypeOK'
    BY <1>1 DEF IInv, TypeOK, NftTypeOK, AxiomTypeOK, vars, chainVars, nftVars, axiomVars
  <2> QED
    BY <1>1, <2>1, SurroundingsKeep DEF vars, chainVars, nftVars, axiomVars
<1> QED
  BY <1>1, StepKeeps, OtherRunsKeep, ChainKeeps DEF Next

-----------------------------------------------------------------------------
(* The theorems                                                            *)

\* A returned transcript hides no money, on whichever rail it moved and whatever
\* failed after it moved; what it may name without a charge is x402
\* (cross-agent.ts:684, live-deps.ts:230-245).
THEOREM LoopTranscriptIsHonest == Spec => []TranscriptIsHonest
<1>1. IInv => TranscriptIsHonest
  <2> SUFFICES ASSUME IInv, NEW r \in Runs, Returned(r)
               PROVE  LET unclear == run[r].verdict \notin {"compliant", "non_compliant"}
                      IN  /\ run[r].settle = "none" => payments[r] = {}
                          /\ run[r].settle = "direct_split" <=> "direct_split" \in payments[r]
                          /\ payments[r] # {} /\ unclear => Refundable(r)
                          /\ Refundable(r) =>
                               unclear /\ (payments[r] # {} \/ run[r].settle = "x402")
    BY DEF TranscriptIsHonest
  <2>1. /\ run[r].settle = "none" => payments[r] = {}
        /\ run[r].settle = "direct_split" <=> "direct_split" \in payments[r]
    BY Known DEF MoneyInv, Returned, At
  <2>2. /\ run[r].verdict \in Verdicts \cup {"none"}
        /\ run[r].settle \in {"none", "x402", "direct_split"}
    BY Known DEF OwnTypes, Run
  <2> QED
    BY <2>1, <2>2 DEF Refundable, Verdicts
<1> QED
  BY <1>1, InitIInv, NextKeepsIInv, PTL DEF Spec

\* A run reveals a commit that exists, once, and one that was there before its
\* probes began (cross-agent.ts:399-412, :664).
THEOREM LoopRevealFindsItsCommit == Spec => []RevealFindsItsCommit
<1>1. IInv => RevealFindsItsCommit
  BY DEF IInv, RunInv, PlanInv, ChainInv, RevealFindsItsCommit, TypeOK, AxiomTypeOK, Reveals
<1> QED
  BY <1>1, InitIInv, NextKeepsIInv, PTL DEF Spec

\* What the chain points to is stored, and only an audit whose receipt was sent
\* leaves a trail (cross-agent.ts:639).
THEOREM LoopEveryTraceIsStored == Spec => []EveryTraceIsStored
<1>1. IInv => EveryTraceIsStored
  <2> SUFFICES ASSUME IInv PROVE EveryTraceIsStored
    OBVIOUS
  <2>1. ASSUME NEW r \in Runs,
               r \in {v.result : v \in reveals} \cup {memoryRoot[t] : t \in Tokens}
        PROVE  run[r].verdict \in Verdicts /\ tx[r]["feedback"] # "none"
    <3>1. tx[r]["reveal"] # "none" \/ tx[r]["pin"] # "none"
      BY <2>1 DEF IInv, ChainInv
    <3> QED
      BY <3>1, Known DEF TraceInv
  <2>2. \A r \in Runs :
          tx[r]["feedback"] = "mined" /\ run[r].pinned => <<r, "report">> \in stored
    BY Known DEF TraceInv
  <2>3. \A t \in Tokens : memoryRoot[t] # NoRoot => <<memoryRoot[t], "log">> \in stored
    BY DEF IInv, ChainInv
  <2> QED
    BY <2>1, <2>2, <2>3 DEF EveryTraceIsStored
<1> QED
  BY <1>1, InitIInv, NextKeepsIInv, PTL DEF Spec

-----------------------------------------------------------------------------
(* One audit from the inside                                               *)

EvidenceSpec == EvidenceInit /\ [][EvidenceNext]_evidenceVars

Probe ==
  [at : {"fetch", "body", "local", "done"}, ok : BOOLEAN, said : {"yes", "no", "other"},
   header : {"none", "hex", "envelope"}, env : {<<>>} \cup {<<e>> : e \in AllEnvelopes},
   trace : {"absent", "true", "other"}, provider : TeeProviders \cup {"none"},
   locally : {"null", "true", "false"}, checked : {"none", "refused", "relaxed", "strict"}]

\* An envelope is accepted once the probe is over, and only one that is bound.
Vetted(p) ==
  /\ p.at # "done" => p.locally = "null" /\ p.checked = "none"
  /\ p.locally = "true" \/ p.checked = "strict" => p.env # <<>> /\ Bound(p.env[1])

\* The bytes of a report that is not pinned yet, and what they hash to.
BytesOf(r) == [evidence |-> r.evidence, value |-> r.value, uri |-> NoUri]
HashOf(bytes) == [of |-> "report", bytes |-> <<bytes>>]

\* A report names the bytes the storage has of it, or nothing; the adapter's, its hash.
Anchored(r) ==
  \/ /\ auditor.by # "adapter" /\ BytesOf(r) \in pins
     /\ r.uri = Root(BytesOf(r)) /\ r.hash = HashOf(BytesOf(r))
  \/ auditor.by # "adapter" /\ r.uri = NoUri /\ r.hash = ZERO_HASH
  \/ auditor.by = "adapter" /\ r.uri = NoUri /\ r.hash = HashOf(BytesOf(r))

Heeded(trace) == \E i \in DOMAIN probes : probes[i].ok /\ probes[i].trace = trace

\* What a report says of the TEE was heard from a probe.
Traced(r) ==
  /\ r.evidence.tee = "true" => Heeded("true")
  /\ r.evidence.tee = "false" => Heeded("other")
  /\ r.evidence.tee = "null" /\ auditor.by # "adapter" => ~Heeded("true") /\ ~Heeded("other")
  /\ r.evidence.attestation = "hex" =>
       \E i \in DOMAIN probes : probes[i].ok /\ probes[i].header = "hex"

\* What the feedback was sent with.
Backed ==
  \/ /\ feedback.uri.scheme = "root"
     /\ \E bytes \in pins : feedback.uri = Root(bytes) /\ feedback.hash = HashOf(bytes)
  \/ feedback.uri.scheme = "empty" /\ feedback.hash = ZERO_HASH
  \/ feedback.uri.scheme = "placeholder" /\ auditor.by = "adapter"


IsReport(r) ==
  r = [evidence |-> r.evidence, value |-> r.value, uri |-> r.uri, hash |-> r.hash,
       feedbackTx |-> r.feedbackTx]

EvidenceInv ==
  /\ auditor \in Auditors /\ stage \in {"probes", "post", "returned", "rejected"}
  /\ feedback.status \in {"none", "pending", "mined", "reverted"}
  /\ feedback = [status |-> feedback.status, uri |-> feedback.uri, hash |-> feedback.hash,
                 value |-> feedback.value]
  /\ probes \in [1 .. ProbeCount -> Probe]
  /\ \A i \in DOMAIN probes : Vetted(probes[i])
  /\ \A bytes \in pins : HashOf(bytes) = canonicalizeAuditReport(bytes).hash
  /\ stage = "probes" => report = <<>>
  /\ stage = "post" => report # <<>>
  /\ stage \in {"probes", "post"} => feedback.status = "none"
  /\ report = <<>> \/ /\ report = <<report[1]>> /\ IsReport(report[1])
                      /\ Anchored(report[1]) /\ Traced(report[1])
                      /\ report[1].feedbackTx => feedback.status # "none"
  /\ feedback.status # "none" => Backed

-----------------------------------------------------------------------------

\* The sidecar calls valid only what is bound.
LEMMA ValidIsBound ==
  ASSUME NEW env \in AllEnvelopes, serve(env) = "valid"
  PROVE  Bound(env)
  BY DEF serve, verifyTdxQuote, parseQuote, Bound

LEMMA ReverifiedIsBound ==
  ASSUME NEW env \in AllEnvelopes, "true" \in reverifyAttestationLocally(env)
  PROVE  Bound(env)
<1>1. "valid" = serve(env)
  BY DEF reverifyAttestationLocally, Heard, forward
<1> QED
  BY <1>1, ValidIsBound

LEMMA StrictIsBound ==
  ASSUME NEW env \in AllEnvelopes, NEW strict, NEW hasVerifier, NEW by,
         "strict" \in verifyTeeAttestation(env, strict, hasVerifier, by)
  PROVE  Bound(env)
<1>1. "valid" = serve(env)
  BY DEF verifyTeeAttestation, Heard, forward
<1> QED
  BY <1>1, ValidIsBound

LEMMA VerdictsOfChecks ==
  ASSUME NEW env
  PROVE  /\ reverifyAttestationLocally(env) \subseteq {"null", "true", "false"}
         /\ \A strict, hasVerifier, by :
              verifyTeeAttestation(env, strict, hasVerifier, by) \subseteq
                {"refused", "relaxed", "strict"}
  BY DEF reverifyAttestationLocally, verifyTeeAttestation

\* What the last probe to tell told: something a probe told, or no probe told anything.
LEMMA LastToldIs ==
  ASSUME DOMAIN probes = 1 .. ProbeCount, NEW field, NEW nothing
  PROVE  \/ /\ LastTold(field, nothing) = nothing
            /\ \A i \in DOMAIN probes : probes[i].ok => field[i] = nothing
         \/ \E i \in DOMAIN probes :
              probes[i].ok /\ field[i] # nothing /\ LastTold(field, nothing) = field[i]
<1> DEFINE told == {i \in DOMAIN probes : probes[i].ok /\ field[i] # nothing}
<1>1. CASE told = {}
  BY <1>1 DEF LastTold
<1>2. CASE told # {}
  <2>1. told \subseteq 1 .. ProbeCount /\ IsFiniteSet(1 .. ProbeCount)
    BY EvidenceAssumption, FS_Interval
  <2>2. told \subseteq Int /\ IsFiniteSet(told)
    <3>1. told \subseteq Int
      BY <2>1, EvidenceAssumption
    <3> HIDE DEF told
    <3> QED
      BY <2>1, <3>1, FS_Subset, Zenon
  <2>3. Max(told) \in told
    <3> HIDE DEF told
    <3> QED
      BY <1>2, <2>2, HasMax
  <2>4. LastTold(field, nothing) = field[Max(told)]
    BY <1>2, Zenon DEF LastTold
  <2> DEFINE m == Max(told)
  <2>5. m \in DOMAIN probes /\ probes[m].ok /\ field[m] # nothing
    BY <2>3
  <2> HIDE DEF m
  <2> QED
    BY <2>4, <2>5 DEF m
<1> QED
  BY <1>1, <1>2

-----------------------------------------------------------------------------

LEMMA EvidenceInitially == EvidenceInit => EvidenceInv
<1> SUFFICES ASSUME EvidenceInit PROVE EvidenceInv
  OBVIOUS
<1>1. NotAsked \in Probe /\ Vetted(NotAsked)
  BY DEF NotAsked, Probe, Vetted
<1>2. probes \in [1 .. ProbeCount -> Probe] /\ \A i \in DOMAIN probes : Vetted(probes[i])
  BY <1>1 DEF EvidenceInit
<1> QED
  BY <1>2 DEF EvidenceInit, EvidenceInv, NoFeedback

\* A probe that comes to its next step, while there is no report.
LEMMA ProbeGoes ==
  ASSUME EvidenceInv, stage = "probes", NEW i \in DOMAIN probes, NEW p \in Probe, Vetted(p),
         Told(i, p), UNCHANGED <<auditor, stage, report, pins, feedback>>
  PROVE  EvidenceInv'
<1>1. probes' \in [1 .. ProbeCount -> Probe]
  BY DEF EvidenceInv, Told
<1>2. \A j \in DOMAIN probes' : Vetted(probes'[j])
  BY DEF EvidenceInv, Told
<1> QED
  BY <1>1, <1>2 DEF EvidenceInv, canonicalizeAuditReport, HashOf, Vetted

LEMMA FetchKeeps ==
  ASSUME EvidenceInv, NEW i \in DOMAIN probes, Fetch(i)
  PROVE  EvidenceInv'
<1> DEFINE p == probes[i]
<1>1. p \in Probe /\ Vetted(p) /\ stage = "probes" /\ p.at = "fetch"
  BY DEF EvidenceInv, Fetch, Asking
<1>2. UNCHANGED <<auditor, stage, report, pins, feedback>>
  BY DEF Fetch
<1>3. \/ Told(i, [p EXCEPT !.at = "done"])
      \/ \E header \in {"none", "hex"} : Told(i, [p EXCEPT !.at = "body", !.header = header])
      \/ \E env \in {<<>>} \cup {<<e>> : e \in AllEnvelopes} :
           Told(i, [p EXCEPT !.at = "body", !.header = "envelope", !.env = env])
  BY EvidenceAssumption DEF Fetch
<1> HIDE DEF p
<1>4. CASE Told(i, [p EXCEPT !.at = "done"])
  <2>1. [p EXCEPT !.at = "done"] \in Probe /\ Vetted([p EXCEPT !.at = "done"])
    BY <1>1 DEF Probe, Vetted
  <2> QED
    BY <1>1, <1>2, <1>4, <2>1, ProbeGoes
<1>5. ASSUME NEW header \in {"none", "hex"}, Told(i, [p EXCEPT !.at = "body", !.header = header])
      PROVE  EvidenceInv'
  <2>1. /\ [p EXCEPT !.at = "body", !.header = header] \in Probe
        /\ Vetted([p EXCEPT !.at = "body", !.header = header])
    BY <1>1 DEF Probe, Vetted
  <2> QED
    BY <1>1, <1>2, <1>5, <2>1, ProbeGoes
<1>6. ASSUME NEW env \in {<<>>} \cup {<<e>> : e \in AllEnvelopes},
             Told(i, [p EXCEPT !.at = "body", !.header = "envelope", !.env = env])
      PROVE  EvidenceInv'
  <2>1. /\ [p EXCEPT !.at = "body", !.header = "envelope", !.env = env] \in Probe
        /\ Vetted([p EXCEPT !.at = "body", !.header = "envelope", !.env = env])
    BY <1>1 DEF Probe, Vetted
  <2> QED
    BY <1>1, <1>2, <1>6, <2>1, ProbeGoes
<1> QED
  BY <1>3, <1>4, <1>5, <1>6

LEMMA BodyKeeps ==
  ASSUME EvidenceInv, NEW i \in DOMAIN probes, Body(i)
  PROVE  EvidenceInv'
<1> DEFINE p == probes[i]
<1>1. p \in Probe /\ Vetted(p) /\ stage = "probes" /\ p.at = "body"
  BY DEF EvidenceInv, Body, Asking
<1>2. UNCHANGED <<auditor, stage, report, pins, feedback>>
  BY DEF Body
<1>3. CASE Told(i, [NotAsked EXCEPT !.at = "done"])
  <2>1. [NotAsked EXCEPT !.at = "done"] \in Probe /\ Vetted([NotAsked EXCEPT !.at = "done"])
    BY DEF Probe, Vetted, NotAsked
  <2> QED
    BY <1>1, <1>2, <1>3, <2>1, ProbeGoes
<1>4. ASSUME NEW said \in {"yes", "no", "other"}, NEW trace \in {"absent", "true", "other"},
             NEW provider \in TeeProviders \cup {"none"}, NEW at \in {"local", "done"},
             Told(i, [p EXCEPT !.at = at, !.ok = TRUE, !.said = said, !.trace = trace,
                        !.provider = provider])
      PROVE  EvidenceInv'
  <2> DEFINE q == [p EXCEPT !.at = at, !.ok = TRUE, !.said = said, !.trace = trace,
                     !.provider = provider]
  <2> HIDE DEF p
  <2> DEFINE told == [p EXCEPT !.at = at, !.ok = TRUE, !.said = said]
  <2>0. told \in Probe /\ told.locally = p.locally /\ told.checked = p.checked
    BY <1>1 DEF Probe
  <2>1. q = [told EXCEPT !.trace = trace, !.provider = provider]
    OBVIOUS
  <2> HIDE DEF q, told
  <2>2. q \in Probe /\ q.locally = p.locally /\ q.checked = p.checked
    BY <2>0, <2>1 DEF Probe
  <2>3. Vetted(q)
    BY <1>1, <2>2 DEF Vetted
  <2> QED
    BY <1>1, <1>2, <1>4, <2>2, <2>3, ProbeGoes DEF q
<1>5. ASSUME NEW said \in {"yes", "no", "other"}, NEW trace \in {"absent", "true", "other"},
             NEW provider \in TeeProviders \cup {"none"},
             Told(i, [p EXCEPT !.at = IF auditor.verifier THEN "local" ELSE "done", !.ok = TRUE,
                        !.said = said, !.trace = trace, !.provider = provider])
      PROVE  EvidenceInv'
  <2> DEFINE at == IF auditor.verifier THEN "local" ELSE "done"
  <2>1. at \in {"local", "done"}
    OBVIOUS
  <2>2. Told(i, [p EXCEPT !.at = at, !.ok = TRUE, !.said = said, !.trace = trace,
                   !.provider = provider])
    BY <1>5, Zenon
  <2> HIDE DEF at
  <2> QED
    BY <1>4, <2>1, <2>2
<1> QED
  BY <1>3, <1>5, Zenon DEF Body

LEMMA LocalKeeps ==
  ASSUME EvidenceInv, NEW i \in DOMAIN probes, Local(i)
  PROVE  EvidenceInv'
<1> DEFINE p == probes[i]
<1>1. p \in Probe /\ Vetted(p) /\ stage = "probes" /\ p.at = "local"
  BY DEF EvidenceInv, Local, Asking
<1>2. PICK verdict \in IF p.env = <<>> THEN {"null"} ELSE reverifyAttestationLocally(p.env[1]) :
        Told(i, [p EXCEPT !.at = "done", !.locally = verdict])
  BY DEF Local
<1> HIDE DEF p
<1>3. p.env # <<>> => p.env[1] \in AllEnvelopes
  BY <1>1 DEF Probe
<1>4. verdict \in {"null", "true", "false"}
  BY <1>2, VerdictsOfChecks
<1>5. verdict = "true" => p.env # <<>> /\ Bound(p.env[1])
  BY <1>2, <1>3, ReverifiedIsBound
<1> DEFINE q == [p EXCEPT !.at = "done", !.locally = verdict]
<1>6. q \in Probe /\ Vetted(q)
  BY <1>1, <1>4, <1>5 DEF Probe, Vetted
<1>7. UNCHANGED <<auditor, stage, report, pins, feedback>>
  BY DEF Local
<1> HIDE DEF q
<1> QED
  BY <1>1, <1>2, <1>6, <1>7, ProbeGoes DEF q

\* What was heard stays heard: the check by a library changes its own outcome only.
LEMMA AttestKeeps ==
  ASSUME EvidenceInv, NEW i \in DOMAIN probes, Attest(i)
  PROVE  EvidenceInv'
<1> DEFINE p == probes[i]
<1>1. p \in Probe /\ Vetted(p) /\ p.at = "done" /\ p.env # <<>>
  BY DEF EvidenceInv, Attest
<1>2. PICK verdict :
        /\ \E strict, hasVerifier \in BOOLEAN, by \in {"not", "by the signer", "by another"} :
             verdict \in verifyTeeAttestation(p.env[1], strict, hasVerifier, by)
        /\ Told(i, [p EXCEPT !.checked = verdict])
  BY DEF Attest
<1> HIDE DEF p
<1>3. p.env[1] \in AllEnvelopes
  BY <1>1 DEF Probe
<1>4. verdict \in {"refused", "relaxed", "strict"}
  BY <1>2, VerdictsOfChecks
<1>5. verdict = "strict" => Bound(p.env[1])
  BY <1>2, <1>3, StrictIsBound
<1> DEFINE q == [p EXCEPT !.checked = verdict]
<1>6. q \in Probe /\ Vetted(q)
  BY <1>1, <1>4, <1>5 DEF Probe, Vetted
<1>7. q.ok = p.ok /\ q.trace = p.trace /\ q.header = p.header
  BY <1>1 DEF Probe
<1> HIDE DEF q
<1>8. UNCHANGED <<auditor, stage, report, pins, feedback>> /\ Told(i, q)
  BY <1>2 DEF Attest, q
<1>9. /\ probes' \in [1 .. ProbeCount -> Probe] /\ DOMAIN probes' = DOMAIN probes
      /\ \A j \in DOMAIN probes' : Vetted(probes'[j])
      /\ \A j \in DOMAIN probes : /\ probes'[j].ok = probes[j].ok
                                /\ probes'[j].trace = probes[j].trace
                                /\ probes'[j].header = probes[j].header
  BY <1>6, <1>7, <1>8 DEF EvidenceInv, Told, p
<1>10. (Traced(report[1]))' <=> Traced(report[1])
  BY <1>8, <1>9 DEF Traced, Heeded
<1>11. (Anchored(report[1]))' <=> Anchored(report[1])
  BY <1>8 DEF Anchored
<1>12. Backed' <=> Backed
  BY <1>8 DEF Backed
<1>13. (IsReport(report[1]))' <=> IsReport(report[1])
  BY <1>8 DEF IsReport
<1>14. \A j \in DOMAIN probes' : Vetted(probes[j])'
  BY <1>9 DEF Vetted
<1> QED
  BY <1>8, <1>9, <1>10, <1>11, <1>12, <1>13, <1>14 DEF EvidenceInv, canonicalizeAuditReport, HashOf

-----------------------------------------------------------------------------

\* What the drafts of a report say is what the probes told.
LEMMA OrchestratorDraftTraced ==
  ASSUME EvidenceInv, auditor.by # "adapter"
  PROVE  Traced(OrchestratorDraft)
<1>1. DOMAIN probes = 1 .. ProbeCount /\ \A i \in DOMAIN probes : probes[i] \in Probe
  BY DEF EvidenceInv
<1>2. \A i \in DOMAIN probes :
        /\ ProbeTraces[i] = "null" => probes[i].trace = "absent"
        /\ ProbeTraces[i] = "true" => probes[i].trace = "true"
        /\ ProbeTraces[i] = "false" => probes[i].trace = "other"
        /\ ProbeTraces[i] \in {"null", "true", "false"}
        /\ ProbeRoots[i] = "hex" => probes[i].header = "hex"
  BY <1>1 DEF ProbeTraces, tee_verified, Probe, ProbeRoots, attestation_root
<1> DEFINE tee == LastTold(ProbeTraces, "null")
           root == LastTold(ProbeRoots, "none")
<1>3. \/ tee = "null" /\ \A i \in DOMAIN probes : probes[i].ok => ProbeTraces[i] = "null"
      \/ \E i \in DOMAIN probes : probes[i].ok /\ ProbeTraces[i] # "null" /\ tee = ProbeTraces[i]
  BY <1>1, LastToldIs
<1>4. \/ root = "none"
      \/ \E i \in DOMAIN probes : probes[i].ok /\ root = ProbeRoots[i]
  BY <1>1, LastToldIs
<1> HIDE DEF tee, root
<1>5. /\ OrchestratorDraft.evidence.tee = tee
      /\ OrchestratorDraft.evidence.attestation = IF root = "hex" THEN "hex" ELSE "none"
  BY DEF OrchestratorDraft, Draft, tee, root
<1> QED
  BY <1>2, <1>3, <1>4, <1>5 DEF Traced, Heeded

LEMMA AdapterDraftTraced ==
  ASSUME EvidenceInv, auditor.by = "adapter"
  PROVE  Traced(AdapterDraft)
<1>1. DOMAIN probes = 1 .. ProbeCount
  BY DEF EvidenceInv
<1>2. \A i \in DOMAIN probes : ProbeRoots[i] = "hex" => probes[i].header = "hex"
  BY DEF ProbeRoots, attestation_root
<1> DEFINE root == LastTold(ProbeRoots, "none")
<1>3. \/ root = "none"
      \/ \E i \in DOMAIN probes : probes[i].ok /\ root = ProbeRoots[i]
  BY <1>1, LastToldIs
<1> HIDE DEF root
<1>4. AdapterDraft.evidence.tee = "null" /\ AdapterDraft.evidence.attestation = root
  BY DEF AdapterDraft, Draft, root
<1> QED
  BY <1>2, <1>3, <1>4 DEF Traced, Heeded

\* Every draft names nothing yet.
LEMMA Drafts ==
  /\ IsReport(OrchestratorDraft) /\ IsReport(AdapterDraft)
  /\ OrchestratorDraft.uri = NoUri /\ AdapterDraft.uri = NoUri
  /\ OrchestratorDraft.hash = ZERO_HASH
  /\ ~OrchestratorDraft.feedbackTx /\ ~AdapterDraft.feedbackTx
<1>1. ASSUME NEW evidence, NEW value
      PROVE  LET r == Draft(evidence, value) IN
               IsReport(r) /\ r.uri = NoUri /\ r.hash = ZERO_HASH /\ ~r.feedbackTx
  BY DEF Draft, IsReport
<1>2. \E evidence, value : OrchestratorDraft = Draft(evidence, value)
  BY Zenon DEF OrchestratorDraft
<1>3. \E evidence, value : AdapterDraft = Draft(evidence, value)
  BY Zenon DEF AdapterDraft
<1> QED
  BY <1>1, <1>2, <1>3

\* What there is of a report when the audit goes on to its feedback.
LEMMA ReportMade ==
  ASSUME EvidenceInv, NEW r, IsReport(r), Anchored(r)', Traced(r), ~r.feedbackTx,
         stage = "probes", stage' \in {"post", "returned"}, report' = <<r>>,
         pins \subseteq pins', \A bytes \in pins' : HashOf(bytes) = canonicalizeAuditReport(bytes).hash,
         UNCHANGED <<auditor, probes, feedback>>
  PROVE  EvidenceInv'
<1>1. report' # <<>> /\ report'[1] = r
  OBVIOUS
<1>2. feedback.status = "none"
  BY DEF EvidenceInv
<1>3. (Traced(report[1]))' /\ (IsReport(report[1]))' /\ (Anchored(report[1]))'
  BY <1>1 DEF Traced, Heeded, IsReport, Anchored
<1> QED
  BY <1>1, <1>2, <1>3 DEF EvidenceInv, Vetted, HashOf, canonicalizeAuditReport

LEMMA AnchorKeeps ==
  ASSUME EvidenceInv, Anchor
  PROVE  EvidenceInv'
<1> USE DEF Anchor
<1>1. CASE stage' = "rejected" /\ UNCHANGED <<report, pins>>
  BY <1>1 DEF EvidenceInv, Vetted, HashOf, canonicalizeAuditReport
<1>2. CASE /\ auditor.by = "adapter"
           /\ report' = <<[AdapterDraft EXCEPT !.hash = canonicalizeAuditReport(AdapterDraft).hash]>>
           /\ stage' = AfterReport /\ UNCHANGED pins
  <2>0. PICK r : r = [AdapterDraft EXCEPT !.hash = canonicalizeAuditReport(AdapterDraft).hash]
    OBVIOUS
  <2>1. /\ IsReport(r) /\ r.evidence = AdapterDraft.evidence /\ r.uri = NoUri /\ ~r.feedbackTx
        /\ r.hash = HashOf(BytesOf(r))
    BY <2>0, Drafts DEF IsReport, canonicalizeAuditReport, HashOf, BytesOf
  <2>2. Traced(r)
    BY <1>2, <2>1, AdapterDraftTraced DEF Traced
  <2>3. Anchored(r)'
    <3>1. auditor' = auditor /\ auditor.by = "adapter"
      BY <1>2
    <3> QED
      BY <2>1, <3>1 DEF Anchored
  <2>4. report' = <<r>> /\ stage' \in {"post", "returned"}
    BY <1>2, <2>0 DEF AfterReport
  <2>5. pins \subseteq pins' /\ \A bytes \in pins' : HashOf(bytes) = canonicalizeAuditReport(bytes).hash
    BY <1>2 DEF EvidenceInv
  <2> QED
    BY <2>1, <2>2, <2>3, <2>4, <2>5, ReportMade
<1>3. ASSUME auditor.by # "adapter", NEW written \in writeAuditReport(OrchestratorDraft),
             report' = <<written.report>>, pins' = pins \cup written.kept, stage' = AfterReport
      PROVE  EvidenceInv'
  <2> DEFINE d == OrchestratorDraft
             c == canonicalizeAuditReport(d)
  <2>1. /\ IsReport(d) /\ d.uri = NoUri /\ d.hash = ZERO_HASH /\ ~d.feedbackTx
        /\ Traced(d)
    BY <1>3, Drafts, OrchestratorDraftTraced
  <2>2. written \in writeAuditReport(d)
    BY <1>3
  <2> HIDE DEF d
  <2>3. c.bytes = BytesOf(d) /\ c.hash = HashOf(BytesOf(d))
    BY <2>1 DEF canonicalizeAuditReport, BytesOf, HashOf
  <2>4. \/ written.report = d /\ written.kept \subseteq {c.bytes}
        \/ written.report = Populated(d, c) /\ written.kept = {c.bytes}
    BY <2>2 DEF writeAuditReport, upload
  <2> HIDE DEF c
  <2> DEFINE r == written.report
  <2>5. /\ IsReport(r) /\ ~r.feedbackTx /\ r.evidence = d.evidence /\ BytesOf(r) = BytesOf(d)
        /\ \/ r.uri = NoUri /\ r.hash = ZERO_HASH
           \/ /\ r.uri = Root(BytesOf(d)) /\ r.hash = HashOf(BytesOf(d))
              /\ written.kept = {BytesOf(d)}
    <3>1. CASE written.report = d
      BY <2>1, <3>1
    <3>2. CASE written.report = Populated(d, c) /\ written.kept = {c.bytes}
      BY <2>1, <2>3, <3>2 DEF Populated, IsReport, BytesOf
    <3> QED
      BY <2>4, <3>1, <3>2
  <2>6. written.kept \subseteq {BytesOf(d)}
    BY <2>3, <2>4
  <2> HIDE DEF r
  <2>7. Anchored(r)'
    BY <1>3, <2>5 DEF Anchored
  <2>8. Traced(r)
    BY <2>1, <2>5 DEF Traced
  <2>9. \A bytes \in pins' : HashOf(bytes) = canonicalizeAuditReport(bytes).hash
    <3>1. HashOf(BytesOf(d)) = canonicalizeAuditReport(BytesOf(d)).hash
      BY DEF HashOf, BytesOf, canonicalizeAuditReport
    <3> QED
      BY <1>3, <2>6, <3>1 DEF EvidenceInv
  <2>10. report' = <<r>> /\ stage' \in {"post", "returned"}
    BY <1>3 DEF r, AfterReport
  <2> QED
    BY <1>3, <2>5, <2>7, <2>8, <2>9, <2>10, ReportMade
<1> QED
  BY <1>1, <1>2, <1>3

\* The feedback is backed by the report it is sent with.
LEMMA FeedbackBacked ==
  ASSUME EvidenceInv, stage = "post", UNCHANGED <<auditor, pins>>, feedback' = Feedback
  PROVE  Backed' /\ feedback'.status = "pending"
<1>1. Anchored(report[1])
  BY DEF EvidenceInv
<1>2. CASE auditor.by = "adapter"
  BY <1>2 DEF Feedback, Backed, Placeholder
<1>3. CASE auditor.by # "adapter"
  <2>1. feedback'.uri = report[1].uri /\ feedback'.hash = report[1].hash
    BY <1>3 DEF Feedback
  <2>2. CASE BytesOf(report[1]) \in pins /\ report[1].uri = Root(BytesOf(report[1]))
                                        /\ report[1].hash = HashOf(BytesOf(report[1]))
    <3>1. PICK bytes \in pins : feedback'.uri = Root(bytes) /\ feedback'.hash = HashOf(bytes)
      BY <2>1, <2>2
    <3>2. feedback'.uri.scheme = "root"
      BY <3>1 DEF Root
    <3> QED
      BY <3>1, <3>2 DEF Backed, Feedback, Root, HashOf
  <2>3. CASE report[1].uri = NoUri /\ report[1].hash = ZERO_HASH
    BY <2>1, <2>3 DEF Backed, NoUri, ZERO_HASH, Feedback
  <2> QED
    BY <1>1, <1>3, <2>2, <2>3 DEF Anchored
<1> QED
  BY <1>2, <1>3 DEF Feedback

LEMMA PostKeeps ==
  ASSUME EvidenceInv, Post
  PROVE  EvidenceInv'
<1> USE DEF Post
<1>1. /\ stage' = "returned" /\ UNCHANGED <<auditor, probes, pins>>
      /\ report # <<>> /\ feedback.status = "none"
  BY DEF EvidenceInv
<1>2. feedback' = feedback \/ feedback' = Feedback
  OBVIOUS
<1>3. /\ feedback'.status # "none" => Backed'
      /\ feedback'.status \in {"none", "pending"}
      /\ (feedback = [status |-> feedback.status, uri |-> feedback.uri, hash |-> feedback.hash,
                     value |-> feedback.value])'
  <2>1. CASE feedback' = feedback
    BY <1>1, <2>1 DEF EvidenceInv
  <2>2. CASE feedback' = Feedback
    BY <1>1, <2>2, FeedbackBacked DEF Feedback
  <2> QED
    BY <1>2, <2>1, <2>2
<1>4. /\ probes' \in [1 .. ProbeCount -> Probe]
      /\ (\A i \in DOMAIN probes : Vetted(probes[i]))'
      /\ (\A bytes \in pins : HashOf(bytes) = canonicalizeAuditReport(bytes).hash)'
  BY <1>1 DEF EvidenceInv, Vetted, HashOf, canonicalizeAuditReport
<1>5. CASE UNCHANGED report
  <2>1. (Traced(report[1]))' /\ (IsReport(report[1]))' /\ (Anchored(report[1]))'
    BY <1>1, <1>5 DEF EvidenceInv, Traced, Heeded, IsReport, Anchored
  <2>2. ~report'[1].feedbackTx /\ report' = <<report'[1]>>
    BY <1>1, <1>5 DEF EvidenceInv
  <2> QED
    BY <1>1, <1>3, <1>4, <2>1, <2>2 DEF EvidenceInv
<1>6. CASE stampFeedbackTx /\ feedback' = Feedback
  <2>0. PICK r : r = [report[1] EXCEPT !.feedbackTx = TRUE]
    OBVIOUS
  <2>1. report' = <<r>> /\ feedback'.status = "pending"
    BY <1>1, <1>6, <2>0, FeedbackBacked DEF stampFeedbackTx
  <2>2. /\ IsReport(r) /\ r.evidence = report[1].evidence /\ r.value = report[1].value
        /\ r.uri = report[1].uri /\ r.hash = report[1].hash
    BY <1>1, <2>0 DEF EvidenceInv, IsReport
  <2>3. Anchored(r)' /\ Traced(r)'
    BY <1>1, <2>2 DEF EvidenceInv, Anchored, Traced, Heeded, BytesOf
  <2>4. report'[1] = r
    BY <2>1
  <2>5. (Traced(report[1]))' /\ (IsReport(report[1]))' /\ (Anchored(report[1]))'
    BY <2>2, <2>3, <2>4 DEF Traced, Heeded, IsReport, Anchored
  <2> QED
    BY <1>1, <1>3, <1>4, <2>1, <2>4, <2>5 DEF EvidenceInv
<1> QED
  BY <1>5, <1>6

LEMMA MinePostKeeps ==
  ASSUME EvidenceInv, MinePost
  PROVE  EvidenceInv'
<1>1. PICK status \in {"mined", "reverted"} : feedback' = [feedback EXCEPT !.status = status]
  BY DEF MinePost
<1>2. UNCHANGED <<auditor, probes, stage, report, pins>> /\ feedback.status = "pending"
  BY DEF MinePost
<1>3. /\ feedback'.status = status /\ feedback'.uri = feedback.uri
      /\ feedback'.hash = feedback.hash
      /\ (feedback = [status |-> feedback.status, uri |-> feedback.uri, hash |-> feedback.hash,
                     value |-> feedback.value])'
  BY <1>1 DEF EvidenceInv
<1>4. Backed'
  BY <1>2, <1>3 DEF EvidenceInv, Backed
<1>5. stage = "returned" \/ stage \notin {"probes", "post"}
  BY <1>2 DEF EvidenceInv
<1>6. report # <<>> =>
        (Traced(report[1]))' /\ (IsReport(report[1]))' /\ (Anchored(report[1]))'
  BY <1>2 DEF EvidenceInv, Traced, Heeded, IsReport, Anchored
<1>7. report # <<>> /\ report[1].feedbackTx => feedback'.status # "none"
  BY <1>3
<1> QED
  BY <1>2, <1>3, <1>4, <1>5, <1>6, <1>7 DEF EvidenceInv, Vetted, HashOf, canonicalizeAuditReport

LEMMA EvidenceKeeps == EvidenceInv /\ [EvidenceNext]_evidenceVars => EvidenceInv'
<1> SUFFICES ASSUME EvidenceInv, [EvidenceNext]_evidenceVars PROVE EvidenceInv'
  OBVIOUS
<1>1. CASE UNCHANGED evidenceVars
  BY <1>1 DEF evidenceVars, EvidenceInv, Vetted, HashOf, canonicalizeAuditReport, Traced, Heeded,
              IsReport, Anchored, Backed
<1>2. CASE EvidenceNext
  BY <1>2, FetchKeeps, BodyKeeps, LocalKeeps, AttestKeeps, AnchorKeeps, PostKeeps, MinePostKeeps
     DEF EvidenceNext
<1> QED
  BY <1>1, <1>2

\* The invariant of an audit, for any number of probes, providers and envelopes.
THEOREM EvidenceInductive == EvidenceSpec => []EvidenceInv
  BY EvidenceInitially, EvidenceKeeps, PTL DEF EvidenceSpec

\* The types: at most one report, and every status is one.
THEOREM EvidenceTypeCorrect == EvidenceSpec => []EvidenceTypeOK
<1>1. ASSUME EvidenceInv PROVE EvidenceTypeOK
  <2>1. \A i \in DOMAIN probes : probes[i] \in Probe
    BY <1>1 DEF EvidenceInv
  <2>2. Len(report) <= 1
    <3>1. Len(<<>>) <= 1 /\ \A r : Len(<<r>>) <= 1
      OBVIOUS
    <3>2. report = <<>> \/ report = <<report[1]>>
      BY <1>1 DEF EvidenceInv
    <3> QED
      BY <3>1, <3>2, Zenon
  <2> QED
    BY <1>1, <2>1, <2>2 DEF EvidenceInv, EvidenceTypeOK, Probe
<1> QED
  BY <1>1, EvidenceInductive, PTL

\* What the feedback on chain names is stored and hashes to what was posted
\* (audit-report.ts:240), and the report that is returned is the one that was hashed.
THEOREM AuditEvidenceChecksOut == EvidenceSpec => []EvidenceChecksOut
<1>1. ASSUME EvidenceInv PROVE EvidenceChecksOut
  <2>1. ASSUME Backed
        PROVE  CASE feedback.uri.scheme = "root" ->
                      \E bytes \in pins : /\ feedback.uri = Root(bytes)
                                          /\ feedback.hash = canonicalizeAuditReport(bytes).hash
                 [] feedback.uri.scheme = "empty" -> feedback.hash = ZERO_HASH
                 [] feedback.uri.scheme = "placeholder" -> auditor.by = "adapter"
    <3>1. CASE feedback.uri.scheme = "root"
      <4>1. PICK bytes \in pins : feedback.uri = Root(bytes) /\ feedback.hash = HashOf(bytes)
        BY <2>1, <3>1 DEF Backed
      <4>2. HashOf(bytes) = canonicalizeAuditReport(bytes).hash
        BY <1>1 DEF EvidenceInv
      <4> QED
        BY <3>1, <4>1, <4>2
    <3>2. CASE feedback.uri.scheme = "empty"
      BY <2>1, <3>2 DEF Backed
    <3>3. CASE feedback.uri.scheme = "placeholder"
      BY <2>1, <3>3 DEF Backed
    <3> QED
      BY <2>1, <3>1, <3>2, <3>3 DEF Backed
  <2>2. ASSUME NEW k \in DOMAIN report
        PROVE  /\ report[k].feedbackTx => feedback.status # "none"
               /\ report[k].uri # NoUri => report[k].uri.of[1] \in pins
               /\ report[k].hash # ZERO_HASH => report[k].hash.bytes[1].evidence = report[k].evidence
    <3>1. report = <<report[1]>>
      BY <1>1, <2>2 DEF EvidenceInv
    <3>2. k = 1
      BY <2>2, <3>1
    <3>3. Anchored(report[1]) /\ (report[1].feedbackTx => feedback.status # "none")
      BY <1>1, <2>2 DEF EvidenceInv
    <3> QED
      BY <3>2, <3>3 DEF Anchored, Root, HashOf, BytesOf
  <2> QED
    BY <1>1, <2>1, <2>2 DEF EvidenceInv, EvidenceChecksOut
<1> QED
  BY <1>1, EvidenceInductive, PTL

\* What a report says of the TEE was said of a probe (zg-router.ts:43), and what
\* the sidecar accepted is bound to its address and its nonce.
THEOREM AuditTeeClaimIsTraced == EvidenceSpec => []TeeClaimIsTraced
<1>1. ASSUME EvidenceInv PROVE TeeClaimIsTraced
  <2>1. ASSUME NEW k \in DOMAIN report PROVE Traced(report[k])
    <3>1. report = <<report[1]>> /\ Traced(report[1])
      BY <1>1, <2>1 DEF EvidenceInv
    <3>2. k = 1
      BY <2>1, <3>1
    <3> QED
      BY <3>1, <3>2
  <2>2. \A i \in DOMAIN probes : Vetted(probes[i])
    BY <1>1 DEF EvidenceInv
  <2> QED
    BY <2>1, <2>2 DEF TeeClaimIsTraced, Traced, Heeded, Vetted
<1> QED
  BY <1>1, EvidenceInductive, PTL

=============================================================================
