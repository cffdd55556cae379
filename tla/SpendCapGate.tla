---------------------------- MODULE SpendCapGate ----------------------------
(***************************************************************************)
(* The pre-flight gate of the orchestrator, checkSpendCap in               *)
(* apps/demo/src/spend-cap.ts, run concurrently by several runs over the   *)
(* SpendCap contract.                                                      *)
(*                                                                         *)
(* Every `await' of the function ends a step, so other runs, the cap's     *)
(* owner and the clock may act between any two steps of a run:             *)
(*                                                                         *)
(*   read -> simulate -> write -> wait -> done                             *)
(*                                                                         *)
(* A transaction that was broadcast is mined some time later, and only     *)
(* then the contract decides whether it debits or reverts.  An RPC call    *)
(* may fail; a failed broadcast may have reached the mempool all the same. *)
(***************************************************************************)
EXTENDS SpendCap

CONSTANTS
  Runs,        \* calls of checkSpendCap
  RunKey,      \* [Runs -> Keys]: the cap a run is checked against
  RunAmount,   \* [Runs -> Nat]
  Enforce      \* the runs called with enforce: true

ASSUME GateAssumption ==
  /\ RunKey \in [Runs -> Keys]
  /\ RunAmount \in [Runs -> Nat]
  /\ Enforce \subseteq Runs

VARIABLES
  step,      \* where the run is
  outcome,   \* what checkSpendCap returned
  tx,        \* the fate of the spend transaction
  seen       \* history: the cap when the transaction was broadcast

gateVars == <<step, outcome, tx, seen>>
allVars == <<vars, gateVars>>

Steps == {"read", "simulate", "write", "wait", "done"}
Reasons == {"cap_not_found", "cap_revoked", "cap_exceeded", "enforce_failed"}
Outcomes == {"none", "ok", "enforced", "threw"} \cup Reasons

GateTypeOK ==
  /\ TypeOK
  /\ step \in [Runs -> Steps]
  /\ outcome \in [Runs -> Outcomes]
  /\ tx \in [Runs -> {"none", "pending", "success", "reverted"}]
  /\ seen \in [Runs -> Cap]
  /\ \A r \in Runs : outcome[r] # "none" <=> step[r] = "done"

GateInit ==
  /\ Init
  /\ step = [r \in Runs |-> "read"]
  /\ outcome = [r \in Runs |-> "none"]
  /\ tx = [r \in Runs |-> "none"]
  /\ seen = [r \in Runs |-> NoCap]

-----------------------------------------------------------------------------

GoTo(r, next) == step' = [step EXCEPT ![r] = next]

Return(r, result) ==
  /\ step' = [step EXCEPT ![r] = "done"]
  /\ outcome' = [outcome EXCEPT ![r] = result]

\* readContract is outside the try block: its failure leaves the function.
ReadFails(r) ==
  /\ step[r] = "read"
  /\ Return(r, "threw")
  /\ UNCHANGED <<vars, tx, seen>>

\* capOf / permissionOf, and the three tests on what it returned.
ReadCap(r) ==
  LET view == PermissionOf(RunKey[r])
  IN  /\ step[r] = "read"
      /\ ~ViewReverts(RunKey[r])
      /\ UNCHANGED <<vars, tx, seen>>
      /\ \/ /\ view.maxPerPeriod = 0
            /\ Return(r, "cap_not_found")
         \/ /\ view.maxPerPeriod # 0
            /\ view.revoked
            /\ Return(r, "cap_revoked")
         \/ /\ view.maxPerPeriod # 0
            /\ ~view.revoked
            /\ RunAmount[r] > view.remaining
            /\ Return(r, "cap_exceeded")
         \/ /\ view.maxPerPeriod # 0
            /\ ~view.revoked
            /\ RunAmount[r] <= view.remaining
            /\ IF r \in Enforce
               THEN GoTo(r, "simulate") /\ UNCHANGED outcome
               ELSE Return(r, "ok")

\* simulateContract runs the call on the latest block.
Simulate(r) ==
  /\ step[r] = "simulate"
  /\ SpendAllowed(RunKey[r], RunAmount[r])
  /\ GoTo(r, "write")
  /\ UNCHANGED <<vars, outcome, tx, seen>>

\* Mutant of Broadcast: no gas estimate, the simulation is trusted.
BroadcastBlindly(r) ==
  /\ step[r] = "write"
  /\ tx' = [tx EXCEPT ![r] = "pending"]
  /\ seen' = [seen EXCEPT ![r] = caps[RunKey[r]]]

\* writeContract estimates the gas, again on the latest block, and broadcasts.
Broadcast(r) ==
  /\ step[r] = "write"
  /\ SpendAllowed(RunKey[r], RunAmount[r])
  /\ tx' = [tx EXCEPT ![r] = "pending"]
  /\ seen' = [seen EXCEPT ![r] = caps[RunKey[r]]]

Write(r) ==
  /\ Broadcast(r)
  /\ GoTo(r, "wait")
  /\ UNCHANGED <<vars, outcome>>

\* The catch block: a call that would revert, an RPC failure, a broadcast whose
\* answer was lost, a receipt that did not come in time.
EnforceFails(r) ==
  /\ Return(r, "enforce_failed")
  /\ UNCHANGED vars
  /\ \/ step[r] \in {"simulate", "write"} /\ UNCHANGED <<tx, seen>>
     \/ Broadcast(r)
     \/ step[r] = "wait" /\ tx[r] = "pending" /\ UNCHANGED <<tx, seen>>

\* Mutant of Receipt: a reverted transaction is waited for ever.
ReceiptOfSuccess(r) ==
  /\ step[r] = "wait"
  /\ tx[r] = "success"
  /\ Return(r, "enforced")
  /\ UNCHANGED <<vars, tx, seen>>

\* waitForTransactionReceipt resolves for a mined transaction of either status,
\* and checkSpendCap does not look at the status.
Receipt(r) ==
  /\ step[r] = "wait"
  /\ tx[r] \in {"success", "reverted"}
  /\ Return(r, "enforced")
  /\ UNCHANGED <<vars, tx, seen>>

\* The chain includes a pending spend; the sender is the capped account.
MineSuccess(r) ==
  /\ tx[r] = "pending"
  /\ SpendPermission(RunKey[r].account, RunKey[r], RunAmount[r])
  /\ tx' = [tx EXCEPT ![r] = "success"]
  /\ UNCHANGED <<step, outcome, seen>>

MineRevert(r) ==
  /\ tx[r] = "pending"
  /\ ~SpendAllowed(RunKey[r], RunAmount[r])
  /\ tx' = [tx EXCEPT ![r] = "reverted"]
  /\ UNCHANGED <<vars, step, outcome, seen>>

-----------------------------------------------------------------------------

\* Every awaited promise settles in the end: the RPC client has timeouts.
Settle(r) ==
  \/ ReadFails(r) \/ ReadCap(r) \/ Simulate(r) \/ Write(r)
  \/ EnforceFails(r) \/ Receipt(r)

GateNext ==
  \/ \E r \in Runs : Settle(r) \/ MineSuccess(r) \/ MineRevert(r)
  \/ Next /\ UNCHANGED gateVars

GateSpec == GateInit /\ [][GateNext]_allVars

FairGateSpec == GateSpec /\ \A r \in Runs : WF_allVars(Settle(r))

-----------------------------------------------------------------------------

\* The two look-aheads (simulate, gas estimate) leave only a race to lose: a
\* spend that is mined as a revert finds a cap somebody changed since it was
\* broadcast, or one that expired meanwhile.  The roll-over of a period never
\* turns a good spend into a bad one.
RevertHasACause ==
  [][\A r \in Runs :
       tx[r] = "pending" /\ tx'[r] = "reverted" =>
         caps[RunKey[r]] # seen[r] \/ Expired(caps[RunKey[r]])]_allVars

\* Whatever the network and the other runs do, every run gets an answer: no
\* interleaving leaves checkSpendCap waiting on a receipt it cannot read.
EveryRunSettles == \A r \in Runs : <>(step[r] = "done")

\* "Enforce path: actually call spend().  Closes the TOCTOU window [...] two
\* concurrent runs can't both pass the read check and then both spend", and
\* "race-lost CapExceeded [...] - fail closed": a run told ok, enforced has
\* debited the cap.
EnforcedMeansDebited ==
  \A r \in Runs : outcome[r] = "enforced" => tx[r] = "success"

=============================================================================
