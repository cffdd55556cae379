-------------------------- MODULE AgenticCommerce --------------------------
(***************************************************************************)
(* The job escrow, contracts/src/AgenticCommerce.sol (ERC-8183).           *)
(*                                                                         *)
(* A job moves Open -> Funded -> Submitted -> Completed, or is Rejected or *)
(* Expired on the way.  The tokens are ERC-20s that move exactly what they *)
(* are asked to or revert; a reverted call leaves no trace, so a revert is *)
(* an action that is not enabled.  The state-changing calls on a job are   *)
(* nonReentrant, so each is one atomic step, its hook calls included; the  *)
(* outcome of a hook's beforeAction is the hook contract's own state, here *)
(* the set `vetoing', and afterAction can change nothing in the job.       *)
(*                                                                         *)
(* escrowed, payout and submittedAt are history variables.                 *)
(***************************************************************************)
EXTENDS Integers, Sums

CONSTANTS
  Principals,    \* the externally owned accounts and contracts that call
  Nobody,        \* address(0)
  Escrow,        \* this contract, as a token holder
  Treasury,      \* Nobody or a token holder
  FeeBps,
  Tokens,
  Supply,        \* what each principal holds of each token at the start
  Budgets,       \* the budgets a client may fund
  Deadlines,     \* the values of expiredAt a client may ask for
  MaxJobs, MaxTime,
  MaxU256

Holders == Principals \cup {Escrow} \cup ({Treasury} \ {Nobody})

ASSUME CommerceAssumption ==
  /\ Nobody \notin Principals \cup {Escrow}
  /\ Escrow \notin Principals \cup {Treasury}
  /\ FeeBps \in 0 .. 10000
  /\ Supply \in Nat
  /\ Budgets \subseteq Nat /\ Deadlines \subseteq Nat
  /\ MaxJobs \in Nat /\ MaxTime \in Nat /\ MaxU256 \in Nat

VARIABLES
  nextJobId, jobs,          \* the contract
  balance,                  \* the tokens
  vetoing,                  \* the jobs whose hook reverts in beforeAction
  now,
  escrowed, payout, submittedAt

history == <<escrowed, payout, submittedAt>>
vars == <<nextJobId, jobs, balance, vetoing, now, history>>

JobIds == 1 .. MaxJobs
Time == 0 .. MaxTime
JobStates == {"Open", "Funded", "Submitted", "Completed", "Rejected", "Expired"}

Job == [client : Principals \cup {Nobody}, provider : Principals \cup {Nobody},
        evaluator : Principals \cup {Nobody}, paymentToken : Tokens \cup {Nobody},
        budget : Nat, expiredAt : Nat, state : JobStates, hooked : BOOLEAN]

NoJob == [client |-> Nobody, provider |-> Nobody, evaluator |-> Nobody,
          paymentToken |-> Nobody, budget |-> 0, expiredAt |-> 0,
          state |-> "Open", hooked |-> FALSE]

Payout == [client : Nat, provider : Nat, treasury : Nat, retained : Nat]
NoPayout == [client |-> 0, provider |-> 0, treasury |-> 0, retained |-> 0]

NotYet == MaxTime + 1

TypeOK ==
  /\ nextJobId \in 1 .. MaxJobs + 1
  /\ jobs \in [JobIds -> Job]
  /\ balance \in [Tokens -> [Holders -> Nat]]
  /\ vetoing \subseteq JobIds
  /\ now \in Time
  /\ escrowed \in [JobIds -> Nat]
  /\ payout \in [JobIds -> Payout]
  /\ submittedAt \in [JobIds -> Time \cup {NotYet}]

Init ==
  /\ nextJobId = 1
  /\ jobs = [j \in JobIds |-> NoJob]
  /\ balance = [t \in Tokens |->
                 [h \in Holders |-> IF h \in Principals THEN Supply ELSE 0]]
  /\ vetoing = {}
  /\ now = 0
  /\ escrowed = [j \in JobIds |-> 0]
  /\ payout = [j \in JobIds |-> NoPayout]
  /\ submittedAt = [j \in JobIds |-> NotYet]

-----------------------------------------------------------------------------

Exists(j) == jobs[j].client # Nobody
InEscrow(j) == jobs[j].state \in {"Funded", "Submitted"}
HookAccepts(j) == jobs[j].hooked => j \notin vetoing

\* An ERC-20 transfer within one token's balances.
Moved(balances, from, to, amount) ==
  [balances EXCEPT ![from] = @ - amount, ![to] = @ + amount]

\* safeTransfer out of the contract: reverts when the contract is short.
Pays(j, to, amount) ==
  LET t == jobs[j].paymentToken
  IN  /\ amount <= balance[t][Escrow]
      /\ balance' = [balance EXCEPT ![t] = Moved(@, Escrow, to, amount)]

Fee(budget) == (budget * FeeBps) \div 10000

-----------------------------------------------------------------------------

Implicit(address, caller) == IF address = Nobody THEN caller ELSE address

CreateJob(caller, provider, evaluator, token, expiredAt, hooked) ==
  /\ nextJobId <= MaxJobs
  /\ expiredAt > now
  /\ nextJobId' = nextJobId + 1
  /\ jobs' = [jobs EXCEPT ![nextJobId] =
       [client |-> caller,
        provider |-> Implicit(provider, caller),
        evaluator |-> Implicit(evaluator, caller),
        paymentToken |-> token, budget |-> 0, expiredAt |-> expiredAt,
        state |-> "Open", hooked |-> hooked]]
  /\ UNCHANGED <<balance, vetoing, now, history>>

\* No deadline is tested here: an expired Open job may still be funded.
Fund(caller, j, expectedBudget) ==
  LET t == jobs[j].paymentToken
  IN  /\ Exists(j)
      /\ jobs[j].state = "Open"
      /\ caller = jobs[j].client
      /\ expectedBudget # 0
      /\ HookAccepts(j)
      /\ expectedBudget <= balance[t][caller]
      /\ balance' = [balance EXCEPT ![t] = Moved(@, caller, Escrow, expectedBudget)]
      /\ jobs' = [jobs EXCEPT ![j].budget = expectedBudget, ![j].state = "Funded"]
      /\ escrowed' = [escrowed EXCEPT ![j] = expectedBudget]
      /\ UNCHANGED <<nextJobId, vetoing, now, payout, submittedAt>>

\* Mutant of Submit: late deliveries are taken.
SubmitLate(caller, j) ==
  /\ Exists(j)
  /\ jobs[j].state = "Funded"
  /\ caller = jobs[j].provider
  /\ HookAccepts(j)
  /\ jobs' = [jobs EXCEPT ![j].state = "Submitted"]
  /\ submittedAt' = [submittedAt EXCEPT ![j] = now]
  /\ UNCHANGED <<nextJobId, balance, vetoing, now, escrowed, payout>>

Submit(caller, j) ==
  /\ Exists(j)
  /\ jobs[j].state = "Funded"
  /\ caller = jobs[j].provider
  /\ now <= jobs[j].expiredAt
  /\ HookAccepts(j)
  /\ jobs' = [jobs EXCEPT ![j].state = "Submitted"]
  /\ submittedAt' = [submittedAt EXCEPT ![j] = now]
  /\ UNCHANGED <<nextJobId, balance, vetoing, now, escrowed, payout>>

\* budget * feeBps is checked arithmetic.  The fee leaves the contract only if
\* there is a treasury; the provider is paid budget - fee in either case.
Complete(caller, j) ==
  LET t        == jobs[j].paymentToken
      fee      == Fee(jobs[j].budget)
      provider == jobs[j].budget - fee
      treasury == IF Treasury # Nobody THEN fee ELSE 0
      paid     == Moved(balance[t], Escrow, jobs[j].provider, provider)
  IN  /\ Exists(j)
      /\ jobs[j].state = "Submitted"
      /\ caller = jobs[j].evaluator
      /\ HookAccepts(j)
      /\ jobs[j].budget * FeeBps <= MaxU256
      /\ provider + treasury <= balance[t][Escrow]
      /\ balance' = [balance EXCEPT ![t] =
           IF treasury > 0 THEN Moved(paid, Escrow, Treasury, treasury) ELSE paid]
      /\ jobs' = [jobs EXCEPT ![j].budget = 0, ![j].state = "Completed"]
      /\ payout' = [payout EXCEPT ![j] =
           [client |-> 0, provider |-> provider, treasury |-> treasury,
            retained |-> fee - treasury]]
      /\ UNCHANGED <<nextJobId, vetoing, now, escrowed, submittedAt>>

\* Mutant of RefundClient: the budget is not zeroed.
RefundClientKeepsBudget(j, final) ==
  /\ Pays(j, jobs[j].client, jobs[j].budget)
  /\ jobs' = [jobs EXCEPT ![j].state = final]
  /\ payout' = [payout EXCEPT ![j].client = jobs[j].budget]
  /\ UNCHANGED <<nextJobId, vetoing, now, escrowed, submittedAt>>

\* Mutant of RefundClient: the job stays in escrow.
RefundClientKeepsState(j, final) ==
  /\ Pays(j, jobs[j].client, jobs[j].budget)
  /\ jobs' = [jobs EXCEPT ![j].budget = 0]
  /\ payout' = [payout EXCEPT ![j].client = jobs[j].budget]
  /\ UNCHANGED <<nextJobId, vetoing, now, escrowed, submittedAt>>

\* The refund that reject and claimRefund have in common.
RefundClient(j, final) ==
  /\ Pays(j, jobs[j].client, jobs[j].budget)
  /\ jobs' = [jobs EXCEPT ![j].budget = 0, ![j].state = final]
  /\ payout' = [payout EXCEPT ![j].client = jobs[j].budget]
  /\ UNCHANGED <<nextJobId, vetoing, now, escrowed, submittedAt>>

RejectOpen(caller, j) ==
  /\ Exists(j)
  /\ jobs[j].state = "Open"
  /\ caller = jobs[j].client
  /\ HookAccepts(j)
  /\ jobs' = [jobs EXCEPT ![j].state = "Rejected"]
  /\ UNCHANGED <<nextJobId, balance, vetoing, now, history>>

RejectFunded(caller, j) ==
  /\ Exists(j)
  /\ InEscrow(j)
  /\ caller = jobs[j].evaluator
  /\ HookAccepts(j)
  /\ RefundClient(j, "Rejected")

Reject(caller, j) == RejectOpen(caller, j) \/ RejectFunded(caller, j)

\* Mutant of ClaimRefund: the hook is asked.
ClaimRefundHooked(j) ==
  /\ Exists(j)
  /\ now > jobs[j].expiredAt
  /\ InEscrow(j)
  /\ HookAccepts(j)
  /\ RefundClient(j, "Expired")

\* Anyone may call it, and no hook is asked.
ClaimRefund(j) ==
  /\ Exists(j)
  /\ now > jobs[j].expiredAt
  /\ InEscrow(j)
  /\ RefundClient(j, "Expired")

\* A hook contract changes its mind.
HookTurns(j) ==
  /\ jobs[j].hooked
  /\ vetoing' = IF j \in vetoing THEN vetoing \ {j} ELSE vetoing \cup {j}
  /\ UNCHANGED <<nextJobId, jobs, balance, now, history>>

\* Block time.
Tick ==
  /\ now < MaxTime
  /\ now' = now + 1
  /\ UNCHANGED <<nextJobId, jobs, balance, vetoing, history>>

-----------------------------------------------------------------------------

Call(caller) ==
  \/ \E provider, evaluator \in Principals \cup {Nobody}, token \in Tokens,
        expiredAt \in Deadlines, hooked \in BOOLEAN :
       CreateJob(caller, provider, evaluator, token, expiredAt, hooked)
  \/ \E j \in JobIds :
       \/ \E budget \in Budgets : Fund(caller, j, budget)
       \/ Submit(caller, j)
       \/ Complete(caller, j)
       \/ Reject(caller, j)

Next ==
  \/ \E caller \in Principals : Call(caller)
  \/ \E j \in JobIds : ClaimRefund(j) \/ HookTurns(j)
  \/ Tick

Spec == Init /\ [][Next]_vars

\* Time passes, and somebody (the client has every reason to) asks for the
\* refund of an expired job.  Nothing is assumed of provider, evaluator, hook.
FairSpec ==
  /\ Spec
  /\ WF_vars(Tick)
  /\ \A j \in JobIds : WF_vars(ClaimRefund(j))

-----------------------------------------------------------------------------

\* What the contract must still have for a job, and in which token.
Owed(j) == jobs[j].budget + payout[j].retained

Due(t) == [j \in JobIds |-> IF jobs[j].paymentToken = t THEN Owed(j) ELSE 0]

\* The contract holds, in every token, exactly the budgets of the jobs in
\* escrow and the fees that found no treasury: one pool serves all jobs, so a
\* payout that is wrong by one unit is paid out of another client's escrow.
Solvent == \A t \in Tokens : balance[t][Escrow] = Total(Due(t))

\* A provider is paid only for a delivery made while the job was running: the
\* path to `complete' leads through a `submit' at or before expiredAt, even
\* when completion itself comes after the deadline.
PaidOnlyForTimelyDelivery ==
  \A j \in JobIds :
    payout[j].provider > 0 => submittedAt[j] <= jobs[j].expiredAt

\* The escrow as a ledger: amounts taken in leave once, whole, to one side.
\* It covers the race of complete, reject and claimRefund on an expired job.
LedgerEntry(p) ==
  [client |-> p.client, provider |-> p.provider, fee |-> p.treasury + p.retained]

LedgerPaid == [j \in JobIds |-> LedgerEntry(payout[j])]

Ledger == INSTANCE EscrowLedger WITH
  Deals <- JobIds, Amounts <- Budgets, amount <- escrowed, paid <- LedgerPaid

ImplementsLedger == Ledger!LedgerSpec

\* Money never stays in escrow: whatever the provider, the evaluator and a
\* vetoing hook do, a funded job reaches a terminal state.
EscrowIsReleased == \A j \in JobIds : InEscrow(j) ~> ~InEscrow(j)

=============================================================================
