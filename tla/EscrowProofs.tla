---------------------------- MODULE EscrowProofs ----------------------------
(***************************************************************************)
(* The contracts that hold other people's money.                           *)
(*                                                                         *)
(* The job escrow: type correctness, that a provider is paid only for a    *)
(* timely delivery, that the pool of tokens covers every open job, and     *)
(* that the escrow implements EscrowLedger, for any number of jobs,        *)
(* callers and tokens, any fee up to 100%, with or without a treasury.     *)
(* JobInv says what each state of a job means for the money: nothing was   *)
(* taken in while it is Open, all that was taken in is still there while   *)
(* it is Funded or Submitted, and nothing is left in a terminal state.     *)
(*                                                                         *)
(* The receiver wallet and its splitter: no unit is lost or made, and what *)
(* leaves the wallet goes to its owner, for any payees, vaults, amounts    *)
(* and refusals.                                                           *)
(* A split that the wallet can afford is never refused by a vault that     *)
(* tells its shares.                                                       *)
(***************************************************************************)
EXTENDS AgenticCommerce, ReceiverWallet, SumTheorems, TLAPS

JobInv(j) ==
  /\ Exists(j) => /\ jobs[j].client \in Principals
                  /\ jobs[j].provider \in Principals
                  /\ jobs[j].evaluator \in Principals
                  /\ jobs[j].paymentToken \in Tokens
  /\ j >= nextJobId => ~Exists(j)
  /\ ~Exists(j) => jobs[j].state = "Open"
  /\ jobs[j].state = "Open" =>
       jobs[j].budget = 0 /\ escrowed[j] = 0 /\ payout[j] = NoPayout
  /\ InEscrow(j) =>
       jobs[j].budget > 0 /\ escrowed[j] = jobs[j].budget /\ payout[j] = NoPayout
  /\ ~InEscrow(j) => jobs[j].budget = 0
  /\ jobs[j].state = "Submitted" => submittedAt[j] <= jobs[j].expiredAt
  /\ payout[j].provider > 0 => submittedAt[j] <= jobs[j].expiredAt

IInv ==
  /\ TypeOK
  /\ \A j \in JobIds : JobInv(j)

-----------------------------------------------------------------------------

\* The fee is a part of the budget: feeBps never exceeds 10_000.
LEMMA FeeWithinBudget ==
  ASSUME NEW budget \in Nat
  PROVE  Fee(budget) \in Nat /\ Fee(budget) <= budget
<1>1. FeeBps \in Nat /\ FeeBps <= 10000
  BY CommerceAssumption
<1>2. budget * FeeBps \in Nat /\ budget * FeeBps <= budget * 10000
  BY <1>1
<1> DEFINE product == budget * FeeBps
<1>3. product \in Nat /\ product <= budget * 10000
  BY <1>2
<1> HIDE DEF product
<1>4. product \div 10000 \in Nat /\ product \div 10000 <= budget
  BY <1>3
<1> QED
  BY <1>4 DEF Fee, product

\* A transfer the sender can afford keeps balances natural numbers.
LEMMA MovedType ==
  ASSUME NEW balances \in [Holders -> Nat], NEW from \in Holders,
         NEW to \in Holders, NEW amount \in Nat, amount <= balances[from]
  PROVE  Moved(balances, from, to, amount) \in [Holders -> Nat]
  BY DEF Moved

\* The principals, the contract and the treasury hold tokens.
LEMMA HoldersFacts == Principals \subseteq Holders /\ Escrow \in Holders
                      /\ (Treasury # Nobody => Treasury \in Holders)
  BY DEF Holders

\* Two transfers in a row, as complete makes them.
LEMMA MovedTwice ==
  ASSUME NEW balances \in [Holders -> Nat], NEW a \in Holders, NEW b \in Holders,
         NEW x \in Nat, NEW y \in Nat, x + y <= balances[Escrow]
  PROVE  Moved(Moved(balances, Escrow, a, x), Escrow, b, y) \in [Holders -> Nat]
<1>1. x <= balances[Escrow]
  BY HoldersFacts
<1>2. PICK first \in [Holders -> Nat] : first = Moved(balances, Escrow, a, x)
  BY <1>1, MovedType, HoldersFacts
<1>3. y <= first[Escrow]
  BY <1>1, <1>2, HoldersFacts DEF Moved
<1> QED
  BY <1>2, <1>3, MovedType, HoldersFacts

-----------------------------------------------------------------------------

\* No job exists at the start.
LEMMA InitIInv == Init => IInv
<1> SUFFICES ASSUME Init PROVE IInv
  OBVIOUS
<1>1. NoJob \in Job /\ NoPayout \in Payout
  BY DEF NoJob, Job, JobStates, NoPayout, Payout
<1>2. TypeOK
  BY <1>1, CommerceAssumption DEF Init, TypeOK, Time, NotYet, JobIds
<1>3. ASSUME NEW j \in JobIds PROVE JobInv(j)
  BY <1>3, CommerceAssumption
     DEF Init, JobInv, NoJob, NoPayout, Exists, InEscrow, JobIds
<1> QED
  BY <1>2, <1>3 DEF IInv

\* createJob opens one more job, with nothing in escrow.
LEMMA CreateJobIInv ==
  ASSUME IInv, NEW caller \in Principals,
         NEW provider \in Principals \cup {Nobody},
         NEW evaluator \in Principals \cup {Nobody},
         NEW token \in Tokens, NEW expiredAt \in Deadlines, NEW hooked \in BOOLEAN,
         CreateJob(caller, provider, evaluator, token, expiredAt, hooked)
  PROVE  IInv'
<1> DEFINE job == [client |-> caller,
                   provider |-> Implicit(provider, caller),
                   evaluator |-> Implicit(evaluator, caller),
                   paymentToken |-> token, budget |-> 0, expiredAt |-> expiredAt,
                   state |-> "Open", hooked |-> hooked]
<1>1. /\ jobs' = [jobs EXCEPT ![nextJobId] = job]
      /\ nextJobId' = nextJobId + 1 /\ nextJobId <= MaxJobs
      /\ UNCHANGED <<balance, vetoing, now, escrowed, payout, submittedAt>>
  BY DEF CreateJob, history
<1>2. job \in Job /\ job.provider \in Principals /\ job.evaluator \in Principals
  BY CommerceAssumption DEF Job, JobStates, Implicit
<1>3. nextJobId \in JobIds
  BY <1>1, CommerceAssumption DEF IInv, TypeOK, JobIds
<1>4. TypeOK'
  <2> HIDE DEF job
  <2> QED
    BY <1>1, <1>2, <1>3, CommerceAssumption DEF IInv, TypeOK, JobIds
<1>5. ASSUME NEW j \in JobIds PROVE JobInv(j)'
  <2>0. JobInv(j) /\ nextJobId \in Nat /\ j \in Nat
    BY CommerceAssumption DEF IInv, TypeOK, JobIds
  <2>1. CASE j # nextJobId
    BY <1>1, <2>0, <2>1 DEF IInv, TypeOK, JobInv, Exists, InEscrow
  <2>2. CASE j = nextJobId
    <3>1. jobs'[j] = job
      BY <1>1, <1>3, <2>2 DEF IInv, TypeOK
    <3>2. escrowed[j] = 0 /\ payout[j] = NoPayout
      BY <2>0, <2>2 DEF JobInv, Exists
    <3> QED
      BY <1>1, <1>2, <2>0, <2>2, <3>1, <3>2, CommerceAssumption
         DEF JobInv, Exists, InEscrow, NoPayout
  <2> QED
    BY <2>1, <2>2
<1> QED
  BY <1>4, <1>5 DEF IInv

\* Only the job a call names is touched, so a step keeps JobInv if it keeps it
\* for that job.
LEMMA OtherJobs ==
  ASSUME IInv, NEW j \in JobIds, NEW i \in JobIds, i # j,
         nextJobId' = nextJobId,
         jobs'[i] = jobs[i], escrowed'[i] = escrowed[i],
         payout'[i] = payout[i], submittedAt'[i] = submittedAt[i]
  PROVE  JobInv(i)'
  BY DEF IInv, JobInv, Exists, InEscrow

\* fund moves the budget into escrow.
LEMMA FundIInv ==
  ASSUME IInv, NEW caller \in Principals, NEW j \in JobIds,
         NEW budget \in Nat, Fund(caller, j, budget)
  PROVE  IInv'
<1> DEFINE job == [jobs[j] EXCEPT !.budget = budget, !.state = "Funded"]
           t == jobs[j].paymentToken
<1>1. /\ jobs' = [jobs EXCEPT ![j] = job]
      /\ escrowed' = [escrowed EXCEPT ![j] = budget]
      /\ UNCHANGED <<nextJobId, vetoing, now, payout, submittedAt>>
  BY DEF Fund, IInv, TypeOK, Job
<1>2. JobInv(j) /\ Exists(j) /\ jobs[j].state = "Open" /\ budget # 0 /\ jobs[j] \in Job
  BY DEF Fund, IInv, TypeOK
<1>3. /\ job \in Job /\ job.state = "Funded" /\ job.budget = budget
      /\ job.client = jobs[j].client /\ job.provider = jobs[j].provider
      /\ job.evaluator = jobs[j].evaluator
      /\ job.paymentToken = jobs[j].paymentToken
      /\ job.expiredAt = jobs[j].expiredAt
  BY <1>2 DEF Job, JobStates
<1>4. TypeOK'
  <2>1. t \in Tokens
    BY <1>2 DEF JobInv
  <2>2. Moved(balance[t], caller, Escrow, budget) \in [Holders -> Nat]
    BY <2>1, MovedType, HoldersFacts DEF Fund, IInv, TypeOK
  <2>3. balance' = [balance EXCEPT ![t] = Moved(balance[t], caller, Escrow, budget)]
    BY DEF Fund
  <2>4. balance' \in [Tokens -> [Holders -> Nat]]
    BY <2>1, <2>2, <2>3 DEF IInv, TypeOK
  <2> HIDE DEF job
  <2> QED
    BY <1>1, <1>3, <2>4 DEF IInv, TypeOK
<1>5. ASSUME NEW i \in JobIds PROVE JobInv(i)'
  <2>1. CASE i # j
    BY <1>1, <2>1, OtherJobs DEF IInv, TypeOK
  <2>2. CASE i = j
    <3>1. /\ jobs'[j] = job /\ escrowed'[j] = budget /\ payout'[j] = payout[j]
          /\ submittedAt'[j] = submittedAt[j] /\ nextJobId' = nextJobId
      BY <1>1 DEF IInv, TypeOK
    <3>2. payout[j] = NoPayout
      BY <1>2 DEF JobInv
    <3> HIDE DEF job
    <3> QED
      BY <1>2, <1>3, <2>2, <3>1, <3>2 DEF JobInv, Exists, InEscrow, NoPayout
  <2> QED
    BY <2>1, <2>2
<1> QED
  BY <1>4, <1>5 DEF IInv

\* submit, before the deadline only.
LEMMA SubmitIInv ==
  ASSUME IInv, NEW caller \in Principals, NEW j \in JobIds, Submit(caller, j)
  PROVE  IInv'
<1> DEFINE job == [jobs[j] EXCEPT !.state = "Submitted"]
<1>1. /\ jobs' = [jobs EXCEPT ![j] = job]
      /\ submittedAt' = [submittedAt EXCEPT ![j] = now]
      /\ UNCHANGED <<nextJobId, balance, vetoing, now, escrowed, payout>>
      /\ now <= jobs[j].expiredAt
  BY DEF Submit
<1>2. JobInv(j) /\ Exists(j) /\ jobs[j].state = "Funded" /\ jobs[j] \in Job
  BY DEF Submit, IInv, TypeOK
<1>3. /\ job \in Job /\ job.state = "Submitted" /\ job.budget = jobs[j].budget
      /\ job.client = jobs[j].client /\ job.provider = jobs[j].provider
      /\ job.evaluator = jobs[j].evaluator
      /\ job.paymentToken = jobs[j].paymentToken
      /\ job.expiredAt = jobs[j].expiredAt
  BY <1>2 DEF Job, JobStates
<1> HIDE DEF job
<1>4. TypeOK'
  BY <1>1, <1>3 DEF IInv, TypeOK
<1>5. ASSUME NEW i \in JobIds PROVE JobInv(i)'
  <2>1. CASE i # j
    BY <1>1, <2>1, OtherJobs DEF IInv, TypeOK
  <2>2. CASE i = j
    <3>1. /\ jobs'[j] = job /\ escrowed'[j] = escrowed[j] /\ payout'[j] = payout[j]
          /\ submittedAt'[j] = now /\ nextJobId' = nextJobId
      BY <1>1 DEF IInv, TypeOK
    <3>2. payout[j] = NoPayout /\ jobs[j].budget > 0 /\ escrowed[j] = jobs[j].budget
      BY <1>2 DEF JobInv, InEscrow
    <3> QED
      BY <1>1, <1>2, <1>3, <2>2, <3>1, <3>2 DEF JobInv, Exists, InEscrow, NoPayout
  <2> QED
    BY <2>1, <2>2
<1> QED
  BY <1>4, <1>5 DEF IInv

\* The three ways a job leaves escrow, or an Open job is cancelled, end in a
\* terminal state with an empty budget.
LEMMA TerminalIInv ==
  ASSUME IInv, NEW j \in JobIds, NEW final \in {"Completed", "Rejected", "Expired"},
         NEW paid \in Payout,
         Exists(j),
         jobs' = [jobs EXCEPT ![j].budget = 0, ![j].state = final],
         payout' = [payout EXCEPT ![j] = paid],
         paid.provider > 0 => submittedAt[j] <= jobs[j].expiredAt,
         balance' \in [Tokens -> [Holders -> Nat]],
         UNCHANGED <<nextJobId, vetoing, now, escrowed, submittedAt>>
  PROVE  IInv'
<1> DEFINE job == [jobs[j] EXCEPT !.budget = 0, !.state = final]
<1>1. jobs' = [jobs EXCEPT ![j] = job] /\ jobs[j] \in Job /\ JobInv(j)
  BY DEF IInv, TypeOK, Job
<1>2. /\ job \in Job /\ job.state = final /\ job.budget = 0
      /\ job.client = jobs[j].client /\ job.provider = jobs[j].provider
      /\ job.evaluator = jobs[j].evaluator
      /\ job.paymentToken = jobs[j].paymentToken
      /\ job.expiredAt = jobs[j].expiredAt
  BY <1>1 DEF Job, JobStates
<1> HIDE DEF job
<1>3. TypeOK'
  <2>1. jobs' \in [JobIds -> Job]
    <3>1. jobs \in [JobIds -> Job]
      BY DEF IInv, TypeOK
    <3> QED
      BY <1>1, <1>2, <3>1
  <2>2. payout' \in [JobIds -> Payout]
    <3>1. payout \in [JobIds -> Payout]
      BY DEF IInv, TypeOK
    <3> QED
      BY <3>1
  <2> QED
    BY <2>1, <2>2 DEF IInv, TypeOK
<1>4. ASSUME NEW i \in JobIds PROVE JobInv(i)'
  <2>1. CASE i # j
    BY <1>1, <2>1, OtherJobs DEF IInv, TypeOK
  <2>2. CASE i = j
    <3>1. /\ jobs'[j] = job /\ payout'[j] = paid /\ escrowed'[j] = escrowed[j]
          /\ submittedAt'[j] = submittedAt[j] /\ nextJobId' = nextJobId
      BY <1>1 DEF IInv, TypeOK
    <3> QED
      BY <1>1, <1>2, <2>2, <3>1 DEF JobInv, Exists, InEscrow
  <2> QED
    BY <2>1, <2>2
<1> QED
  BY <1>3, <1>4 DEF IInv

\* complete pays the provider and the treasury.
LEMMA CompleteIInv ==
  ASSUME IInv, NEW caller \in Principals, NEW j \in JobIds, Complete(caller, j)
  PROVE  IInv'
<1> DEFINE t        == jobs[j].paymentToken
           fee      == Fee(jobs[j].budget)
           provider == jobs[j].budget - fee
           treasury == IF Treasury # Nobody THEN fee ELSE 0
           once     == Moved(balance[t], Escrow, jobs[j].provider, provider)
           paid     == [client |-> 0, provider |-> provider, treasury |-> treasury,
                        retained |-> fee - treasury]
<1>1. JobInv(j) /\ Exists(j) /\ jobs[j].state = "Submitted" /\ jobs[j] \in Job
  BY DEF Complete, IInv, TypeOK
<1>2. t \in Tokens /\ jobs[j].provider \in Holders /\ jobs[j].budget \in Nat
  BY <1>1, HoldersFacts DEF JobInv, Job
<1>3. fee \in Nat /\ fee <= jobs[j].budget
  BY <1>2, FeeWithinBudget
<1>4. provider \in Nat /\ treasury \in Nat /\ paid \in Payout
      /\ paid.provider = provider
  <2> HIDE DEF fee
  <2> QED
    BY <1>2, <1>3 DEF Payout
<1>5. provider + treasury <= balance[t][Escrow] /\ balance[t] \in [Holders -> Nat]
  BY <1>2 DEF Complete, IInv, TypeOK
<1>6. once \in [Holders -> Nat]
  <2> HIDE DEF provider, treasury
  <2>1. provider <= balance[t][Escrow]
    BY <1>4, <1>5, HoldersFacts
  <2> QED
    BY <1>2, <1>4, <1>5, <2>1, MovedType, HoldersFacts
<1>7. treasury > 0 => Moved(once, Escrow, Treasury, treasury) \in [Holders -> Nat]
  <2>1. treasury > 0 => Treasury \in Holders
    BY HoldersFacts
  <2> HIDE DEF provider, treasury
  <2> QED
    BY <1>2, <1>4, <1>5, <2>1, MovedTwice
<1>8. balance' \in [Tokens -> [Holders -> Nat]]
  <2>1. balance' = [balance EXCEPT ![t] =
                     IF treasury > 0 THEN Moved(once, Escrow, Treasury, treasury)
                     ELSE once]
    BY DEF Complete
  <2> HIDE DEF once, treasury, t
  <2> QED
    BY <1>2, <1>6, <1>7, <2>1 DEF IInv, TypeOK
<1>9. /\ jobs' = [jobs EXCEPT ![j].budget = 0, ![j].state = "Completed"]
      /\ payout' = [payout EXCEPT ![j] = paid]
      /\ UNCHANGED <<nextJobId, vetoing, now, escrowed, submittedAt>>
  BY DEF Complete
<1>10. submittedAt[j] <= jobs[j].expiredAt
  BY <1>1 DEF JobInv
<1> HIDE DEF paid
<1> QED
  BY <1>1, <1>4, <1>8, <1>9, <1>10, TerminalIInv

\* reject and claimRefund pay the client back.
LEMMA RefundIInv ==
  ASSUME IInv, NEW j \in JobIds, NEW final \in {"Rejected", "Expired"},
         Exists(j), InEscrow(j), RefundClient(j, final)
  PROVE  IInv'
<1> DEFINE paid == [payout[j] EXCEPT !.client = jobs[j].budget]
           t == jobs[j].paymentToken
<1>1. JobInv(j) /\ jobs[j] \in Job /\ payout[j] = NoPayout
  BY DEF IInv, TypeOK, JobInv
<1>2. paid \in Payout /\ paid.provider = 0
  BY <1>1 DEF Payout, NoPayout, Job
<1>3. /\ jobs' = [jobs EXCEPT ![j].budget = 0, ![j].state = final]
      /\ payout' = [payout EXCEPT ![j] = paid]
      /\ UNCHANGED <<nextJobId, vetoing, now, escrowed, submittedAt>>
  BY DEF RefundClient, IInv, TypeOK, Payout
<1>4. balance' \in [Tokens -> [Holders -> Nat]]
  <2>1. t \in Tokens /\ jobs[j].client \in Holders /\ jobs[j].budget \in Nat
    BY <1>1, HoldersFacts DEF JobInv, Job
  <2>2. Moved(balance[t], Escrow, jobs[j].client, jobs[j].budget) \in [Holders -> Nat]
    BY <2>1, MovedType, HoldersFacts DEF RefundClient, Pays, IInv, TypeOK
  <2> QED
    BY <2>1, <2>2 DEF RefundClient, Pays, IInv, TypeOK
<1>5. final \in {"Completed", "Rejected", "Expired"}
  OBVIOUS
<1>6. paid.provider > 0 => submittedAt[j] <= jobs[j].expiredAt
  BY <1>2
<1> HIDE DEF paid
<1> QED
  BY <1>2, <1>3, <1>4, <1>5, <1>6, TerminalIInv

\* reject of a job that was never funded.
LEMMA RejectOpenIInv ==
  ASSUME IInv, NEW caller \in Principals, NEW j \in JobIds, RejectOpen(caller, j)
  PROVE  IInv'
<1>1. JobInv(j) /\ Exists(j) /\ jobs[j].state = "Open" /\ jobs[j] \in Job
      /\ payout[j] \in Payout
  BY DEF RejectOpen, IInv, TypeOK
<1>2. jobs[j].budget = 0 /\ payout[j].provider = 0
  BY <1>1 DEF JobInv, NoPayout
<1>3. [jobs[j] EXCEPT !.state = "Rejected"]
        = [jobs[j] EXCEPT !.budget = 0, !.state = "Rejected"]
  BY <1>1, <1>2 DEF Job
<1>4. /\ jobs' = [jobs EXCEPT ![j].budget = 0, ![j].state = "Rejected"]
      /\ payout' = [payout EXCEPT ![j] = payout[j]]
      /\ balance' \in [Tokens -> [Holders -> Nat]]
      /\ UNCHANGED <<nextJobId, vetoing, now, escrowed, submittedAt>>
  BY <1>3 DEF RejectOpen, history, IInv, TypeOK
<1>5. "Rejected" \in {"Completed", "Rejected", "Expired"}
  OBVIOUS
<1>6. payout[j].provider > 0 => submittedAt[j] <= jobs[j].expiredAt
  BY <1>2
<1> QED
  BY <1>1, <1>4, <1>5, <1>6, TerminalIInv

\* The inductive step, one case per action.
LEMMA NextIInv == IInv /\ [Next]_vars => IInv'
<1> SUFFICES ASSUME IInv, [Next]_vars PROVE IInv'
  OBVIOUS
<1>1. ASSUME NEW caller \in Principals, Call(caller) PROVE IInv'
  <2>1. \A j \in JobIds : Reject(caller, j) => IInv'
    BY RejectOpenIInv, RefundIInv DEF Reject, RejectFunded
  <2> QED
    BY <1>1, <2>1, CreateJobIInv, FundIInv, SubmitIInv, CompleteIInv, CommerceAssumption
       DEF Call
<1>2. ASSUME NEW j \in JobIds, ClaimRefund(j) PROVE IInv'
  BY <1>2, RefundIInv DEF ClaimRefund
<1>3. ASSUME NEW j \in JobIds, HookTurns(j) PROVE IInv'
  BY <1>3 DEF HookTurns, history, IInv, TypeOK, JobInv, Exists, InEscrow
<1>4. CASE Tick
  <2>1. now' \in Time
    BY <1>4, CommerceAssumption DEF Tick, IInv, TypeOK, Time
  <2> QED
    BY <1>4, <2>1 DEF Tick, history, IInv, TypeOK, JobInv, Exists, InEscrow
<1>5. CASE UNCHANGED vars
  BY <1>5 DEF vars, history, IInv, TypeOK, JobInv, Exists, InEscrow
<1> QED
  BY <1>1, <1>2, <1>3, <1>4, <1>5 DEF Next

\* In every reachable state of AgenticCommerce what a job has in escrow, was paid
\* and when it was submitted agree with its state: IInv is inductive.
THEOREM CommerceInductive == Spec => []IInv
  BY InitIInv, NextIInv, PTL DEF Spec

\* Every variable keeps its type: no balance and no budget ever underflows.
THEOREM CommerceTypeCorrect == Spec => []TypeOK
<1>1. IInv => TypeOK
  BY DEF IInv
<1> QED
  BY <1>1, CommerceInductive, PTL

\* A provider is only ever paid for a job it submitted by the deadline.
THEOREM CommercePaysForTimelyDelivery == Spec => []PaidOnlyForTimelyDelivery
<1>1. IInv => PaidOnlyForTimelyDelivery
  BY DEF IInv, JobInv, PaidOnlyForTimelyDelivery
<1> QED
  BY <1>1, CommerceInductive, PTL

-----------------------------------------------------------------------------

\* Solvency.  Each call settles one job, in one token: what the contract holds of
\* that token changes by what it owes for that job.

\* What is owed is a natural number, for every job.
LEMMA DueType ==
  ASSUME TypeOK, NEW t
  PROVE  /\ IsFiniteSet(JobIds)
         /\ Due(t) \in [JobIds -> Int]
         /\ \A j \in JobIds : Owed(j) \in Nat
<1>1. IsFiniteSet(JobIds)
  BY FS_Interval, CommerceAssumption DEF JobIds
<1>2. ASSUME NEW j \in JobIds PROVE Owed(j) \in Nat
  <2>1. jobs[j] \in Job /\ payout[j] \in Payout
    BY DEF TypeOK
  <2> QED
    BY <2>1 DEF Owed, Job, Payout
<1> QED
  BY <1>1, <1>2 DEF Due

\* A step that settles one job, in one token, keeps the pool solvent if the
\* contract's balance changes as much as the job's debt.
LEMMA SettleOne ==
  ASSUME TypeOK, TypeOK', Solvent, NEW j \in JobIds, NEW k \in Tokens,
         jobs[j].paymentToken = k, jobs'[j].paymentToken = k,
         \A i \in JobIds \ {j} : jobs'[i] = jobs[i] /\ payout'[i] = payout[i],
         \A t \in Tokens \ {k} : balance'[t][Escrow] = balance[t][Escrow],
         balance'[k][Escrow] - balance[k][Escrow] = Owed(j)' - Owed(j)
  PROVE  Solvent'
<1> SUFFICES ASSUME NEW t \in Tokens PROVE balance'[t][Escrow] = Total(Due(t)')
  BY DEF Solvent
<1>1. /\ IsFiniteSet(JobIds) /\ Due(t) \in [JobIds -> Int]
      /\ Due(t)' \in [JobIds -> Int]
  <2>1. /\ IsFiniteSet(JobIds) /\ Due(t) \in [JobIds -> Int]
    BY DueType
  <2>2. ASSUME NEW i \in JobIds PROVE Owed(i)' \in Nat
    <3>1. jobs'[i] \in Job /\ payout'[i] \in Payout
      BY DEF TypeOK
    <3> QED
      BY <3>1 DEF Owed, Job, Payout
  <2> QED
    BY <2>1, <2>2 DEF Due
<1>2. \A i \in JobIds \ {j} : Due(t)'[i] = Due(t)[i]
  BY DEF Due, Owed
<1>4. Total(Due(t)') = Total(Due(t)) - Due(t)[j] + Due(t)'[j]
  BY <1>1, <1>2, TotalChange
<1>5. balance[t][Escrow] = Total(Due(t)) /\ Total(Due(t)) \in Int
  BY <1>1, TotalType DEF Solvent
<1>6. CASE t = k
  <2>1. Due(t)[j] = Owed(j) /\ Due(t)'[j] = Owed(j)'
    BY <1>6 DEF Due
  <2>2. Owed(j) \in Int /\ Owed(j)' \in Int
    BY <1>1, <2>1
  <2>3. balance'[t][Escrow] \in Int
    BY HoldersFacts DEF TypeOK
  <2> QED
    BY <1>4, <1>5, <1>6, <2>1, <2>2, <2>3
<1>7. CASE t # k
  <2>1. Due(t)[j] = 0 /\ Due(t)'[j] = 0
    BY <1>7 DEF Due
  <2> QED
    BY <1>4, <1>5, <1>7, <2>1
<1> QED
  BY <1>6, <1>7

\* A step that moves no token and changes no debt keeps the pool solvent.
LEMMA SettleNothing ==
  ASSUME Solvent, UNCHANGED balance,
         \A i \in JobIds : \/ jobs'[i].paymentToken = jobs[i].paymentToken
                              /\ Owed(i)' = Owed(i)
                           \/ Owed(i) = 0 /\ Owed(i)' = 0
  PROVE  Solvent'
<1>1. ASSUME NEW t \in Tokens PROVE Due(t)' = Due(t)
  BY DEF Due
<1> QED
  BY <1>1 DEF Solvent

\* A transfer between others leaves the contract's own tokens alone.
LEMMA EscrowPays ==
  ASSUME NEW balances \in [Holders -> Nat], NEW to \in Holders \ {Escrow}, NEW amount \in Nat
  PROVE  /\ Moved(balances, Escrow, to, amount)[Escrow] = balances[Escrow] - amount
         /\ Moved(balances, to, Escrow, amount)[Escrow] = balances[Escrow] + amount
  BY HoldersFacts DEF Moved

\* Nothing is owed and nothing held at the start.
LEMMA InitSolvent == Init => Solvent
<1> SUFFICES ASSUME Init, NEW t \in Tokens PROVE balance[t][Escrow] = Total(Due(t))
  BY DEF Solvent
<1>1. IsFiniteSet(JobIds)
  BY FS_Interval, CommerceAssumption DEF JobIds
<1>2. balance[t][Escrow] = 0
  BY CommerceAssumption, HoldersFacts DEF Init
<1>3. Due(t) = [j \in JobIds |-> 0]
  BY DEF Init, Due, Owed, NoJob, NoPayout
<1> QED
  BY <1>1, <1>2, <1>3, TotalZero

\* The parties of a job hold its token, and none of them is the contract.
LEMMA JobParties ==
  ASSUME TypeOK, NEW j \in JobIds, JobInv(j), Exists(j)
  PROVE  /\ jobs[j].paymentToken \in Tokens
         /\ balance[jobs[j].paymentToken] \in [Holders -> Nat]
         /\ jobs[j].client \in Holders \ {Escrow}
         /\ jobs[j].provider \in Holders \ {Escrow}
         /\ jobs[j].budget \in Nat
<1>1. jobs[j] \in Job /\ balance \in [Tokens -> [Holders -> Nat]]
  BY DEF TypeOK
<1>2. /\ jobs[j].paymentToken \in Tokens
      /\ jobs[j].client \in Principals /\ jobs[j].provider \in Principals
  BY DEF JobInv
<1>3. Principals \subseteq Holders \ {Escrow}
  BY HoldersFacts, CommerceAssumption
<1>4. jobs[j].budget \in Nat
  BY <1>1 DEF Job
<1> QED
  BY <1>1, <1>2, <1>3, <1>4

\* createJob owes nothing.
LEMMA CreateJobSolvent ==
  ASSUME IInv, IInv', Solvent, NEW caller \in Principals, NEW provider, NEW evaluator,
         NEW token, NEW expiredAt, NEW hooked,
         CreateJob(caller, provider, evaluator, token, expiredAt, hooked)
  PROVE  Solvent'
<1>1. PICK n \in JobIds : n = nextJobId
  BY CommerceAssumption DEF CreateJob, IInv, TypeOK, JobIds
<1>2. jobs[n].budget = 0 /\ payout[n] = NoPayout
  <2>1. JobInv(n) /\ n >= nextJobId
    BY <1>1 DEF IInv, JobIds
  <2> QED
    BY <2>1 DEF JobInv
<1>3. jobs'[n].budget = 0 /\ payout' = payout /\ balance' = balance
  BY <1>1 DEF CreateJob, IInv, TypeOK, history
<1>4. \A i \in JobIds \ {n} : jobs'[i] = jobs[i]
  BY <1>1 DEF CreateJob, IInv, TypeOK
<1>5. Owed(n) = 0 /\ Owed(n)' = 0
  BY <1>2, <1>3 DEF Owed, NoPayout
<1>6. \A i \in JobIds \ {n} : Owed(i)' = Owed(i)
  BY <1>3, <1>4 DEF Owed
<1> QED
  BY <1>3, <1>4, <1>5, <1>6, SettleNothing

\* fund owes what it takes in.
LEMMA FundSolvent ==
  ASSUME IInv, IInv', Solvent, NEW caller \in Principals, NEW j \in JobIds,
         NEW budget \in Nat, Fund(caller, j, budget)
  PROVE  Solvent'
<1> DEFINE k == jobs[j].paymentToken
<1>1. /\ JobInv(j) /\ Exists(j) /\ jobs[j].state = "Open" /\ jobs[j] \in Job
      /\ TypeOK /\ TypeOK' /\ caller = jobs[j].client
  BY DEF Fund, IInv, TypeOK
<1>2. k \in Tokens /\ balance[k] \in [Holders -> Nat] /\ caller \in Holders \ {Escrow}
  BY <1>1, JobParties
<1>3. /\ balance' = [balance EXCEPT ![k] = Moved(balance[k], caller, Escrow, budget)]
      /\ jobs' = [jobs EXCEPT ![j].budget = budget, ![j].state = "Funded"]
      /\ payout' = payout
  BY DEF Fund
<1>4. /\ jobs'[j].paymentToken = k /\ jobs'[j].budget = budget
      /\ \A i \in JobIds \ {j} : jobs'[i] = jobs[i]
  BY <1>1, <1>3 DEF TypeOK, Job
<1>5. Owed(j) = 0 /\ Owed(j)' = budget
  BY <1>1, <1>3, <1>4 DEF JobInv, Owed, NoPayout
<1>6. balance'[k][Escrow] = balance[k][Escrow] + budget
  <2>1. balance'[k] = Moved(balance[k], caller, Escrow, budget)
    BY <1>1, <1>2, <1>3 DEF TypeOK
  <2> QED
    BY <1>2, <2>1, EscrowPays
<1>7. \A t \in Tokens \ {k} : balance'[t] = balance[t]
  BY <1>1, <1>3 DEF TypeOK
<1>8. balance[k][Escrow] \in Nat
  BY <1>2, HoldersFacts
<1>9. balance'[k][Escrow] - balance[k][Escrow] = Owed(j)' - Owed(j)
  BY <1>5, <1>6, <1>8
<1> QED
  BY <1>1, <1>2, <1>3, <1>4, <1>7, <1>9, SettleOne

\* complete pays what it no longer owes; a fee without a treasury stays owed.
LEMMA CompleteSolvent ==
  ASSUME IInv, IInv', Solvent, NEW caller \in Principals, NEW j \in JobIds,
         Complete(caller, j)
  PROVE  Solvent'
<1> DEFINE k        == jobs[j].paymentToken
           budget   == jobs[j].budget
           fee      == Fee(budget)
           provider == budget - fee
           treasury == IF Treasury # Nobody THEN fee ELSE 0
           once     == Moved(balance[k], Escrow, jobs[j].provider, provider)
<1>1. /\ JobInv(j) /\ Exists(j) /\ jobs[j].state = "Submitted" /\ jobs[j] \in Job
      /\ TypeOK /\ TypeOK'
  BY DEF Complete, IInv, TypeOK
<1>2. /\ k \in Tokens /\ balance[k] \in [Holders -> Nat]
      /\ jobs[j].provider \in Holders \ {Escrow} /\ budget \in Nat
  BY <1>1, JobParties
<1>3. fee \in Nat /\ fee <= budget
  BY <1>2, FeeWithinBudget
<1>4. /\ jobs' = [jobs EXCEPT ![j].budget = 0, ![j].state = "Completed"]
      /\ payout' = [payout EXCEPT ![j] =
           [client |-> 0, provider |-> provider, treasury |-> treasury,
            retained |-> fee - treasury]]
      /\ balance' = [balance EXCEPT ![k] =
           IF treasury > 0 THEN Moved(once, Escrow, Treasury, treasury) ELSE once]
      /\ provider + treasury <= balance[k][Escrow]
  BY DEF Complete
<1>5. /\ jobs'[j].paymentToken = k /\ jobs'[j].budget = 0
      /\ \A i \in JobIds \ {j} : jobs'[i] = jobs[i]
  BY <1>1, <1>4 DEF TypeOK, Job
<1>6. /\ payout'[j].retained = fee - treasury
      /\ \A i \in JobIds \ {j} : payout'[i] = payout[i]
  BY <1>1, <1>4 DEF TypeOK
<1>7. payout[j] = NoPayout
  BY <1>1 DEF JobInv, InEscrow
<1>8. Owed(j) = budget /\ Owed(j)' = fee - treasury
  <2>1. Owed(j) = budget + 0 /\ Owed(j)' = 0 + (fee - treasury)
    BY <1>5, <1>6, <1>7 DEF Owed, NoPayout
  <2> HIDE DEF fee, budget
  <2> QED
    BY <1>2, <1>3, <2>1
<1> HIDE DEF fee, budget
<1>9. provider \in Nat /\ treasury \in Nat
  BY <1>2, <1>3
<1> HIDE DEF provider, treasury
<1>10. once \in [Holders -> Nat] /\ once[Escrow] = balance[k][Escrow] - provider
  <2>1. balance[k][Escrow] \in Nat /\ provider <= balance[k][Escrow]
    BY <1>2, <1>4, <1>9, HoldersFacts
  <2> QED
    BY <1>2, <1>9, <2>1, EscrowPays, MovedType, HoldersFacts
<1>11. treasury > 0 =>
         Moved(once, Escrow, Treasury, treasury)[Escrow] = once[Escrow] - treasury
  <2>1. treasury > 0 => Treasury \in Holders \ {Escrow}
    BY <1>3, CommerceAssumption, HoldersFacts DEF treasury
  <2> HIDE DEF once
  <2> QED
    BY <1>9, <1>10, <2>1, EscrowPays
<1>12. balance'[k] = IF treasury > 0 THEN Moved(once, Escrow, Treasury, treasury) ELSE once
  <2> HIDE DEF once
  <2> QED
    BY <1>1, <1>2, <1>4 DEF TypeOK
<1> HIDE DEF once
<1>13. balance'[k][Escrow] = balance[k][Escrow] - provider - treasury
  <2>1. balance[k][Escrow] \in Nat
    BY <1>2, HoldersFacts
  <2>2. CASE treasury > 0
    BY <1>10, <1>11, <1>12, <2>2
  <2>3. CASE ~(treasury > 0)
    <3>1. treasury = 0
      BY <1>9, <2>3
    <3> QED
      BY <1>9, <1>10, <1>12, <2>1, <2>3, <3>1
  <2> QED
    BY <2>2, <2>3
<1>14. \A t \in Tokens \ {k} : balance'[t] = balance[t]
  BY <1>1, <1>4 DEF TypeOK
<1>15. balance[k][Escrow] \in Nat
  BY <1>2, HoldersFacts
<1>16. balance'[k][Escrow] - balance[k][Escrow] = Owed(j)' - Owed(j)
  <2>1. provider = budget - fee
    BY DEF provider
  <2> QED
    BY <1>2, <1>3, <1>8, <1>9, <1>13, <1>15, <2>1
<1> QED
  BY <1>1, <1>2, <1>5, <1>6, <1>14, <1>16, SettleOne

\* A refund pays the whole debt.
LEMMA RefundSolvent ==
  ASSUME IInv, IInv', Solvent, NEW j \in JobIds, NEW final,
         Exists(j), InEscrow(j), RefundClient(j, final)
  PROVE  Solvent'
<1> DEFINE k      == jobs[j].paymentToken
           budget == jobs[j].budget
<1>1. JobInv(j) /\ jobs[j] \in Job /\ payout[j] = NoPayout /\ TypeOK /\ TypeOK'
  BY DEF IInv, TypeOK, JobInv
<1>2. /\ k \in Tokens /\ balance[k] \in [Holders -> Nat]
      /\ jobs[j].client \in Holders \ {Escrow} /\ budget \in Nat
  BY <1>1, JobParties
<1>3. /\ jobs' = [jobs EXCEPT ![j].budget = 0, ![j].state = final]
      /\ payout' = [payout EXCEPT ![j].client = budget]
      /\ balance' = [balance EXCEPT ![k] = Moved(balance[k], Escrow, jobs[j].client, budget)]
  BY DEF RefundClient, Pays
<1>4. /\ jobs'[j].paymentToken = k /\ jobs'[j].budget = 0
      /\ \A i \in JobIds \ {j} : jobs'[i] = jobs[i]
  BY <1>1, <1>3 DEF TypeOK, Job
<1>5. /\ payout'[j].retained = 0
      /\ \A i \in JobIds \ {j} : payout'[i] = payout[i]
  BY <1>1, <1>3 DEF TypeOK, NoPayout, Payout
<1>6. Owed(j) = budget /\ Owed(j)' = 0
  BY <1>1, <1>2, <1>4, <1>5 DEF Owed, NoPayout
<1>7. balance'[k][Escrow] = balance[k][Escrow] - budget
  BY <1>1, <1>2, <1>3, EscrowPays DEF TypeOK
<1>8. \A t \in Tokens \ {k} : balance'[t] = balance[t]
  BY <1>1, <1>3 DEF TypeOK
<1>9. balance[k][Escrow] \in Nat
  BY <1>2, HoldersFacts
<1>10. balance'[k][Escrow] - balance[k][Escrow] = Owed(j)' - Owed(j)
  BY <1>2, <1>6, <1>7, <1>9
<1> QED
  BY <1>1, <1>2, <1>4, <1>5, <1>8, <1>10, SettleOne

\* The steps that move no token.
LEMMA QuietSolvent ==
  ASSUME IInv, Solvent, UNCHANGED <<balance, payout>>,
         \/ UNCHANGED jobs
         \/ \E j \in JobIds : \E state : jobs' = [jobs EXCEPT ![j].state = state]
  PROVE  Solvent'
<1>1. \A i \in JobIds : /\ jobs'[i].paymentToken = jobs[i].paymentToken
                        /\ jobs'[i].budget = jobs[i].budget
  BY DEF IInv, TypeOK, Job
<1>2. \A i \in JobIds : Owed(i)' = Owed(i)
  BY <1>1 DEF Owed
<1> QED
  BY <1>1, <1>2, SettleNothing

\* The inductive step, one case per action.
LEMMA NextSolvent == IInv /\ IInv' /\ Solvent /\ [Next]_vars => Solvent'
<1> SUFFICES ASSUME IInv, IInv', Solvent, [Next]_vars PROVE Solvent'
  OBVIOUS
<1>1. ASSUME NEW caller \in Principals, Call(caller) PROVE Solvent'
  <2>1. ASSUME NEW j \in JobIds, Reject(caller, j) PROVE Solvent'
    <3>1. CASE RejectOpen(caller, j)
      BY <3>1, QuietSolvent DEF RejectOpen, history
    <3>2. CASE RejectFunded(caller, j)
      BY <3>2, RefundSolvent DEF RejectFunded
    <3> QED
      BY <2>1, <3>1, <3>2 DEF Reject
  <2>2. ASSUME NEW j \in JobIds, Submit(caller, j) PROVE Solvent'
    BY <2>2, QuietSolvent DEF Submit
  <2>3. ASSUME NEW j \in JobIds, NEW budget \in Budgets, Fund(caller, j, budget)
        PROVE  Solvent'
    BY <2>3, FundSolvent, CommerceAssumption
  <2> QED
    BY <1>1, <2>1, <2>2, <2>3, CreateJobSolvent, CompleteSolvent DEF Call
<1>2. ASSUME NEW j \in JobIds, ClaimRefund(j) PROVE Solvent'
  BY <1>2, RefundSolvent DEF ClaimRefund
<1>3. ASSUME NEW j \in JobIds, HookTurns(j) PROVE Solvent'
  BY <1>3, QuietSolvent DEF HookTurns, history
<1>4. CASE Tick \/ UNCHANGED vars
  BY <1>4, QuietSolvent DEF Tick, vars, history
<1> QED
  BY <1>1, <1>2, <1>3, <1>4 DEF Next

\* In every token the contract holds what it owes, to the unit: the budgets of the
\* jobs in escrow and the fees that complete kept for want of a treasury.
THEOREM CommerceSolvent == Spec => []Solvent
  BY InitSolvent, NextSolvent, CommerceInductive, PTL DEF Spec

\* However the other jobs go, the pool has what a job in escrow needs: of the guards of
\* claimRefund only its deadline can fail, and complete is refused by its caller, its
\* hook or the overflow of the fee, never because the tokens are gone.
JobIsCovered(j) ==
  InEscrow(j) =>
    /\ Exists(j)
    /\ jobs[j].client \in Holders \ {Escrow}
    /\ jobs[j].budget > 0
    /\ jobs[j].budget <= balance[jobs[j].paymentToken][Escrow]
    /\ Fee(jobs[j].budget) <= jobs[j].budget

\* Every job in escrow is covered by itself, beside all the others.
THEOREM CommerceCoversEveryJob == Spec => [](\A j \in JobIds : JobIsCovered(j))
<1>1. ASSUME IInv, Solvent, NEW j \in JobIds, InEscrow(j) PROVE JobIsCovered(j)
  <2>1. TypeOK /\ JobInv(j)
    BY <1>1 DEF IInv
  <2>2. Exists(j) /\ jobs[j].budget > 0
    BY <1>1, <2>1 DEF JobInv, InEscrow
  <2>3. PICK t \in Tokens : t = jobs[j].paymentToken
    BY <2>1, <2>2 DEF JobInv
  <2>4. jobs[j].client \in Holders \ {Escrow} /\ jobs[j].budget \in Nat
    BY <2>1, <2>2, JobParties
  <2>5. PICK due : due = Due(t)
    OBVIOUS
  <2>6. IsFiniteSet(JobIds) /\ due \in [JobIds -> Int] /\ \A i \in JobIds : due[i] \in Nat
    BY <2>1, <2>5, DueType DEF Due
  <2>7. due[j] <= SumOver(JobIds, due)
    BY <2>6, SumNat
  <2>8. balance[t][Escrow] = SumOver(JobIds, due)
    BY <1>1, <2>5, <2>6, TotalType DEF Solvent
  <2>9. due[j] = jobs[j].budget + payout[j].retained /\ payout[j].retained = 0
    BY <1>1, <2>1, <2>3, <2>5 DEF Due, Owed, JobInv, NoPayout
  <2>10. Fee(jobs[j].budget) <= jobs[j].budget
    BY <2>4, FeeWithinBudget
  <2> QED
    BY <2>2, <2>3, <2>4, <2>7, <2>8, <2>9, <2>10 DEF JobIsCovered
<1>2. IInv /\ Solvent => \A j \in JobIds : JobIsCovered(j)
  BY <1>1 DEF JobIsCovered
<1> QED
  BY <1>2, CommerceInductive, CommerceSolvent, PTL

-----------------------------------------------------------------------------

\* Refinement.  Fund holds, complete releases, the two refunds refund, and
\* every other step leaves the ledger alone.

\* Nothing is held at the start.
LEMMA InitLedger == Init => Ledger!LedgerInit
  BY DEF Init, Ledger!LedgerInit, Ledger!Nothing, LedgerPaid, LedgerEntry, NoPayout

\* While a job is in escrow the ledger holds its budget.
LEMMA EscrowIsHeld ==
  ASSUME IInv, NEW j \in JobIds, InEscrow(j)
  PROVE  Ledger!Held(j) /\ escrowed[j] = jobs[j].budget
  BY DEF IInv, JobInv, Ledger!Held, Ledger!Nothing, LedgerPaid, LedgerEntry, NoPayout

\* A step that changes the payout of one job changes one entry of the ledger.
LEMMA OneEntry ==
  ASSUME IInv, NEW j \in JobIds, NEW p,
         payout' = [payout EXCEPT ![j] = p]
  PROVE  LedgerPaid' = [LedgerPaid EXCEPT ![j] = LedgerEntry(p)]
  BY DEF IInv, TypeOK, LedgerPaid

\* fund is a Hold of the ledger.
LEMMA FundHolds ==
  ASSUME IInv, NEW caller \in Principals, NEW j \in JobIds,
         NEW budget \in Budgets, Fund(caller, j, budget)
  PROVE  Ledger!Hold(j, budget)
<1>1. budget > 0
  BY CommerceAssumption DEF Fund
<1>2. escrowed[j] = 0
  BY DEF Fund, IInv, JobInv
<1>3. LedgerPaid' = LedgerPaid /\ escrowed' = [escrowed EXCEPT ![j] = budget]
  BY DEF Fund, LedgerPaid
<1> QED
  BY <1>1, <1>2, <1>3 DEF Ledger!Hold

\* complete is a Release of the ledger.
LEMMA CompleteReleases ==
  ASSUME IInv, NEW caller \in Principals, NEW j \in JobIds, Complete(caller, j)
  PROVE  \E fee \in 0 .. escrowed[j] : Ledger!Release(j, fee)
<1> DEFINE fee      == Fee(jobs[j].budget)
           treasury == IF Treasury # Nobody THEN fee ELSE 0
           entry    == [client |-> 0, provider |-> jobs[j].budget - fee,
                        treasury |-> treasury, retained |-> fee - treasury]
<1>1. jobs[j].budget \in Nat /\ Ledger!Held(j) /\ escrowed[j] = jobs[j].budget
  BY EscrowIsHeld DEF Complete, InEscrow, IInv, TypeOK, Job
<1>2. fee \in 0 .. escrowed[j]
  BY <1>1, FeeWithinBudget
<1>3. payout' = [payout EXCEPT ![j] = entry] /\ UNCHANGED escrowed
  BY DEF Complete
<1>4. LedgerEntry(entry) =
        [client |-> 0, provider |-> escrowed[j] - fee, fee |-> fee]
  <2> HIDE DEF fee
  <2> QED
    BY <1>1, <1>2 DEF LedgerEntry
<1> HIDE DEF entry, fee
<1>5. LedgerPaid' = [LedgerPaid EXCEPT ![j] =
                      [client |-> 0, provider |-> escrowed[j] - fee, fee |-> fee]]
  BY <1>3, <1>4, OneEntry
<1> QED
  BY <1>1, <1>2, <1>3, <1>5 DEF Ledger!Release

\* reject and claimRefund are a Refund of the ledger.
LEMMA RefundRefunds ==
  ASSUME IInv, NEW j \in JobIds, NEW final, InEscrow(j), RefundClient(j, final)
  PROVE  Ledger!Refund(j)
<1> DEFINE entry == [payout[j] EXCEPT !.client = jobs[j].budget]
<1>1. Ledger!Held(j) /\ escrowed[j] = jobs[j].budget /\ payout[j] = NoPayout
  BY EscrowIsHeld DEF IInv, JobInv
<1>2. payout' = [payout EXCEPT ![j] = entry] /\ UNCHANGED escrowed
  BY DEF RefundClient, IInv, TypeOK, Payout
<1>3. LedgerEntry(entry) = [client |-> escrowed[j], provider |-> 0, fee |-> 0]
  BY <1>1 DEF LedgerEntry, NoPayout
<1> HIDE DEF entry
<1>4. LedgerPaid' = [LedgerPaid EXCEPT ![j] =
                      [client |-> escrowed[j], provider |-> 0, fee |-> 0]]
  BY <1>2, <1>3, OneEntry
<1> QED
  BY <1>1, <1>2, <1>4 DEF Ledger!Refund

\* A step that leaves escrow and payouts alone is a stutter of the ledger.
LEMMA LedgerUntouched ==
  ASSUME UNCHANGED <<escrowed, payout>>
  PROVE  UNCHANGED Ledger!ledgerVars
  BY DEF Ledger!ledgerVars, LedgerPaid

\* Every step of the contract is a step or a stutter of the ledger.
LEMMA NextLedger == IInv /\ [Next]_vars => [Ledger!LedgerNext]_(Ledger!ledgerVars)
<1> SUFFICES ASSUME IInv, [Next]_vars
             PROVE  [Ledger!LedgerNext]_(Ledger!ledgerVars)
  OBVIOUS
<1>1. ASSUME NEW j \in JobIds, NEW final, InEscrow(j), RefundClient(j, final)
      PROVE  Ledger!LedgerNext
  BY <1>1, RefundRefunds DEF Ledger!LedgerNext
<1>2. ASSUME NEW caller \in Principals, Call(caller)
      PROVE  [Ledger!LedgerNext]_(Ledger!ledgerVars)
  <2>1. ASSUME NEW j \in JobIds, NEW budget \in Budgets, Fund(caller, j, budget)
        PROVE  Ledger!LedgerNext
    BY <2>1, FundHolds DEF Ledger!LedgerNext
  <2>2. ASSUME NEW j \in JobIds, Complete(caller, j) PROVE Ledger!LedgerNext
    BY <2>2, CompleteReleases DEF Ledger!LedgerNext
  <2>3. ASSUME NEW j \in JobIds, Reject(caller, j)
        PROVE  [Ledger!LedgerNext]_(Ledger!ledgerVars)
    BY <1>1, <2>3, LedgerUntouched DEF Reject, RejectOpen, RejectFunded, history
  <2>4. ASSUME NEW j \in JobIds, Submit(caller, j) PROVE UNCHANGED Ledger!ledgerVars
    BY <2>4, LedgerUntouched DEF Submit
  <2>5. ASSUME NEW provider, NEW evaluator, NEW token, NEW expiredAt, NEW hooked,
               CreateJob(caller, provider, evaluator, token, expiredAt, hooked)
        PROVE  UNCHANGED Ledger!ledgerVars
    BY <2>5, LedgerUntouched DEF CreateJob, history
  <2> QED
    BY <1>2, <2>1, <2>2, <2>3, <2>4, <2>5 DEF Call
<1>3. ASSUME NEW j \in JobIds, ClaimRefund(j) PROVE Ledger!LedgerNext
  BY <1>1, <1>3 DEF ClaimRefund
<1>4. ASSUME NEW j \in JobIds, HookTurns(j) PROVE UNCHANGED Ledger!ledgerVars
  BY <1>4, LedgerUntouched DEF HookTurns, history
<1>5. CASE Tick \/ UNCHANGED vars
  BY <1>5, LedgerUntouched DEF Tick, vars, history
<1> QED
  BY <1>2, <1>3, <1>4, <1>5 DEF Next

\* The job escrow implements the ledger: whatever is taken in leaves once, as a
\* whole, to the client or to the provider less the fee, whichever of complete,
\* reject and claimRefund wins.
THEOREM CommerceImplementsLedger == Spec => ImplementsLedger
<1>1. Spec => Ledger!LedgerInit /\ [][Ledger!LedgerNext]_(Ledger!ledgerVars)
  BY InitLedger, NextLedger, CommerceInductive, PTL DEF Spec
<1> QED
  BY <1>1, PTL DEF ImplementsLedger, Ledger!LedgerSpec

-----------------------------------------------------------------------------

\* What the ledger says of money, for every behaviour that keeps it.

LedgerInv == Ledger!LedgerTypeOK /\ Ledger!Conserved

LEMMA LedgerStep ==
  ASSUME LedgerInv, [Ledger!LedgerNext]_(Ledger!ledgerVars)
  PROVE  /\ LedgerInv'
         /\ \A d \in JobIds : LedgerPaid[d] # Ledger!Nothing =>
                              LedgerPaid'[d] = LedgerPaid[d] /\ escrowed'[d] = escrowed[d]
<1> DEFINE Entry == [client : Nat, provider : Nat, fee : Nat]
           Fits(d, p) == \/ p = Ledger!Nothing
                         \/ /\ p.client + p.provider + p.fee = escrowed[d]
                            /\ p.client = 0 \/ p.provider + p.fee = 0
<1>0. PICK paid : paid = LedgerPaid
  OBVIOUS
<1>1. /\ escrowed \in [JobIds -> Nat] /\ paid \in [JobIds -> Entry]
      /\ \A d \in JobIds : Fits(d, paid[d])
  BY <1>0 DEF LedgerInv, Ledger!LedgerTypeOK, Ledger!Conserved
<1>2. ASSUME NEW d \in JobIds, escrowed[d] = 0 PROVE paid[d] = Ledger!Nothing
  <2>1. PICK p \in Entry : p = paid[d]
    BY <1>1
  <2>2. p # Ledger!Nothing => p.client = 0 /\ p.provider = 0 /\ p.fee = 0
    BY <1>1, <1>2, <2>1
  <2> QED
    BY <2>1, <2>2 DEF Ledger!Nothing
<1>3. ASSUME NEW d \in JobIds, NEW a \in Budgets, Ledger!Hold(d, a)
      PROVE  /\ LedgerInv'
             /\ \A e \in JobIds : paid[e] # Ledger!Nothing =>
                                  LedgerPaid'[e] = paid[e] /\ escrowed'[e] = escrowed[e]
  <2>1. /\ escrowed[d] = 0 /\ escrowed' = [escrowed EXCEPT ![d] = a] /\ LedgerPaid' = paid
        /\ a \in Nat
    BY <1>0, <1>3, CommerceAssumption DEF Ledger!Hold
  <2> QED
    BY <1>1, <1>2, <2>1 DEF LedgerInv, Ledger!LedgerTypeOK, Ledger!Conserved
<1>4. ASSUME NEW d \in JobIds, NEW p \in Entry, paid[d] = Ledger!Nothing,
             Fits(d, p), LedgerPaid' = [paid EXCEPT ![d] = p], escrowed' = escrowed
      PROVE  /\ LedgerInv'
             /\ \A e \in JobIds : paid[e] # Ledger!Nothing =>
                                  LedgerPaid'[e] = paid[e] /\ escrowed'[e] = escrowed[e]
  <2>1. LedgerPaid'[d] = p /\ \A e \in JobIds : e # d => LedgerPaid'[e] = paid[e]
    BY <1>1, <1>4
  <2>2. LedgerPaid' \in [JobIds -> Entry]
    BY <1>1, <1>4
  <2> QED
    BY <1>1, <1>4, <2>1, <2>2 DEF LedgerInv, Ledger!LedgerTypeOK, Ledger!Conserved
<1>5. ASSUME NEW d \in JobIds, NEW fee \in 0 .. escrowed[d], Ledger!Release(d, fee)
      PROVE  /\ LedgerInv'
             /\ \A e \in JobIds : paid[e] # Ledger!Nothing =>
                                  LedgerPaid'[e] = paid[e] /\ escrowed'[e] = escrowed[e]
  <2>1. PICK p : p = [client |-> 0, provider |-> escrowed[d] - fee, fee |-> fee]
    OBVIOUS
  <2>2. escrowed[d] \in Nat /\ fee \in Nat /\ fee <= escrowed[d]
    BY <1>1
  <2>3. p \in Entry /\ Fits(d, p)
    BY <2>1, <2>2
  <2>4. /\ paid[d] = Ledger!Nothing /\ LedgerPaid' = [paid EXCEPT ![d] = p]
        /\ escrowed' = escrowed
    BY <1>0, <1>5, <2>1 DEF Ledger!Release, Ledger!Held
  <2> HIDE DEF Entry, Fits
  <2> QED
    BY <1>4, <2>3, <2>4
<1>6. ASSUME NEW d \in JobIds, Ledger!Refund(d)
      PROVE  /\ LedgerInv'
             /\ \A e \in JobIds : paid[e] # Ledger!Nothing =>
                                  LedgerPaid'[e] = paid[e] /\ escrowed'[e] = escrowed[e]
  <2>1. PICK p : p = [client |-> escrowed[d], provider |-> 0, fee |-> 0]
    OBVIOUS
  <2>2. p \in Entry /\ Fits(d, p)
    BY <1>1, <2>1
  <2>3. /\ paid[d] = Ledger!Nothing /\ LedgerPaid' = [paid EXCEPT ![d] = p]
        /\ escrowed' = escrowed
    BY <1>0, <1>6, <2>1 DEF Ledger!Refund, Ledger!Held
  <2> HIDE DEF Entry, Fits
  <2> QED
    BY <1>4, <2>2, <2>3
<1>7. CASE UNCHANGED Ledger!ledgerVars
  <2>1. escrowed' = escrowed /\ LedgerPaid' = paid
    BY <1>0, <1>7 DEF Ledger!ledgerVars
  <2> QED
    BY <1>0, <1>1, <2>1 DEF LedgerInv, Ledger!LedgerTypeOK, Ledger!Conserved
<1> QED
  BY <1>0, <1>3, <1>5, <1>6, <1>7 DEF Ledger!LedgerNext

\* Every behaviour of the ledger pays out nothing of a deal or all of it, to one side.
THEOREM LedgerConserves == ImplementsLedger => []Ledger!Conserved
<1>1. Ledger!LedgerInit => LedgerInv
  BY DEF Ledger!LedgerInit, LedgerInv, Ledger!LedgerTypeOK, Ledger!Conserved, Ledger!Nothing
<1>2. LedgerInv => Ledger!Conserved
  BY DEF LedgerInv
<1>3. LedgerInv /\ [Ledger!LedgerNext]_(Ledger!ledgerVars) => LedgerInv'
  BY LedgerStep
<1> QED
  BY <1>1, <1>2, <1>3, PTL DEF ImplementsLedger, Ledger!LedgerSpec

\* And it settles every deal once.
THEOREM LedgerSettlesOnce == ImplementsLedger => Ledger!SettledOnce
<1> DEFINE Settled == \A d \in JobIds :
                        LedgerPaid[d] # Ledger!Nothing =>
                          LedgerPaid'[d] = LedgerPaid[d] /\ escrowed'[d] = escrowed[d]
<1>1. Ledger!LedgerInit => LedgerInv
  BY DEF Ledger!LedgerInit, LedgerInv, Ledger!LedgerTypeOK, Ledger!Conserved, Ledger!Nothing
<1>2. LedgerInv /\ [Ledger!LedgerNext]_(Ledger!ledgerVars) => LedgerInv'
  BY LedgerStep
<1>3. LedgerInv /\ [Ledger!LedgerNext]_(Ledger!ledgerVars) => [Settled]_(Ledger!ledgerVars)
  BY LedgerStep
<1>4. ImplementsLedger => [][Settled]_(Ledger!ledgerVars)
  BY <1>1, <1>2, <1>3, PTL DEF ImplementsLedger, Ledger!LedgerSpec
<1> QED
  BY <1>4 DEF Ledger!SettledOnce

\* So no order of complete, reject and claimRefund, by whoever may call them, pays a
\* job twice, pays both sides of it, or pays other than what its client put in.
THEOREM CommerceSettlesOnce ==
  Spec => []Ledger!Conserved /\ Ledger!SettledOnce
  BY CommerceImplementsLedger, LedgerConserves, LedgerSettlesOnce, PTL

-----------------------------------------------------------------------------

\* The receiver wallet and its splitter.

\* The cuts add up, and the owner's is 85 % at least: rounding is in its favour.
LEMMA CutFacts ==
  ASSUME NEW total \in Nat
  PROVE  /\ Cut(total, 500) \in Nat /\ OwnerCut(total) \in Nat
         /\ OwnerCut(total) + Cut(total, 500) + Cut(total, 500) + Cut(total, 500) = total
         /\ 100 * OwnerCut(total) >= 85 * total
<1> DEFINE c == (total * 500) \div 10000
<1>1. c \in Nat /\ 20 * c <= total
  OBVIOUS
<1>2. Cut(total, 500) = c
  BY DEF Cut, BPS_DENOM
<1>3. OwnerCut(total) = total - c - c - c
  BY <1>2 DEF OwnerCut, KEEPER_BPS, ZHGG_BPS, COMMONS_BPS
<1> HIDE DEF c
<1> QED
  BY <1>1, <1>2, <1>3

\* Who gets which leg.
LEMMA LegsFacts ==
  ASSUME NEW total \in Nat, NEW owner \in Payees
  PROVE  /\ \A k \in 1 .. 4 : /\ Legs(total, owner)[k][1] \in Payees
                              /\ Legs(total, owner)[k][2] \in Nat
         /\ Legs(total, owner)[1][1] = owner
         /\ Legs(total, owner)[1][2] = OwnerCut(total)
         /\ \A k \in 2 .. 4 : Legs(total, owner)[k][2] = Cut(total, 500)
  BY CutFacts, SplitterAssumption DEF Legs, KEEPER_BPS, ZHGG_BPS, COMMONS_BPS

\* The holders of tokens and the vaults are finite, the payees are among the former.
LEMMA WalletSets ==
  /\ IsFiniteSet(TokenHolders) /\ IsFiniteSet(Payees) /\ IsFiniteSet(Vaults)
  /\ Payees \subseteq TokenHolders \ {Splitter, Wallet}
  /\ Splitter \in TokenHolders /\ Wallet \in TokenHolders /\ Wallet # Splitter
  /\ TokenOwners \subseteq Payees /\ Burnt \notin Payees /\ NoVault \notin Vaults
  BY SplitterAssumption, WalletAssumption, FS_Subset

\* A transfer the sender can afford makes and loses nothing.
LEMMA MoveFacts ==
  ASSUME NEW b \in [TokenHolders -> Nat], NEW from \in TokenHolders,
         NEW to \in TokenHolders, from # to, NEW amount \in Nat, amount <= b[from]
  PROVE  /\ Move(b, from, to, amount) \in [TokenHolders -> Nat]
         /\ Total(Move(b, from, to, amount)) = Total(b)
         /\ Move(b, from, to, amount)[from] = b[from] - amount
         /\ Move(b, from, to, amount)[to] = b[to] + amount
         /\ \A h \in TokenHolders \ {from, to} : Move(b, from, to, amount)[h] = b[h]
<1> DEFINE m == Move(b, from, to, amount)
<1>1. /\ m \in [TokenHolders -> Nat] /\ m[from] = b[from] - amount
      /\ m[to] = b[to] + amount /\ \A h \in TokenHolders \ {from, to} : m[h] = b[h]
  BY DEF Move
<1> HIDE DEF m
<1>2. b[from] + b[to] = m[from] + m[to]
  BY <1>1
<1>3. Total(m) = Total(b)
  BY <1>1, <1>2, WalletSets, TotalMove
<1> QED
  BY <1>1, <1>3 DEF m

\* What a split does to the balances: the payer's total is distributed to the unit,
\* the splitter keeps none of it, and the owner gets its share at least.
LEMMA SplitFacts ==
  ASSUME NEW b \in [TokenHolders -> Nat], b[Splitter] = 0,
         NEW total \in Nat, total <= b[Wallet], NEW owner \in Payees
  PROVE  LET after == AfterSplit(b, Wallet, total, owner)
         IN  /\ after \in [TokenHolders -> Nat] /\ Total(after) = Total(b)
             /\ after[Splitter] = 0 /\ after[Wallet] = b[Wallet] - total
             /\ after[owner] >= b[owner] + OwnerCut(total)
<1> DEFINE legs == Legs(total, owner)
           c    == Cut(total, 500)
           b0   == Move(b, Wallet, Splitter, total)
           b1   == Move(b0, Splitter, legs[1][1], legs[1][2])
           b2   == Move(b1, Splitter, legs[2][1], legs[2][2])
           b3   == Move(b2, Splitter, legs[3][1], legs[3][2])
           b4   == Move(b3, Splitter, legs[4][1], legs[4][2])
<1>0. AfterSplit(b, Wallet, total, owner) = b4
  BY DEF AfterSplit
<1>1. /\ legs[1][1] = owner /\ legs[1][2] = OwnerCut(total)
      /\ \A k \in 2 .. 4 : legs[k][1] \in Payees /\ legs[k][2] = c
  BY LegsFacts
<1>2. c \in Nat /\ OwnerCut(total) \in Nat /\ OwnerCut(total) + c + c + c = total
  BY CutFacts
<1> HIDE DEF legs, c
<1>3. /\ b0 \in [TokenHolders -> Nat] /\ Total(b0) = Total(b)
      /\ b0[Splitter] = total /\ b0[Wallet] = b[Wallet] - total /\ b0[owner] = b[owner]
  BY WalletSets, MoveFacts
<1> HIDE DEF b0
<1>4. /\ b1 \in [TokenHolders -> Nat] /\ Total(b1) = Total(b)
      /\ b1[Splitter] = c + c + c /\ b1[Wallet] = b[Wallet] - total
      /\ b1[owner] = b[owner] + OwnerCut(total)
  <2>1. OwnerCut(total) <= b0[Splitter] /\ owner \in TokenHolders \ {Splitter, Wallet}
    BY <1>2, <1>3, WalletSets
  <2> DEFINE y == Move(b0, Splitter, owner, OwnerCut(total))
  <2>2. /\ y \in [TokenHolders -> Nat] /\ Total(y) = Total(b0)
        /\ y[Splitter] = b0[Splitter] - OwnerCut(total)
        /\ y[owner] = b0[owner] + OwnerCut(total)
        /\ \A h \in TokenHolders \ {Splitter, owner} : y[h] = b0[h]
    BY <1>2, <1>3, <2>1, WalletSets, MoveFacts
  <2>3. b1 = y
    BY <1>1
  <2>4. y[Wallet] = b0[Wallet]
    BY <2>1, <2>2, WalletSets
  <2> HIDE DEF b1, y
  <2> QED
    BY <1>2, <1>3, <2>2, <2>3, <2>4
<1> HIDE DEF b1
<1>5. ASSUME NEW x \in [TokenHolders -> Nat], NEW k \in 2 .. 4, c <= x[Splitter]
      PROVE  LET y == Move(x, Splitter, legs[k][1], legs[k][2])
             IN  /\ y \in [TokenHolders -> Nat] /\ Total(y) = Total(x)
                 /\ y[Splitter] = x[Splitter] - c /\ y[Wallet] = x[Wallet]
                 /\ y[owner] >= x[owner]
  <2>1. legs[k][1] \in TokenHolders \ {Splitter, Wallet} /\ legs[k][2] = c
    <3>1. legs[k][1] \in Payees /\ legs[k][2] = c
      BY <1>1
    <3> QED
      BY <3>1, WalletSets
  <2> DEFINE z == legs[k][1]
             y == Move(x, Splitter, z, c)
  <2>2. /\ y \in [TokenHolders -> Nat] /\ Total(y) = Total(x)
        /\ y[Splitter] = x[Splitter] - c /\ y[z] = x[z] + c
        /\ \A h \in TokenHolders \ {Splitter, z} : y[h] = x[h]
    <3>1. z \in TokenHolders /\ Splitter \in TokenHolders /\ Splitter # z
      BY <2>1, WalletSets
    <3> HIDE DEF z
    <3> QED
      BY <1>2, <1>5, <3>1, MoveFacts
  <2>3. y[Wallet] = x[Wallet]
    BY <2>1, <2>2, WalletSets
  <2>4. y[owner] >= x[owner]
    <3>1. owner \in TokenHolders \ {Splitter} /\ x[owner] \in Nat
      BY WalletSets
    <3>2. CASE owner = z
      <4> HIDE DEF y, z
      <4> QED
        BY <1>2, <2>2, <3>1, <3>2
    <3>3. CASE owner # z
      <4> HIDE DEF y, z
      <4> QED
        BY <2>2, <3>1, <3>3
    <3> QED
      BY <3>2, <3>3
  <2> QED
    BY <2>1, <2>2, <2>3, <2>4
<1>6. /\ b2 \in [TokenHolders -> Nat] /\ Total(b2) = Total(b)
      /\ b2[Splitter] = c + c /\ b2[Wallet] = b[Wallet] - total
      /\ b2[owner] >= b[owner] + OwnerCut(total)
  <2>1. /\ b2 \in [TokenHolders -> Nat] /\ Total(b2) = Total(b1)
        /\ b2[Splitter] = b1[Splitter] - c /\ b2[Wallet] = b1[Wallet]
        /\ b2[owner] >= b1[owner]
    <3>1. c <= b1[Splitter] /\ 2 \in 2 .. 4
      BY <1>2, <1>4
    <3> QED
      BY <1>4, <1>5, <3>1
  <2> HIDE DEF b2
  <2> QED
    BY <1>2, <1>4, <2>1
<1> HIDE DEF b2
<1>7. /\ b3 \in [TokenHolders -> Nat] /\ Total(b3) = Total(b)
      /\ b3[Splitter] = c /\ b3[Wallet] = b[Wallet] - total /\ b3[owner] >= b2[owner]
  <2>1. /\ b3 \in [TokenHolders -> Nat] /\ Total(b3) = Total(b2)
        /\ b3[Splitter] = b2[Splitter] - c /\ b3[Wallet] = b2[Wallet]
        /\ b3[owner] >= b2[owner]
    <3>1. c <= b2[Splitter] /\ 3 \in 2 .. 4
      BY <1>2, <1>6
    <3> QED
      BY <1>5, <1>6, <3>1
  <2> HIDE DEF b3
  <2> QED
    BY <1>2, <1>6, <2>1
<1> HIDE DEF b3
<1>8. /\ b4 \in [TokenHolders -> Nat] /\ Total(b4) = Total(b)
      /\ b4[Splitter] = 0 /\ b4[Wallet] = b[Wallet] - total /\ b4[owner] >= b3[owner]
  <2>1. /\ b4 \in [TokenHolders -> Nat] /\ Total(b4) = Total(b3)
        /\ b4[Splitter] = b3[Splitter] - c /\ b4[Wallet] = b3[Wallet]
        /\ b4[owner] >= b3[owner]
    <3>1. c <= b3[Splitter] /\ 4 \in 2 .. 4
      BY <1>2, <1>7
    <3> QED
      BY <1>5, <1>7, <3>1
  <2> HIDE DEF b4
  <2> QED
    BY <1>2, <1>7, <2>1
<1> HIDE DEF b4
<1>9. b4[owner] >= b[owner] + OwnerCut(total)
  <2>1. /\ b[owner] \in Nat /\ b2[owner] \in Nat /\ b3[owner] \in Nat
        /\ b4[owner] \in Nat
    BY <1>6, <1>7, <1>8, WalletSets
  <2> QED
    BY <1>2, <1>6, <1>7, <1>8, <2>1
<1> QED
  BY <1>0, <1>8, <1>9

Purse == [pending : [Payees -> Nat], held : Int, paid : [Payees -> Nat]]

\* A native leg arrives or is owed: what the contract holds beyond what it owes
\* shrinks by the leg, and what it holds and has paid together stays.
LEMMA LegFacts ==
  ASSUME NEW purse \in Purse, NEW leg, leg[1] \in Payees, leg[2] \in Nat
  PROVE  LET after == SendNative(purse, leg)
         IN  /\ after \in Purse
             /\ after.held - Total(after.pending) = purse.held - Total(purse.pending) - leg[2]
             /\ after.held + Total(after.paid) = purse.held + Total(purse.paid)
<1> DEFINE after == SendNative(purse, leg)
           p == leg[1]
           n == leg[2]
           pending == purse.pending
           paid == purse.paid
<1>1. /\ pending \in [Payees -> Nat] /\ pending \in [Payees -> Int]
      /\ paid \in [Payees -> Nat] /\ paid \in [Payees -> Int] /\ purse.held \in Int
  BY DEF Purse
<1>2. Total(pending) \in Int /\ Total(paid) \in Int
  BY <1>1, WalletSets, TotalType
<1>3. CASE p \in accepts
  <2>1. /\ after \in Purse
        /\ after.held = purse.held - n /\ after.pending = pending
        /\ after.paid = [paid EXCEPT ![p] = @ + n]
    <3>1. after = [pending |-> pending, held |-> purse.held - n,
                   paid |-> [paid EXCEPT ![p] = @ + n]]
      BY <1>3 DEF SendNative, Purse
    <3>2. [paid EXCEPT ![p] = @ + n] \in [Payees -> Nat] /\ purse.held - n \in Int
      BY <1>1
    <3> HIDE DEF after
    <3> QED
      BY <1>1, <3>1, <3>2 DEF Purse
  <2>2. /\ after.paid \in [Payees -> Int] /\ after.paid[p] = paid[p] + n
        /\ \A q \in Payees \ {p} : after.paid[q] = paid[q]
    BY <1>1, <2>1
  <2>3. Total(after.paid) = Total(paid) + n
    <3>1. Total(after.paid) = Total(paid) - paid[p] + after.paid[p]
      BY <1>1, <2>2, WalletSets, TotalChange
    <3>2. n \in Int /\ paid[p] \in Int
      BY <1>1
    <3> HIDE DEF after, n, paid
    <3> QED
      BY <1>2, <2>2, <3>1, <3>2
  <2>4. n \in Nat
    OBVIOUS
  <2> HIDE DEF after, n
  <2> QED
    BY <1>1, <1>2, <2>1, <2>3, <2>4 DEF after, n
<1>4. CASE p \notin accepts
  <2>1. /\ after \in Purse
        /\ after.held = purse.held /\ after.paid = paid
        /\ after.pending = [pending EXCEPT ![p] = @ + n]
    <3>1. after = [pending |-> [pending EXCEPT ![p] = @ + n], held |-> purse.held,
                   paid |-> paid]
      BY <1>4 DEF SendNative, EscrowLeg, Purse
    <3>2. [pending EXCEPT ![p] = @ + n] \in [Payees -> Nat]
      BY <1>1
    <3> HIDE DEF after
    <3> QED
      BY <1>1, <3>1, <3>2 DEF Purse
  <2>2. /\ after.pending \in [Payees -> Int] /\ after.pending[p] = pending[p] + n
        /\ \A q \in Payees \ {p} : after.pending[q] = pending[q]
    BY <1>1, <2>1
  <2>3. Total(after.pending) = Total(pending) + n
    <3>1. Total(after.pending) = Total(pending) - pending[p] + after.pending[p]
      BY <1>1, <2>2, WalletSets, TotalChange
    <3>2. n \in Int /\ pending[p] \in Int
      BY <1>1
    <3> HIDE DEF after, n, pending
    <3> QED
      BY <1>2, <2>2, <3>1, <3>2
  <2>4. n \in Nat
    OBVIOUS
  <2> HIDE DEF after, n
  <2> QED
    BY <1>1, <1>2, <2>1, <2>3, <2>4 DEF after, n
<1> QED
  BY <1>3, <1>4

\* What a native split does: it pays or owes all of the total.
LEMMA NativeSplitFacts ==
  ASSUME SplitterTypeOK, held = Total(pendingNative), NEW total \in Nat, NEW owner \in Payees
  PROVE  LET after == AfterSplitNative(total, owner)
         IN  /\ after \in Purse /\ after.held = Total(after.pending)
             /\ after.held + Total(after.paid) = held + Total(paidNative) + total
<1> DEFINE legs == Legs(total, owner)
           c  == Cut(total, 500)
           p0 == [pending |-> pendingNative, held |-> held + total, paid |-> paidNative]
           p1 == SendNative(p0, legs[1])
           p2 == SendNative(p1, legs[2])
           p3 == SendNative(p2, legs[3])
           p4 == SendNative(p3, legs[4])
           Over(p) == p.held - Total(p.pending)
           All(p) == p.held + Total(p.paid)
<1>0. AfterSplitNative(total, owner) = p4
  BY DEF AfterSplitNative
<1>1. /\ \A k \in 1 .. 4 : legs[k][1] \in Payees /\ legs[k][2] \in Nat
      /\ legs[1][2] = OwnerCut(total)
      /\ legs[2][2] = c /\ legs[3][2] = c /\ legs[4][2] = c
  BY LegsFacts
<1>2. c \in Nat /\ OwnerCut(total) \in Nat /\ OwnerCut(total) + c + c + c = total
  BY CutFacts
<1>3. /\ Total(pendingNative) \in Int /\ Total(paidNative) \in Int
  BY WalletSets, TotalType DEF SplitterTypeOK
<1>4. p0 \in Purse /\ Over(p0) = total /\ All(p0) = held + Total(paidNative) + total
  BY <1>3 DEF Purse, SplitterTypeOK
<1> HIDE DEF legs, c, p0
<1>5. ASSUME NEW p \in Purse, NEW k \in 1 .. 4
      PROVE  LET q == SendNative(p, legs[k])
             IN  q \in Purse /\ Over(q) = Over(p) - legs[k][2] /\ All(q) = All(p)
  <2> DEFINE leg == legs[k]
  <2>1. leg[1] \in Payees /\ leg[2] \in Nat
    BY <1>1
  <2> HIDE DEF leg
  <2>2. LET q == SendNative(p, leg)
        IN  /\ q \in Purse
            /\ q.held - Total(q.pending) = p.held - Total(p.pending) - leg[2]
            /\ q.held + Total(q.paid) = p.held + Total(p.paid)
    BY <2>1, LegFacts
  <2> QED
    BY <2>2 DEF leg
<1> HIDE DEF Over, All
<1>6. /\ p1 \in Purse /\ Over(p1) = Over(p0) - legs[1][2] /\ All(p1) = All(p0)
  <2>1. 1 \in 1 .. 4 /\ p0 \in Purse
    BY <1>4
  <2> QED
    BY <1>5, <2>1
<1> HIDE DEF p1
<1>7. /\ p2 \in Purse /\ Over(p2) = Over(p1) - legs[2][2] /\ All(p2) = All(p1)
  <2>1. 2 \in 1 .. 4 /\ p1 \in Purse
    BY <1>6
  <2> QED
    BY <1>5, <2>1
<1> HIDE DEF p2
<1>8. /\ p3 \in Purse /\ Over(p3) = Over(p2) - legs[3][2] /\ All(p3) = All(p2)
  <2>1. 3 \in 1 .. 4 /\ p2 \in Purse
    BY <1>7
  <2> QED
    BY <1>5, <2>1
<1> HIDE DEF p3
<1>9. /\ p4 \in Purse /\ Over(p4) = Over(p3) - legs[4][2] /\ All(p4) = All(p3)
  <2>1. 4 \in 1 .. 4 /\ p3 \in Purse
    BY <1>8
  <2> QED
    BY <1>5, <2>1
<1> HIDE DEF p4
<1>10. Over(p4) = 0 /\ All(p4) = held + Total(paidNative) + total
  BY <1>1, <1>2, <1>4, <1>6, <1>7, <1>8, <1>9
<1>11. p4.held \in Int /\ Total(p4.pending) \in Int
  BY <1>9, WalletSets, TotalType DEF Purse
<1> QED
  BY <1>0, <1>9, <1>10, <1>11 DEF Over, All

WalletInv == WalletTypeOK /\ MoneyIsConserved

\* The totals are natural numbers.
LEMMA WalletTotals ==
  ASSUME WalletTypeOK
  PROVE  /\ Total(usdc) \in Nat /\ Total(parked) \in Nat
         /\ Total(pendingNative) \in Nat /\ Total(paidNative) \in Nat
<1>1. /\ usdc \in [TokenHolders -> Nat] /\ parked \in [Vaults -> Nat]
      /\ pendingNative \in [Payees -> Nat] /\ paidNative \in [Payees -> Nat]
  BY DEF WalletTypeOK, SplitterTypeOK
<1> QED
  BY <1>1, WalletSets, SumNat DEF Total

\* What the wallet is worth is an amount, in this state and in the next.
WorthIsAnAmount == Worth \in Int

LEMMA WorthType == WalletTypeOK => WorthIsAnAmount
  BY WalletTotals, WalletSets DEF WalletTypeOK, SplitterTypeOK, Worth, WorthIsAnAmount

LEMMA NextWorthType == WalletTypeOK' => WorthIsAnAmount'
  BY WorthType, PTL

\* Nothing has come in at the start.
LEMMA InitWalletInv == WalletInit => WalletInv
<1> SUFFICES ASSUME WalletInit PROVE WalletInv
  OBVIOUS
<1>1. WalletTypeOK
  BY WalletAssumption, SplitterAssumption
     DEF WalletInit, SplitterInit, WalletTypeOK, SplitterTypeOK
<1>2. /\ Total(usdc) = 0 /\ Total(parked) = 0
      /\ Total(pendingNative) = 0 /\ Total(paidNative) = 0
  BY WalletSets, TotalZero DEF WalletInit, SplitterInit
<1>3. MoneyIsConserved
  BY <1>2, WalletSets DEF WalletInit, SplitterInit, MoneyIsConserved
<1> QED
  BY <1>1, <1>3 DEF WalletInv

\* What is taken out of the vault is less in the vaults.
LEMMA UnparkedFacts ==
  ASSUME WalletTypeOK, NEW amount \in Nat,
         \/ yieldVault \in Vaults /\ amount <= parked[yieldVault]
         \/ yieldVault = NoVault /\ amount = 0
  PROVE  /\ Unparked(yieldVault, amount) \in [Vaults -> Nat]
         /\ Total(Unparked(yieldVault, amount)) = Total(parked) - amount
<1>1. parked \in [Vaults -> Nat] /\ Total(parked) \in Nat
  BY WalletTotals DEF WalletTypeOK
<1>2. CASE yieldVault \in Vaults /\ amount <= parked[yieldVault]
  <2> DEFINE after == [parked EXCEPT ![yieldVault] = @ - amount]
  <2>1. Unparked(yieldVault, amount) = after
    BY <1>2, WalletSets DEF Unparked
  <2>2. /\ after \in [Vaults -> Nat] /\ after[yieldVault] = parked[yieldVault] - amount
        /\ \A v \in Vaults \ {yieldVault} : after[v] = parked[v]
    BY <1>1, <1>2
  <2>3. parked[yieldVault] \in Nat
    BY <1>1, <1>2
  <2> HIDE DEF after
  <2>4. Total(after) = Total(parked) - parked[yieldVault] + after[yieldVault]
    <3>1. after \in [Vaults -> Int] /\ parked \in [Vaults -> Int]
      BY <1>1, <2>2
    <3> QED
      BY <1>2, <2>2, <3>1, WalletSets, TotalChange
  <2> QED
    BY <1>1, <2>1, <2>2, <2>3, <2>4
<1>3. CASE yieldVault = NoVault /\ amount = 0
  BY <1>1, <1>3 DEF Unparked
<1> QED
  BY <1>2, <1>3

\* What comes in, or out of a vault, is more at the wallet.
LEMMA CreditFacts ==
  ASSUME WalletTypeOK, NEW amount \in Nat
  PROVE  LET after == [usdc EXCEPT ![Wallet] = @ + amount]
         IN  /\ after \in [TokenHolders -> Nat]
             /\ Total(after) = Total(usdc) + amount
             /\ after[Wallet] = usdc[Wallet] + amount
             /\ after[Splitter] = usdc[Splitter]
<1> DEFINE after == [usdc EXCEPT ![Wallet] = @ + amount]
<1>1. usdc \in [TokenHolders -> Nat] /\ Total(usdc) \in Nat /\ usdc[Wallet] \in Nat
  BY WalletTotals, WalletSets DEF WalletTypeOK, SplitterTypeOK
<1>2. /\ after \in [TokenHolders -> Nat] /\ after[Wallet] = usdc[Wallet] + amount
      /\ \A h \in TokenHolders \ {Wallet} : after[h] = usdc[h]
  BY <1>1, WalletSets
<1> HIDE DEF after
<1>3. Total(after) = Total(usdc) - usdc[Wallet] + after[Wallet]
  <2>1. after \in [TokenHolders -> Int] /\ usdc \in [TokenHolders -> Int]
    BY <1>1, <1>2
  <2> QED
    BY <1>2, <2>1, WalletSets, TotalChange
<1>4. Total(after) = Total(usdc) + amount
  BY <1>1, <1>2, <1>3
<1>5. after[Splitter] = usdc[Splitter]
  BY <1>2, WalletSets
<1> QED
  BY <1>2, <1>4, <1>5 DEF after

\* A step of the tokens: types, what the wallet and its vaults have together, and
\* that the splitter keeps nothing.  Money that leaves the pair goes to a payee.
TokenStep ==
  /\ usdc' \in [TokenHolders -> Nat] /\ parked' \in [Vaults -> Nat]
  /\ Total(usdc)' + Total(parked)' = Total(usdc) + Total(parked)
  /\ usdc'[Splitter] = 0

\* splitMyBalance.
LEMMA SplitMyBalanceStep ==
  ASSUME WalletInv, SplitMyBalance
  PROVE  /\ TokenStep
         /\ \/ Worth' = Worth
            \/ /\ tokenOwner \in TokenOwners
               /\ 100 * (usdc'[tokenOwner] - usdc[tokenOwner]) >= 85 * (Worth - Worth')
<1> DEFINE redeemed == Redeemed(yieldVault)
<1>2. WalletTypeOK /\ usdc[Splitter] = 0
  BY DEF WalletInv, MoneyIsConserved
<1>3. /\ redeemed \in Nat
      /\ \/ yieldVault \in Vaults /\ redeemed <= parked[yieldVault]
         \/ yieldVault = NoVault /\ redeemed = 0
  BY <1>2, WalletSets DEF Redeemed, Works, WalletTypeOK
<1> DEFINE total == usdc[Wallet] + redeemed
           liquid == [usdc EXCEPT ![Wallet] = @ + redeemed]
<1>1. /\ parked' = Unparked(yieldVault, redeemed)
      /\ \/ usdc' = liquid
         \/ tokenOwner # Burnt /\ usdc' = AfterSplit(liquid, Wallet, total, tokenOwner)
  <2>1. liquid = [usdc EXCEPT ![Wallet] = Splittable(yieldVault)] /\ total = Splittable(yieldVault)
    BY DEF Splittable
  <2>2. usdc[Wallet] \in Nat /\ Splittable(yieldVault) \in Nat
    BY <1>2, <1>3, WalletSets DEF Splittable, WalletTypeOK, SplitterTypeOK
  <2>3. Splittable(yieldVault) < MIN_SPLIT_AMOUNT \/ tokenOwner # Burnt
    BY <2>2 DEF SplitMyBalance, SplitAccepted, MIN_SPLIT_AMOUNT
  <2> HIDE DEF liquid, total
  <2> QED
    BY <2>1, <2>3 DEF SplitMyBalance, BalancesAfterSplit
<1>4. /\ parked' \in [Vaults -> Nat] /\ Total(parked') = Total(parked) - redeemed
  BY <1>1, <1>2, <1>3, UnparkedFacts
<1>5. /\ liquid \in [TokenHolders -> Nat] /\ Total(liquid) = Total(usdc) + redeemed
      /\ liquid[Wallet] = total /\ liquid[Splitter] = 0
  BY <1>2, <1>3, CreditFacts
<1>6. /\ usdc \in [TokenHolders -> Nat] /\ usdc[Wallet] \in Nat /\ total \in Nat
      /\ Total(usdc) \in Nat /\ Total(parked) \in Nat
      /\ \A h \in TokenHolders \ {Wallet} : liquid[h] = usdc[h]
  BY <1>2, <1>3, WalletTotals, WalletSets DEF WalletTypeOK, SplitterTypeOK
<1>7. \/ usdc' = liquid
      \/ tokenOwner # Burnt /\ usdc' = AfterSplit(liquid, Wallet, total, tokenOwner)
  BY <1>1
<1> HIDE DEF liquid, total, redeemed
<1>8. CASE usdc' = liquid
  <2>1. TokenStep
    BY <1>3, <1>4, <1>5, <1>6, <1>8 DEF TokenStep
  <2>2. Worth' = Worth
    <3>1. usdc'[Wallet] = usdc[Wallet] + redeemed
      BY <1>5, <1>8 DEF total
    <3> QED
      BY <1>3, <1>4, <1>6, <3>1 DEF Worth
  <2> QED
    BY <2>1, <2>2
<1>9. CASE tokenOwner # Burnt /\ usdc' = AfterSplit(liquid, Wallet, total, tokenOwner)
  <2>1. tokenOwner \in TokenOwners /\ tokenOwner \in Payees
    BY <1>2, <1>9, WalletSets DEF WalletTypeOK
  <2>2. /\ usdc' \in [TokenHolders -> Nat] /\ Total(usdc') = Total(liquid)
        /\ usdc'[Splitter] = 0 /\ usdc'[Wallet] = liquid[Wallet] - total
        /\ usdc'[tokenOwner] >= liquid[tokenOwner] + OwnerCut(total)
    <3>1. total <= liquid[Wallet]
      BY <1>5, <1>6
    <3> QED
      BY <1>5, <1>6, <1>9, <2>1, <3>1, SplitFacts
  <2>3. TokenStep
    BY <1>3, <1>4, <1>5, <1>6, <2>2 DEF TokenStep
  <2>4. Worth - Worth' = total
    <3>1. usdc'[Wallet] = 0
      BY <1>5, <1>6, <2>2
    <3>2. total = usdc[Wallet] + redeemed
      BY DEF total
    <3> QED
      BY <1>3, <1>4, <1>6, <3>1, <3>2 DEF Worth
  <2>5. usdc'[tokenOwner] - usdc[tokenOwner] >= OwnerCut(total)
    <3>1. liquid[tokenOwner] = usdc[tokenOwner]
      BY <1>6, <2>1, WalletSets
    <3>2. usdc[tokenOwner] \in Nat /\ usdc'[tokenOwner] \in Nat
      BY <1>6, <2>1, <2>2, WalletSets
    <3>3. OwnerCut(total) \in Nat
      <4>1. total \in Nat
        BY <1>6
      <4> QED
        BY <4>1, CutFacts
    <3> QED
      BY <2>2, <3>1, <3>2, <3>3
  <2>6. 100 * (usdc'[tokenOwner] - usdc[tokenOwner]) >= 85 * (Worth - Worth')
    <3> DEFINE gain == usdc'[tokenOwner] - usdc[tokenOwner]
    <3>0. usdc[tokenOwner] \in Nat /\ usdc'[tokenOwner] \in Nat
      BY <1>6, <2>1, <2>2, WalletSets
    <3>1. gain \in Int /\ gain >= OwnerCut(total)
      BY <2>5, <3>0
    <3>2. OwnerCut(total) \in Nat /\ 100 * OwnerCut(total) >= 85 * total
      <4>1. total \in Nat
        BY <1>6
      <4> HIDE DEF total, gain
      <4> QED
        BY <4>1, CutFacts
    <3> HIDE DEF gain
    <3>3. 100 * gain >= 85 * total
      BY <1>6, <3>1, <3>2
    <3> QED
      BY <2>4, <3>3 DEF gain
  <2> QED
    BY <2>1, <2>3, <2>6
<1> QED
  BY <1>7, <1>8, <1>9

\* withdraw.
LEMMA WithdrawStep ==
  ASSUME WalletInv, NEW caller \in TokenOwners, NEW to \in TokenOwners, Withdraw(caller, to)
  PROVE  TokenStep
<1>1. /\ usdc \in [TokenHolders -> Nat] /\ parked \in [Vaults -> Nat]
      /\ usdc[Splitter] = 0
  BY DEF WalletInv, WalletTypeOK, SplitterTypeOK, MoneyIsConserved
<1>2. to \in TokenHolders \ {Wallet, Splitter} /\ usdc[Wallet] \in Nat
  BY <1>1, WalletSets
<1> DEFINE n == usdc[Wallet]
           after == Move(usdc, Wallet, to, n)
<1>3. usdc' = after /\ parked' = parked
  BY DEF Withdraw, moneyVars
<1>4. /\ after \in [TokenHolders -> Nat] /\ Total(after) = Total(usdc)
      /\ \A h \in TokenHolders \ {Wallet, to} : after[h] = usdc[h]
  BY <1>1, <1>2, WalletSets, MoveFacts
<1> HIDE DEF after
<1> QED
  BY <1>1, <1>2, <1>3, <1>4, WalletSets DEF TokenStep

\* parkIdle.
LEMMA ParkIdleStep ==
  ASSUME WalletInv, ParkIdle
  PROVE  TokenStep /\ Worth' = Worth
<1>1. /\ usdc \in [TokenHolders -> Nat] /\ parked \in [Vaults -> Nat]
      /\ Total(usdc) \in Nat /\ Total(parked) \in Nat /\ usdc[Splitter] = 0
      /\ yieldVault \in Vaults /\ usdc[Wallet] \in Nat
  BY WalletTotals, WalletSets
     DEF WalletInv, WalletTypeOK, SplitterTypeOK, MoneyIsConserved, ParkIdle, Works
<1> DEFINE n == usdc[Wallet]
           u == [usdc EXCEPT ![Wallet] = 0]
           p == [parked EXCEPT ![yieldVault] = @ + n]
<1>2. usdc' = u /\ parked' = p
  BY DEF ParkIdle
<1>3. /\ u \in [TokenHolders -> Nat] /\ u[Wallet] = 0
      /\ \A h \in TokenHolders \ {Wallet} : u[h] = usdc[h]
  BY <1>1, WalletSets
<1>4. /\ p \in [Vaults -> Nat] /\ p[yieldVault] = parked[yieldVault] + n
      /\ \A v \in Vaults \ {yieldVault} : p[v] = parked[v]
  BY <1>1
<1> HIDE DEF u, p
<1>5. /\ u \in [TokenHolders -> Int] /\ usdc \in [TokenHolders -> Int]
      /\ p \in [Vaults -> Int] /\ parked \in [Vaults -> Int]
      /\ parked[yieldVault] \in Nat
  BY <1>1, <1>3, <1>4
<1>6. Total(u) = Total(usdc) - usdc[Wallet] + u[Wallet]
  BY <1>3, <1>5, WalletSets, TotalChange
<1>7. Total(p) = Total(parked) - parked[yieldVault] + p[yieldVault]
  BY <1>1, <1>4, <1>5, WalletSets, TotalChange
<1>8. u[Splitter] = 0
  BY <1>1, <1>3, WalletSets
<1> QED
  BY <1>1, <1>2, <1>3, <1>4, <1>5, <1>6, <1>7, <1>8 DEF TokenStep, Worth

\* withdrawIdle and withdrawAllIdle.
LEMMA WithdrawIdleStep ==
  ASSUME WalletInv, NEW caller \in TokenOwners, NEW amount, WithdrawIdle(caller, amount)
  PROVE  TokenStep /\ Worth' = Worth
<1>1. /\ WalletTypeOK /\ usdc[Splitter] = 0
      /\ Total(usdc) \in Nat /\ Total(parked) \in Nat
      /\ yieldVault \in Vaults /\ usdc[Wallet] \in Nat
  BY WalletTotals, WalletSets
     DEF WalletInv, WalletTypeOK, SplitterTypeOK, MoneyIsConserved, WithdrawIdle, Works
<1>2. amount \in Nat /\ amount <= parked[yieldVault]
  BY <1>1 DEF WithdrawIdle, WalletTypeOK
<1> DEFINE u == [usdc EXCEPT ![Wallet] = @ + amount]
<1>3. usdc' = u /\ parked' = Unparked(yieldVault, amount)
  BY DEF WithdrawIdle
<1>4. /\ u \in [TokenHolders -> Nat] /\ Total(u) = Total(usdc) + amount
      /\ u[Wallet] = usdc[Wallet] + amount /\ u[Splitter] = 0
  BY <1>1, <1>2, CreditFacts
<1>5. Unparked(yieldVault, amount) \in [Vaults -> Nat] /\ Total(Unparked(yieldVault, amount)) = Total(parked) - amount
  BY <1>1, <1>2, UnparkedFacts
<1> HIDE DEF u
<1> QED
  BY <1>1, <1>2, <1>3, <1>4, <1>5 DEF TokenStep, Worth

\* n units come in: at the wallet, or in a vault.
Gains(n) ==
  /\ Income /\ received' = [received EXCEPT !.token = @ + n]
  /\ UNCHANGED <<pendingNative, held, paidNative, accepts, tokenOwner, yieldVault, failing>>
  /\ usdc' \in [TokenHolders -> Nat] /\ parked' \in [Vaults -> Nat]
  /\ usdc'[Splitter] = 0
  /\ Total(usdc') + Total(parked') = Total(usdc) + Total(parked) + n

LEMMA GainsInv ==
  ASSUME WalletInv, NEW n \in Nat, Gains(n)
  PROVE  WalletInv'
<1>1. WalletTypeOK /\ MoneyIsConserved /\ received \in [token : Nat, native : Nat]
      /\ Total(usdc) \in Nat /\ Total(parked) \in Nat
  BY WalletTotals DEF WalletInv, WalletTypeOK
<1>2. /\ received'.token = received.token + n /\ received'.native = received.native
      /\ received' \in [token : Nat, native : Nat]
  BY <1>1 DEF Gains
<1>3. income' \in 0 .. MaxIncome
  BY <1>1, WalletAssumption DEF Gains, Income, WalletTypeOK
<1>4. WalletTypeOK'
  BY <1>1, <1>2, <1>3 DEF Gains, WalletTypeOK, SplitterTypeOK
<1>5. received'.token = Total(usdc') + Total(parked')
  BY <1>1, <1>2 DEF Gains, MoneyIsConserved
<1>6. /\ received'.native = held' + Total(paidNative') /\ held' = Total(pendingNative')
      /\ usdc'[Splitter] = 0
  BY <1>1, <1>2 DEF Gains, MoneyIsConserved
<1> QED
  BY <1>4, <1>5, <1>6 DEF WalletInv, MoneyIsConserved

\* A payment arrives.
LEMMA ReceiveStep ==
  ASSUME WalletInv, NEW amount \in Payments, Receive(amount)
  PROVE  WalletInv' /\ Worth' >= Worth
<1>1. /\ WalletTypeOK /\ usdc[Splitter] = 0 /\ parked \in [Vaults -> Nat]
      /\ Total(usdc) \in Nat /\ Total(parked) \in Nat /\ usdc[Wallet] \in Nat
      /\ amount \in Nat
  BY WalletTotals, WalletSets, WalletAssumption
     DEF WalletInv, WalletTypeOK, SplitterTypeOK, MoneyIsConserved
<1> DEFINE u == [usdc EXCEPT ![Wallet] = @ + amount]
<1>2. /\ u \in [TokenHolders -> Nat] /\ Total(u) = Total(usdc) + amount
      /\ u[Wallet] = usdc[Wallet] + amount /\ u[Splitter] = 0
  BY <1>1, CreditFacts
<1>3. usdc' = u /\ parked' = parked
  BY DEF Receive
<1> HIDE DEF u
<1>4. Total(usdc') + Total(parked') = Total(usdc) + Total(parked) + amount
  BY <1>1, <1>2, <1>3
<1>5. Gains(amount)
  BY <1>1, <1>2, <1>3, <1>4 DEF Gains, Receive
<1>6. Worth' >= Worth
  BY <1>1, <1>2, <1>3 DEF Worth
<1> QED
  BY <1>1, <1>5, <1>6, GainsInv

\* A vault earns.
LEMMA EarnStep ==
  ASSUME WalletInv, NEW v \in Vaults, Earn(v)
  PROVE  WalletInv' /\ Worth' >= Worth
<1>1. /\ WalletTypeOK /\ usdc[Splitter] = 0
      /\ usdc \in [TokenHolders -> Nat] /\ parked \in [Vaults -> Nat]
      /\ Total(usdc) \in Nat /\ Total(parked) \in Nat /\ usdc[Wallet] \in Nat
      /\ Yield \in Nat
  BY WalletTotals, WalletSets, WalletAssumption
     DEF WalletInv, WalletTypeOK, SplitterTypeOK, MoneyIsConserved
<1> DEFINE p == [parked EXCEPT ![v] = @ + Yield]
<1>2. /\ p \in [Vaults -> Nat] /\ p[v] = parked[v] + Yield /\ parked[v] \in Nat
      /\ \A w \in Vaults \ {v} : p[w] = parked[w]
  BY <1>1
<1>3. parked' = p /\ usdc' = usdc
  BY DEF Earn, splitterVars
<1> HIDE DEF p
<1>4. Total(p) = Total(parked) - parked[v] + p[v]
  <2>1. p \in [Vaults -> Int] /\ parked \in [Vaults -> Int]
    BY <1>1, <1>2
  <2> QED
    BY <1>2, <2>1, WalletSets, TotalChange
<1>5. Total(usdc') + Total(parked') = Total(usdc) + Total(parked) + Yield
  BY <1>1, <1>2, <1>3, <1>4
<1>6. Gains(Yield)
  BY <1>1, <1>2, <1>3, <1>5 DEF Gains, Earn, splitterVars
<1>7. Worth' >= Worth
  BY <1>1, <1>2, <1>3, <1>4 DEF Worth
<1> QED
  BY <1>1, <1>6, <1>7, GainsInv

\* A native payment is passed on or owed, to the unit.
LEMMA PayNativelyInv ==
  ASSUME WalletInv, NEW amount \in Payments, NEW owner \in TokenOwners,
         PayNatively(amount, owner)
  PROVE  WalletInv'
<1> DEFINE after == AfterSplitNative(amount, owner)
<1>1. /\ WalletTypeOK /\ SplitterTypeOK /\ MoneyIsConserved
      /\ held = Total(pendingNative) /\ Total(paidNative) \in Nat /\ held \in Nat
      /\ received \in [token : Nat, native : Nat]
      /\ amount \in Nat /\ owner \in Payees
  BY WalletTotals, WalletSets, WalletAssumption DEF WalletInv, WalletTypeOK, MoneyIsConserved
<1>2. /\ after \in Purse /\ after.held = Total(after.pending)
      /\ after.held + Total(after.paid) = held + Total(paidNative) + amount
  BY <1>1, NativeSplitFacts
<1>3. /\ pendingNative' = after.pending /\ held' = after.held /\ paidNative' = after.paid
      /\ UNCHANGED <<usdc, accepts, tokenOwner, yieldVault, parked, failing>>
      /\ received' = [received EXCEPT !.native = @ + amount]
      /\ Income
  BY DEF PayNatively, SplitNative
<1> HIDE DEF after
<1>4. /\ pendingNative' \in [Payees -> Nat] /\ paidNative' \in [Payees -> Nat]
      /\ held' = Total(pendingNative')
      /\ held' + Total(paidNative') = held + Total(paidNative) + amount
  BY <1>2, <1>3 DEF Purse
<1>5. held' \in Nat
  BY <1>4, WalletSets, SumNat DEF Total
<1>6. /\ received'.token = received.token /\ received'.native = received.native + amount
      /\ received' \in [token : Nat, native : Nat]
  BY <1>1, <1>3
<1>7. income' \in 0 .. MaxIncome
  BY <1>1, <1>3, WalletAssumption DEF Income, WalletTypeOK
<1>8. WalletTypeOK'
  BY <1>1, <1>3, <1>4, <1>5, <1>6, <1>7 DEF WalletTypeOK, SplitterTypeOK
<1>9. received'.native = held' + Total(paidNative')
  BY <1>1, <1>4, <1>6 DEF MoneyIsConserved
<1>10. received'.token = Total(usdc') + Total(parked') /\ usdc'[Splitter] = 0
  BY <1>1, <1>3, <1>6 DEF MoneyIsConserved
<1> QED
  BY <1>4, <1>8, <1>9, <1>10 DEF WalletInv, MoneyIsConserved

\* A claim pays what is owed.
LEMMA ClaimNativeInv ==
  ASSUME WalletInv, NEW payee \in Payees, ClaimNative(payee), UNCHANGED moneyVars
  PROVE  WalletInv'
<1> DEFINE n == pendingNative[payee]
<1>1. /\ WalletTypeOK /\ MoneyIsConserved /\ held = Total(pendingNative)
      /\ pendingNative \in [Payees -> Nat] /\ paidNative \in [Payees -> Nat]
      /\ Total(pendingNative) \in Nat /\ Total(paidNative) \in Nat
      /\ n \in Nat /\ paidNative[payee] \in Nat
  BY WalletTotals DEF WalletInv, WalletTypeOK, SplitterTypeOK, MoneyIsConserved
<1>2. /\ paidNative' = [paidNative EXCEPT ![payee] = @ + n]
      /\ held' = held - n /\ pendingNative' = [pendingNative EXCEPT ![payee] = 0]
      /\ UNCHANGED <<usdc, accepts, tokenOwner, yieldVault, parked, failing, income, received>>
  BY DEF ClaimNative, moneyVars
<1>3. /\ paidNative' \in [Payees -> Nat] /\ paidNative'[payee] = paidNative[payee] + n
      /\ pendingNative' \in [Payees -> Nat] /\ pendingNative'[payee] = 0
      /\ \A q \in Payees \ {payee} : /\ paidNative'[q] = paidNative[q]
                                     /\ pendingNative'[q] = pendingNative[q]
  BY <1>1, <1>2
<1>4. /\ pendingNative \in [Payees -> Int] /\ pendingNative' \in [Payees -> Int]
      /\ paidNative \in [Payees -> Int] /\ paidNative' \in [Payees -> Int]
  BY <1>1, <1>3
<1>5. Total(pendingNative') = Total(pendingNative) - n + pendingNative'[payee]
  BY <1>3, <1>4, WalletSets, TotalChange
<1>6. Total(paidNative') = Total(paidNative) - paidNative[payee] + paidNative'[payee]
  BY <1>3, <1>4, WalletSets, TotalChange
<1>7. /\ held' = Total(pendingNative')
      /\ held' + Total(paidNative') = held + Total(paidNative)
  <2> HIDE DEF n
  <2> QED
    BY <1>1, <1>2, <1>3, <1>5, <1>6
<1>8. held' \in Nat
  BY <1>3, <1>7, WalletSets, SumNat DEF Total
<1>9. WalletTypeOK'
  BY <1>1, <1>2, <1>3, <1>8 DEF WalletTypeOK, SplitterTypeOK
<1> QED
  BY <1>1, <1>2, <1>7, <1>9 DEF WalletInv, MoneyIsConserved

\* The steps that move tokens and nothing else.
LEMMA TokenStepInv ==
  ASSUME WalletInv, TokenStep,
         UNCHANGED <<pendingNative, held, paidNative, accepts, tokenOwner, yieldVault,
                     failing, income, received>>
  PROVE  WalletInv'
<1>1. WalletTypeOK'
  BY DEF WalletInv, TokenStep, WalletTypeOK, SplitterTypeOK
<1> QED
  BY <1>1 DEF WalletInv, TokenStep, MoneyIsConserved

\* The steps that move nothing.
LEMMA NoMoneyInv ==
  ASSUME WalletInv, UNCHANGED <<usdc, pendingNative, held, paidNative, parked, income, received>>,
         accepts' \subseteq Payees, tokenOwner' \in TokenOwners \cup {Burnt},
         yieldVault' \in Vaults \cup {NoVault}, failing' \subseteq Faults
  PROVE  WalletInv'
  BY DEF WalletInv, WalletTypeOK, SplitterTypeOK, MoneyIsConserved

\* The inductive step, one case per action, together with what the step means for
\* what the wallet is worth.
PaysTheOwner ==
  Worth' < Worth =>
    \/ \E to \in TokenOwners : Withdraw(tokenOwner, to)
    \/ /\ tokenOwner \in TokenOwners
       /\ 100 * (usdc'[tokenOwner] - usdc[tokenOwner]) >= 85 * (Worth - Worth')

LEMMA NextWallet ==
  WalletInv /\ [WalletNext]_receiverVars => WalletInv' /\ PaysTheOwner
<1> SUFFICES ASSUME WalletInv, [WalletNext]_receiverVars PROVE WalletInv' /\ PaysTheOwner
  OBVIOUS
<1>0. Worth \in Int
  BY WorthType DEF WalletInv, WorthIsAnAmount
<1>t. /\ accepts \subseteq Payees /\ tokenOwner \in TokenOwners \cup {Burnt}
      /\ yieldVault \in Vaults \cup {NoVault} /\ failing \subseteq Faults
  BY DEF WalletInv, WalletTypeOK, SplitterTypeOK
<1>1. CASE SplitMyBalance
  <2>1. WalletInv'
    BY <1>1, SplitMyBalanceStep, TokenStepInv DEF SplitMyBalance
  <2>2. PaysTheOwner
    BY <1>0, <1>1, SplitMyBalanceStep DEF PaysTheOwner
  <2> QED
    BY <2>1, <2>2
<1>2. CASE ParkIdle
  BY <1>0, <1>2, ParkIdleStep, TokenStepInv DEF ParkIdle, PaysTheOwner
<1>3. ASSUME NEW caller \in TokenOwners, OwnerCall(caller)
      PROVE  WalletInv' /\ PaysTheOwner
  <2>1. ASSUME NEW to \in TokenOwners, Withdraw(caller, to)
        PROVE  WalletInv' /\ PaysTheOwner
    <3>1. WalletInv'
      BY <2>1, WithdrawStep, TokenStepInv DEF Withdraw, moneyVars
    <3>2. PaysTheOwner
      BY <2>1 DEF PaysTheOwner, Withdraw
    <3> QED
      BY <3>1, <3>2
  <2>2. ASSUME NEW v \in Vaults \cup {NoVault}, SetYieldVault(caller, v)
        PROVE  WalletInv' /\ PaysTheOwner
    <3>1. WalletInv'
      BY <1>t, <2>2, NoMoneyInv DEF SetYieldVault, splitterVars
    <3>2. Worth' = Worth
      BY <2>2 DEF SetYieldVault, splitterVars, Worth
    <3> QED
      BY <1>0, <3>1, <3>2 DEF PaysTheOwner
  <2>3. ASSUME NEW amount, WithdrawIdle(caller, amount)
        PROVE  WalletInv' /\ PaysTheOwner
    <3>1. TokenStep /\ Worth' = Worth
      BY <2>3, WithdrawIdleStep
    <3>2. WalletInv'
      BY <2>3, <3>1, TokenStepInv DEF WithdrawIdle
    <3> QED
      BY <1>0, <3>1, <3>2 DEF PaysTheOwner
  <2> QED
    BY <1>3, <2>1, <2>2, <2>3 DEF OwnerCall, WithdrawAllIdle
<1>4. ASSUME NEW owner \in TokenOwners \cup {Burnt}, SetOwner(owner)
      PROVE  WalletInv' /\ PaysTheOwner
  <2>1. WalletInv'
    BY <1>4, <1>t, NoMoneyInv DEF SetOwner, splitterVars
  <2>2. Worth' = Worth
    BY <1>4 DEF SetOwner, splitterVars, Worth
  <2> QED
    BY <1>0, <2>1, <2>2 DEF PaysTheOwner
<1>5. ASSUME NEW payee \in Payees, ClaimNative(payee), UNCHANGED moneyVars
      PROVE  WalletInv' /\ PaysTheOwner
  <2>1. Worth' = Worth
    BY <1>5 DEF ClaimNative, moneyVars, Worth
  <2> QED
    BY <1>0, <1>5, <2>1, ClaimNativeInv DEF PaysTheOwner
<1>6. ASSUME NEW amount \in Payments, Receive(amount) PROVE WalletInv' /\ PaysTheOwner
  <2>1. WalletInv' /\ Worth' >= Worth
    BY <1>6, ReceiveStep
  <2>2. Worth' \in Int
    BY <2>1, NextWorthType DEF WalletInv, WorthIsAnAmount
  <2> QED
    BY <1>0, <2>1, <2>2 DEF PaysTheOwner
<1>7. ASSUME NEW v \in Vaults, Earn(v) PROVE WalletInv' /\ PaysTheOwner
  <2>1. WalletInv' /\ Worth' >= Worth
    BY <1>7, EarnStep
  <2>2. Worth' \in Int
    BY <2>1, NextWorthType DEF WalletInv, WorthIsAnAmount
  <2> QED
    BY <1>0, <2>1, <2>2 DEF PaysTheOwner
<1>8. ASSUME NEW amount \in Payments, NEW owner \in TokenOwners, PayNatively(amount, owner)
      PROVE  WalletInv' /\ PaysTheOwner
  <2>1. Worth' = Worth
    BY <1>8 DEF PayNatively, SplitNative, Worth
  <2> QED
    BY <1>0, <1>8, <2>1, PayNativelyInv DEF PaysTheOwner
<1>9. ASSUME NEW fault \in Faults, TurnVault(fault) PROVE WalletInv' /\ PaysTheOwner
  <2>1. failing' \subseteq Faults
    BY <1>9, <1>t DEF TurnVault
  <2>2. WalletInv'
    BY <1>9, <1>t, <2>1, NoMoneyInv DEF TurnVault, splitterVars
  <2>3. Worth' = Worth
    BY <1>9 DEF TurnVault, splitterVars, Worth
  <2> QED
    BY <1>0, <2>2, <2>3 DEF PaysTheOwner
<1>10. ASSUME NEW payee \in Payees, TurnAcceptance(payee), UNCHANGED moneyVars
       PROVE  WalletInv' /\ PaysTheOwner
  <2>1. accepts' \subseteq Payees
    BY <1>10, <1>t DEF TurnAcceptance
  <2>2. WalletInv'
    BY <1>10, <1>t, <2>1, NoMoneyInv DEF TurnAcceptance, moneyVars
  <2>3. Worth' = Worth
    BY <1>10 DEF TurnAcceptance, moneyVars, Worth
  <2> QED
    BY <1>0, <2>2, <2>3 DEF PaysTheOwner
<1>11. CASE UNCHANGED receiverVars
  <2>1. Worth' = Worth
    BY <1>11 DEF receiverVars, splitterVars, moneyVars, Worth
  <2>2. WalletInv'
    BY <1>11, <1>t, NoMoneyInv DEF receiverVars, splitterVars, moneyVars
  <2> QED
    BY <1>0, <2>1, <2>2 DEF PaysTheOwner
<1> QED
  BY <1>1, <1>2, <1>3, <1>4, <1>5, <1>6, <1>7, <1>8, <1>9, <1>10, <1>11 DEF WalletNext

\* The types of the wallet and the conservation of its money are inductive together.
THEOREM WalletInductive == WalletSpec => []WalletInv
  BY InitWalletInv, NextWallet, PTL DEF WalletSpec

\* No unit is lost or made on the way through the wallet, its vaults and the splitter.
THEOREM WalletConservesMoney == WalletSpec => []MoneyIsConserved
<1>1. WalletInv => MoneyIsConserved
  BY DEF WalletInv
<1> QED
  BY <1>1, WalletInductive, PTL

\* The wallet and its vaults get poorer only by the owner's withdrawal, or by a
\* split that gives the owner 85 % and more.
THEOREM WalletPaysItsOwner == WalletSpec => PayoutFollowsOwner
<1>1. WalletInv /\ [WalletNext]_receiverVars => [PaysTheOwner]_receiverVars
  BY NextWallet
<1>2. WalletSpec => [][PaysTheOwner]_receiverVars
  BY <1>1, WalletInductive, PTL DEF WalletSpec
<1> QED
  BY <1>2 DEF PayoutFollowsOwner, PaysTheOwner

\* What a split does to a wallet that holds enough, for the vault it has and for none.
LEMMA SplitAtOnce ==
  ASSUME WalletInv, usdc[Wallet] >= MIN_SPLIT_AMOUNT, tokenOwner # Burnt,
         NEW v \in Vaults \cup {NoVault}, Tells(v)
  PROVE  /\ SplitAccepted(v)
         /\ 100 * (BalancesAfterSplit(v)[tokenOwner] - usdc[tokenOwner]) >= 85 * usdc[Wallet]
<1> DEFINE redeemed == Redeemed(v)
           total == usdc[Wallet] + redeemed
           liquid == [usdc EXCEPT ![Wallet] = @ + redeemed]
<1>1. /\ WalletTypeOK /\ usdc[Splitter] = 0 /\ usdc \in [TokenHolders -> Nat]
      /\ usdc[Wallet] \in Nat /\ tokenOwner \in TokenOwners /\ tokenOwner \in Payees
  BY WalletSets DEF WalletInv, MoneyIsConserved, WalletTypeOK, SplitterTypeOK
<1>2. redeemed \in Nat /\ usdc[tokenOwner] \in Nat
  BY <1>1, WalletSets DEF Redeemed, Works, WalletTypeOK
<1>3. Splittable(v) = total /\ total \in Nat /\ total >= usdc[Wallet] /\ total >= MIN_SPLIT_AMOUNT
  BY <1>1, <1>2 DEF Splittable, MIN_SPLIT_AMOUNT
<1>4. SplitAccepted(v)
  BY <1>3 DEF SplitAccepted, MIN_SPLIT_AMOUNT
<1>5. /\ liquid \in [TokenHolders -> Nat] /\ liquid[Wallet] = total /\ liquid[Splitter] = 0
      /\ liquid[tokenOwner] = usdc[tokenOwner]
  BY <1>1, <1>2, CreditFacts, WalletSets
<1>6. BalancesAfterSplit(v) = AfterSplit(liquid, Wallet, total, tokenOwner)
  BY <1>1, <1>3 DEF BalancesAfterSplit, Splittable, MIN_SPLIT_AMOUNT
<1> HIDE DEF liquid, total, redeemed
<1>7. /\ BalancesAfterSplit(v)[tokenOwner] \in Nat
      /\ BalancesAfterSplit(v)[tokenOwner] >= liquid[tokenOwner] + OwnerCut(total)
  <2>1. /\ AfterSplit(liquid, Wallet, total, tokenOwner) \in [TokenHolders -> Nat]
        /\ AfterSplit(liquid, Wallet, total, tokenOwner)[tokenOwner]
             >= liquid[tokenOwner] + OwnerCut(total)
    BY <1>1, <1>3, <1>5, SplitFacts
  <2> QED
    BY <1>1, <1>6, <2>1, WalletSets
<1>8. 100 * OwnerCut(total) >= 85 * total /\ OwnerCut(total) \in Nat
  BY <1>3, CutFacts
<1> QED
  BY <1>1, <1>2, <1>3, <1>4, <1>5, <1>7, <1>8

\* No failure of a vault that says what the wallet's shares are keeps a wallet with
\* enough in hand from paying its owner by a split, and leaving the vault always helps.
THEOREM WalletVaultNeverBricksSplit == WalletSpec => []VaultNeverBricksSplit
<1>1. ASSUME WalletInv PROVE VaultNeverBricksSplit
  <2>1. yieldVault \in Vaults \cup {NoVault}
    BY <1>1 DEF WalletInv, WalletTypeOK
  <2> QED
    BY <1>1, <2>1, SplitAtOnce DEF VaultNeverBricksSplit
<1> QED
  BY <1>1, WalletInductive, PTL

=============================================================================
