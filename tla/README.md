# zhgg: formal specifications

TLA+ specifications of the parts of zhgg that move money, keep evidence, choose
who answers, or tell the operator what happened; the TLC configurations that
check them on small instances; and TLAPS proofs of the results that matter most
for every value of the constants.

    tlc -workers 2 -config MCRouter.cfg MCRouter.tla         # model-check
    tlapm SpendCapProofs.tla                                 # prove

## 1. The system

zhgg is a market of agents that hire and pay each other. A user's terminal
(`apps/tui`) dispatches commands; the orchestrator (`apps/demo`) runs one loop:
check a spend cap, pay an oracle agent, commit to a plan on chain, let an audit
agent probe a target through TEE providers, post a receipt, pin evidence to 0G
Storage, reveal the plan. Other agents transfer, swap, park, mint and hire. A
router (`packages/router`) sends prompts to one or several providers and settles
with each. The money and the evidence live in contracts on Base and 0G;
everything else is TypeScript that awaits them.

| part | state it keeps | operations | what makes it correct |
|---|---|---|---|
| `SpendCap.sol` | a cap per (account, asset, permission id), its owner | grant, revoke, spend, view, each in a scoped and a legacy form | never more than the cap per period, the view agrees with the spend, a dead cap stays inert |
| `apps/demo/src/spend-cap.ts` | a run in flight | `checkSpendCap` | fails closed under races with other runs, the cap's owner and the clock |
| `AgenticCommerce.sol` | jobs, their escrow | createJob, fund, submit, complete, reject, claimRefund | one pool of tokens covers every open job; an escrow leaves once, whole, to one side; it always leaves |
| `DelegationManager.sol` | used (delegator, salt) pairs | redeemDelegations | a delegation is used once, in time, by its delegate, within its caveats |
| `AgentReceiverWallet.sol`, `FeeSplitter.sol`, `OwnerMirror.sol` | who owns the iNFT, balances, yield vault, manager and its lock; refused native amounts | splits, withdrawals, parking, claims | cuts add up; parked money stays reachable; a payee that refuses is owed, not lost |
| `AxiomCommit.sol`, `AgentNFT.sol` | commits, operators; owners, memory roots | commitPlan, revealPlan; mint, transfer, updateMemoryRoot | a plan is revealed once, by its committer, as committed |
| `AgentRegistry`, `ENSRegistrar`, receiver-wallet factory | agents, labels, wallets | register, giveFeedback, claim a label, deploy | ownership, first come first served |
| `packages/workflow/src/multi-leg-relay.ts` | nonce store, calls in flight | relayPaymentIntent | nothing unauthorised is sent, a retry is refused, every leg is reported |
| `packages/router/src/router.ts` and around it | the narrowed scope; a route in flight | decide the mode, evaluate the policy, query the pool, infer, settle, score | spending within scope, attested answers, no stray settlement, confidence means agreement |
| `packages/router/src/audit.ts` | queue of audit events, upload in flight | enqueue, flush, close | no event lost, order kept, all pinned in the end |
| `apps/demo/src/cross-agent.ts`, `loop-helpers.ts`, `live-deps.ts` | a run's transcript | `runCrossAgentDemo` | honest about money, evidence only for what exists |
| `apps/agents/audit`, `workflow/audit-report.ts`, `adapters/zg-router.ts`, `tee-attestation.ts`, `apps/tee-verifier` | an audit in flight, a report | `runAudit`, `inferZG`, `writeAuditReport`, verify a quote | what is posted can be recomputed from what is stored; a TEE claim is somebody's |
| `apps/tui` | dispatchers, FLOW, RECEIPT, running label, grant form | dispatch, keys, orchestrator steps, receipts fetched in the background, restart | shows what happened, submits what was shown |
| `apps/mint-agent` | steps done | mint, register, subname, cap, records, deploy | the report of a partial failure is true |
| `apps/transfer-agent`, `apps/swap-agent`, `yield-intents.ts`, `packages/wallet-aa` | a command in flight | transfer, swap, park, unpark, user operation | the answer is what happened |
| `workflow/x402.ts`, `keeperhub-marketplace.ts`, `apps/keeperhub-agent`, `apps/zhgg-mcp-adapter` | payments seen, purchases in flight | challenge, verify, settle; inspect, hire, pay; serve | one payment, one piece of work; the buyer learns what was charged |
| `ACPJobStub`, `across.ts`, calldata suffixes, registry of workflows, `apps/web`, scripts | little or none | encodings, static data, presentation | |

They interact by contract calls (DelegationManager -> wallet -> SpendCap), by
transactions sent and awaited from TypeScript (gate, relay, loop, agents), by
HTTP between buyers, the gate and the adapter, by callbacks (`onFlushed`, the
orchestrator's steps) and by state that other actors change between two awaits:
a chain, the terminal's module variables. The hard behaviours are therefore
races between an off-chain check and its on-chain effect; transactions that are
broadcast and lost, late or mined as reverts; period and deadline boundaries;
partial failures after money moved; requests that are sent twice; buffers that
fail and retry; dispatchers that nobody awaits and that write the same panels.

## 2. The modules

| module | models | composed with |
|---|---|---|
| `SpendCap` | `contracts/src/SpendCap.sol` | |
| `SpendCapGate` | `checkSpendCap`, run concurrently | extends `SpendCap` |
| `EscrowLedger` | the abstract promise of an escrow | |
| `AgenticCommerce` | `contracts/src/AgenticCommerce.sol` | implements `EscrowLedger` |
| `FeeSplitter` | `contracts/src/FeeSplitter.sol` | |
| `ReceiverWallet` | the money side of `contracts/src/AgentReceiverWallet.sol`, its owner as `OwnerMirror.sol` has it | extends `FeeSplitter` |
| `Authority` | the abstract promise of a delegation | |
| `Delegation` | `contracts/src/DelegationManager.sol` and the delegated side of the wallet | extends `SpendCap`, implements `Authority` |
| `MultiLegRelay` | `relayPaymentIntent` and `feeSplitterExecutor` | |
| `AgentNFT`, `AxiomCommit` | ownership and memory roots; commits and reveals | `AxiomCommit` extends `AgentNFT` |
| `AuditCore` | parsing and aggregation of the probes' answers | |
| `AuditLoop` | `runCrossAgentDemo` with its live dependencies | extends `AxiomCommit`, `AuditCore` |
| `TeeVerifier` | the quote verifier and its two clients | |
| `Evidence` | `inferZG`, `runAudit`, the canonical report, its pin, its feedback | extends `AuditCore`, `TeeVerifier` |
| `Sums` | the sum of a function over a finite set | |
| `Consensus` | the four scorers of `consensus.ts` | extends `Sums` |
| `Router` | mode decision, policy, scope, pool, adapters, `route()` | extends `Consensus` |
| `AuditWriter` | `createAuditWriter` | |
| `Terminal` | `apps/tui`: dispatchers, keyboard, FLOW, RECEIPT, grant form, restart | |
| `MintAgent` | `apps/mint-agent` on three chains | |
| `Operator` | transfers, swaps, park and unpark, user operations, side by side | |
| `Marketplace` | a purchase from the buyer through the x402 gate to the adapter and back | |
| `SumTheorems` | facts about sums, for the proofs below | extends `Sums` |
| `SpendCapProofs` | proofs about `SpendCap`, `SpendCapGate`, `Delegation` | |
| `EscrowProofs` | proofs about `AgenticCommerce`, `ReceiverWallet` | |
| `MultiLegRelayProofs`, `TerminalProofs` | proofs about the modules they are named after | |
| `AuditLoopProofs` | proofs about `AuditLoop`, `Evidence` | |
| `RouterProofs` | proofs about `Router`, `AuditWriter` | |
| `AgentsProofs` | proofs about `MintAgent`, `Operator`, `Marketplace` | |
| `MC*` | small instances for TLC | |

A definition whose comment begins with "Mutant of" is not part of a
specification. It is a plausible mistake in the definition that follows it; put
in its place, it breaks one property, which shows that the property depends on
the code it is about. `PROJECT.json` pairs every property with such a mutant.

### How state and actions correspond to the code

*Contracts.* A transaction is one step, because a call that reverts leaves no
trace: `require`s and custom errors are guards, and a revert is an action that
is not enabled. History variables (`windowDebits`, `escrowed`, `payout`,
`received`, `reveals`) stand for events or for sums that no contract stores.
`Tick` and `NewBlock` move the clock, between any two steps.

- `SpendCap`: `caps` and `capOwner` are `_caps` and `_capOwner`. `RolledOver` is
  the roll-over in `spendPermission`, `PermissionOf` the one the view has of its
  own. The legacy calls are the scoped ones on the key `DefaultKey`.
- `AgenticCommerce`: `jobs`, `nextJobId`. A hook is a bit per job that its
  contract may flip at any time. `Fee` multiplies in `uint256` and can overflow.
- `AxiomCommit`: a commit id is the record of what is hashed, so it is as
  collision-free as keccak is taken to be. `AgentNFT` is asked for the owner at
  every call, and an owner may transfer or burn at any time.
- `Delegation`: `redeemDelegations` is one transaction that calls the wallet,
  which calls SpendCap and a target. It is taken apart into `Check`, `Debit` and
  `Execute` per item; `batch.saved` is what a revert restores, and nothing else
  moves while `batch` is open.
- `FeeSplitter`, `ReceiverWallet`: balances of one token, and native money.
  `parked` is what the shares in a vault redeem for; vaults are external, earn,
  pause, resume, and may fail in each of two ways (`Faults`): they give no money
  back, or they do not even tell the wallet its shares. The iNFT lives on another
  chain, so the wallet asks `OwnerMirror`, which an attestor writes at any time
  (`SetOwner`): an owner may be late, missing or changed between a payment and its
  split.

*TypeScript.* What runs between two `await`s is one step, since JavaScript runs
one callback at a time; at an `await` everything else may move. A transaction
is broadcast in one step and mined in a later one, and only then the contract's
guard decides. A failing call of a node, a store or a storage is a disjunct of
the step that awaits it, a broadcast whose answer is lost included.

- `SpendCapGate`: `step[r]` is the await a run is at, `outcome[r]` what it
  returned, `tx[r]` its spend. `Return` is every `return`, `EnforceFails` the
  catch block.
- `AuditWriter`: `queue`, `timer`, `closed` and `flushing` are the variables of
  the closure, `snapshot` is the local of `doFlush`.
- `MultiLegRelay`: `used` is the nonce store, `pc[c]` the await of a call,
  `results[c]` its `legs`. `mempool` holds the relayer's transactions, mined in
  the order of their broadcast, as nonces force them to.
- `AuditLoop`: `run[r]` holds the locals of a run and the await it is at, named
  after what is awaited. `payments` and `tx` are what really happened; a marketplace
  that answers ok may have charged nothing, and one that fails may have charged. The
  runs
  of other processes on the same wallet (`OtherRuns`) share commits, memory roots
  and storage with it.
- `Evidence`: `probes[i]` is one `inferZG`, from `Fetch` to `Local`; `stage` the
  await of `runAudit`; `report` what it returns; `pins` the storage; `feedback`
  the ERC-8004 transaction. A hash and a root are written as what they are taken
  of, so that "recomputes to" is an equation. The three callers (`auditor.by`)
  build the report in three ways (`OrchestratorDraft`, `AdapterDraft`, none).
- `Router`: `req[r]` is the local state of `route()`, `calls[r]` its
  `inferAndSettle`s, `scope` what `narrowScope` has left. A caller asks the
  classifier and decides the mode in `Ask`, which is how the repository's tests
  use `decideMode`; `route()` itself is handed the mode. A call that throws after
  the payment, in the adapter or in `appendFee`, rejects the whole route
  (`Unsettleable`). `Scores` is computed
  from the answers by `Consensus` and kept as the verdict.
- `Consensus`: numbers are integers, a similarity is in tenths, and means and
  deviations are compared multiplied out (`SumOver`, `SquaredSpread`,
  `TwiceMedian`), so that no rounding is involved. `Ranked(f, k)` says which
  element a sort would leave at place `k`, without a sort.
- `Terminal`: `tasks` are the dispatchers, each a list of awaits with what
  becomes of it when one fails (`Dispatcher`); the audit is a sequence of the
  orchestrator's steps. `flow`, `envelope`, `running`, `staged`, `mode` and
  `modal` are the module's variables, `saved` is the file of `audit-trail.ts`,
  `fetches` are the promises of `receiptFeed` nobody awaits. `writers` is a
  history variable.
- `MintAgent`: `minters[m].at` is each step's state, `completed` what is
  printed; `sent` the transactions on the three chains.
- `Operator`: `runs[r]` is a command and the await it is at, `txs` what was
  written. The pool may take one unit less than it is offered. The transactions of
  the wallet are mined in the order of their nonces; one that is passed over, or
  that would spend more ether than there is, is in no block and not mined as a
  revert (`Includable`). A swap is answered when it is written, the others wait.
- `Marketplace`: `orders[p]` is the buyer, `requests` what is at the gate,
  `auths[p]` the EIP-3009 authorization. The facilitator, the signing wallet, the
  splitter and the host of the gate are external; the host verifies, drops a
  payload it has seen, does the work and settles if the work succeeded, which is
  what `x402.ts:3-10` and `:24` ask of it.

## 3. What the runs check

TLC spends most of its time on starting and on states, so a run may hold several
instances that share nothing: its `Init` is a disjunction, or a variable
`system` says which half moves, and what does not move is constant. That is only
a way to check them together; no property relates the halves. `MCTerminalGate`
puts the terminal beside the gate in this way, `MCEscrow` the escrow beside the
wallet, `MCAgents` and `MCAgentsRelay` the agents, the market and the relay.

| run | instances | what holds, or what fails |
|---|---|---|
| `cap_gate_enforced` | the gate of `terminal_gate` | fails: a run is told `enforced` and has debited nothing |
| `commerce` | (escrow) two jobs, two parties in any roles, a budget whose fee rounds and one whose fee overflows; (wallet) two owners, two vaults, two incomes, refusing payees | solvency, timely delivery, the abstract ledger, release of every escrow; money is conserved to the unit, payouts follow the owner, a vault that only fails to pay bricks nothing |
| `commerce_broken_vault` | the same, vaults that do not answer `balanceOf` too | fails: a split of a wallet that has enough in hand is refused |
| `relay_twice` | (relaying) two calls of one intent | fails: both pass `seen` before either records, and a leg is paid twice |
| `loop` | (loop) one run in any mode beside any number of others, three probes, two blocks; (evidence) one audit of each caller, two probes, or one and a sidecar with one defect in the quote at a time | a transcript hides no money that moved and is refundable where it bought no clear verdict, the reveal finds its own commit and that precedes the probes, every trace is of something stored or mined, what is posted recomputes, TEE claims are traced, the run ends |
| `delegation` | one wallet, two owners, three delegations, batches of two, three instants | a cap that no wallet of the batch owns bounds the whole batch, the abstract authority |
| `router` | (router) one route at a time, five modes and four output types, three x402 providers and one in a TEE, a scope narrowed at any time; (writer) six events, a queue of two | the calls of a route stay within scope, a mode that asks for a TEE gets one, a route that replied leaves nothing to be settled, an unflagged consensus has no outlier or one of JSON, every route returns; no event is lost, doubled or reordered, and all are pinned in the end |
| `audit_writer_close` | three events | fails: `close()` leaves behind what came in during the upload it awaited |
| `terminal_gate` | (terminal) two dispatchers of five kinds, every key, one restart; (gate) two enforced runs that want 3 of a cap of 2, its owner, three instants, uint64 of two bits | FLOW tells the outcome of the run that drew it, the label has an owner, a grant is what was shown, every dispatcher ends; no window takes more than its cap, a dead cap is inert, a spend only reverts because of a change after its broadcast, every gate run is answered |
| `agents` | (provisioning) two mint programs that may want one label; (operating) two commands of ten, all pairs; (buying) one purchase of every kind and service with one refusal at a time, its payload sent up to three times; (relaying) two calls of one intent with an unknown chain and a leg, a badly signed call, an empty one | what a mint lists was mined, and what it omits is one of the cases named in `ReportIsTrue`; a transfer that is reported sent has moved its money, and what is reported failed moves nothing unless an answer was lost; the router of the exchange keeps nothing, a payment buys one piece of work, the buyer learns what was charged, programs end; a relay sends nothing unauthorised, refuses a retry, has a result for every leg, calls ok only a leg whose split was mined, well or as a revert, and every call returns |
| `swap_reverts` | (operating) | fails: a swap is answered with its hash and mined as a revert |
| `market_zero_hash` | (buying) | fails: a purchase that was charged ends with the hash of a free one |

*Bounds, and why they are enough.* The contracts treat keys, jobs, wallets and
payees alike, so two of a kind show every interference between them, and a
second kind of role shows every mix of roles. Times are chosen around their
boundaries: before, at and after an expiry, a deadline or the end of a period.
Amounts are chosen to round (a budget of 7 at 25 %, a split of 10019), to be
below a minimum, to exceed a cap together, and to overflow. `MaxU64 = 3` and
`MaxU256 = 25000` stand for the real widths: only the distance to the limit
matters. The gate, the relay and the loop have as many runs as a race needs, two;
in the loop the second is `OtherRuns`, which commits the same plan as often as it
likes. Three probes are the least with a majority that one dissent does not
break. Six events through a queue of two let the trim, a failed upload and events
that come in meanwhile meet twice. A consensus asks three providers, so four of
them, one in a TEE, are the least with which the exchange for an attested one
happens; two of the objects that are answered have five keys, the least with which
an object can deviate in so many keys and still score exactly the threshold of 0.7
(`WideObjects`); `MaxInFlight = 1` because routes share nothing but the scope and the
writer. `MCKinds` in the terminal has one command for each pattern of awaits; the
others differ in names. `MCCommands` has each kind of command, with amounts at and
above what there is. `MaxSends = 3` is a payment, its retry on a 503 and a
duplicate of the network.

*Type invariants* (`TypeOK`, `WriterTypeOK`, `EvidenceTypeOK`, ...) are stated
with the variables, and the runs spend their time on deeper properties. Those of
`SpendCap`, `SpendCapGate`, `Delegation`, `AgenticCommerce`, `ReceiverWallet`,
`MultiLegRelay`, `AuditLoop`, `Evidence`, `AuditWriter`, `Terminal`, `MintAgent`,
`Operator` and `Marketplace` are theorems, or parts of the invariants that are;
of a `Router` the proofs keep as much as they need (`RouterInv`, `SpendInv`).

*Deadlock.* A state without a successor is an error except in the instances that
really end: a relay whose calls have returned, a contract whose jobs are over
and whose clock is at its bound, a route that has replied, a writer that is
closed, a loop whose run is over, agents that have answered.

*Fairness.* Only code that is sure to go on is fair.

- `SpendCapGate`, `MultiLegRelay`, `AuditLoop`, `MintAgent`, `Operator`: weak
  fairness of the steps of a run. An `await` on a node ends by an answer, an error
  or the client's timeout. No transaction is ever sure to be mined.
- Three awaits in them have no timeout, and that they return is an assumption about
  the host they ask, not a fact of the code: in the loop, the two fetches of the
  marketplace (`keeperhub-marketplace.ts:86`, :115) and the body of a provider's
  answer (`inferZG` stops its timer before it reads it, `zg-router.ts:161-163`); in
  `Operator`, the fetches of a user operation (`userop.ts:278`, :341). Whoever does
  not grant it loses `EveryRunEnds` and `EveryAgentEnds` for the runs that wait there,
  and nothing else: no other property rests on fairness.
- `Router`: an adapter and the keeper answer or fail within their own timeouts.
- `Terminal`: a dispatcher's await returns or fails in the end. For those that await
  a chain its client's timeout sees to it; that the fetches of a hire return, which
  have none, is an assumption of the same kind. The keyboard is not fair.
- `AgenticCommerce`: time passes, and somebody calls `claimRefund` on an expired
  job. The call is open to anyone and pays the client. Nothing is assumed of the
  provider, the evaluator or the hook.
- `AuditWriter`: the interval fires, an upload settles, and the storage accepts
  one that is tried again and again (strong fairness of `UploadOk`). Without the
  last, an outage that never ends keeps every event in the queue.
- `Marketplace`: none. No purchase is claimed to end, because its fetches have no
  timeout and the purchase itself is what is modelled here, not an await of another
  run.

## 4. What is proved

TLAPS checks the theorems below for every value of the constants. What a proof
needs of a constant is a named assumption of the module that declares it, as weak
as the code justifies, and TLC evaluates it on every instance: that amounts and
times are natural numbers, that a fee is at most 100 %, that a "nobody" is nobody,
that a probe quorum is one of the two there are, that the providers have prices.
`AnswersAssumption` says which answers a consensus may be scored on: two or three
of them, with as few restrictions as the scorers make, and JSON objects with finite
sets of keys. Each property was model-checked before it was proved.

Every invariant and every action property of a run that passes has a theorem.
Each of the six that fail has one too, of another kind: it names what makes the
property fail, and proves that the property holds wherever that is absent
(`GateEnforcedUnlessRaced`, `RelayPaysOnceInCriticalSection`,
`WriterCloseFlushesWhenIdle`, `MarketZeroHashIsFreeWhenTold`,
`OperatorSwapFailsOnlyInARace`, and `WalletVaultNeverBricksSplit`). So the
defect is that much and no more, and a fix that restores the condition is
enough. TLC has checked each condition to leave the interesting behaviours in:
spends that are mined, legs that are paid, closes with a queue, swaps
that are mined beside other commands, purchases that are free and such that are
not.

**`SumTheorems`.** What is conserved, covered or bounded is a sum over a set.
Facts about sums need induction over finite sets, and the library's theorem for it
takes an operator, which the provers cannot instantiate. But that the strict
subsets of a finite set are well-founded is a theorem without one. `Minimal`
follows: among subsets of a finite set, some contain no other. Every induction
here is a proof that the smallest counterexample does not exist. `SumDef` is the
function that `MapThenSumSet` recurses by; that there is one and only one comes
first, then that a sum is a number, moves by what one term moves by, adds up term
by term, is monotone, and counts.

**`SpendCapProofs`.** `WindowBound` is not inductive: a spend moves the period's
start by whole periods, and only that ties `consumed` to the window the clock is
in. The inductive invariant adds, for each cap that was granted, that
`currentPeriodStart` lies a multiple of the period after the grant and not after
now, that `consumed` is what the window of `currentPeriodStart` was debited, that
later windows are empty, and that no window exceeds the cap. The arithmetic of
division is isolated in lemmas. `SpendCapTypeCorrect`, `SpendCapWindowBound`,
`SpendCapDeadCapIsInert` and `SpendCapViewMatches` (what `permissionOf` shows is
what a spend would find, although the two roll the period over in code of their
own) follow.

The gate runs beside the owners and other gates. `GateInv` adds to that invariant
what a pending spend relies on, `StillGood`: the cap as the run saw it when it
broadcast would still pay it, except for expiry. It survives every tick, because
rolling a period over can only give a cap more to spend (`FitsForLong`), and it is
what makes `GateRevertHasACause` true: a spend that is mined as a revert had its
cap changed since, or expired. `GateWindowBound`, `GateDeadCapIsInert` and
`GateViewMatches` say that racing gates change nothing about the caps.
`GateEnforcedUnlessRaced`: as long as every pending spend finds its cap as the run
saw it and not expired (`Unraced`), no spend is mined as a revert, and whoever is
told `enforced` has debited; that `checkSpendCap` does not read the status of the
receipt matters only in the race.

A batch of delegations is a loop of calls in one transaction. `BatchInv` is what
holds between two of them: `CapsFollow`, that a cap no wallet of the batch owns has
been debited all that the batch took from it, was alive for that, and is otherwise
as it was; `Promised`, that what has been
redeemed was signed by the owner of the moment, is in time and was new; `Paid`,
that no wallet has paid more than it was asked to allow. `DelegationCapBoundsBatch`
follows, and `DelegationImplementsAuthority`: a batch is one step of `Authority`
when its last item is done, and a stutter before that and when it reverts. What the
abstract authority promises in one step adds up: `AuthorityBoundsLifetime` follows
from its specification alone, that over its whole life a wallet has paid for
delegations only, no two under one pair of delegator and salt, and no more than
they allow together; `DelegationLifetimeBound` takes it over by the refinement. And
`DelegationWindowBound` says of batches, beside any other calls, what
`SpendCapWindowBound` says of those. The
bound of a batch is stated for caps that no wallet of the batch owns. Without that it is
false: a wallet that executes one delegation may own the cap that the next one is
debited from, and grant it anew between the two.

**`EscrowProofs`.** The inductive invariant says of every job what its
state implies: an open job has nothing in escrow, a funded or submitted one has
its budget there and nothing paid out, a submitted one was submitted in time, a
terminal one has an empty budget. Each of the five transitions touches one job
(`OtherJobs`), and the three ways out of escrow share `TerminalIInv`. From it,
`CommerceTypeCorrect`, `CommercePaysForTimelyDelivery` and, by mapping `fund` to
`Hold`, `complete` to `Release` and `reject` and `claimRefund` to `Refund`,
`CommerceImplementsLedger`.

`CommerceSolvent` needs no more than that: a job's budget is what its escrow holds,
the pool moves by exactly what one job's escrow moves by (`SumChange`), and so it
covers the sum of all. `CommerceCoversEveryJob` is what a party of one job relies
on: none of the guards that concern the money can fail for it, whatever the other
jobs do, neither when it is completed nor when it is refunded.

The refinement is put to use: `LedgerConserves` and `LedgerSettlesOnce` are about
`EscrowLedger` alone, that what leaves an escrow is nothing or all of it, to one
side, and once; `CommerceSettlesOnce` is that of the contract, through
`CommerceImplementsLedger`.

The wallet: `WalletConservesMoney` follows a split as the code runs it, leg after
leg, with a leg that is refused going to what is owed to its payee; the sum of what
all hold and are owed is the same after each. It is inductive with the types, which
say that no balance is negative. `WalletPaysItsOwner` compares two states: what
leaves the wallet leaves by a withdrawal of the owner that the mirror has at that
step, or by a split whose cuts leave that owner 85 % at least.
`WalletVaultNeverBricksSplit` shows that the guards of a split come down to three:
there is an owner, the amount is one that the splitter takes, and the vault tells the
wallet's shares, if there is a vault. What the vault then does with the redemption
does not matter, because the split goes on with what is in hand; and `setYieldVault`
takes the last guard away.

**`MultiLegRelayProofs`.** The properties speak of transactions, which outlive the
step, and even the call, that sent them: a receipt may come after the relay has
returned. The inductive invariant therefore ties what a call has on the chains
(`Touched`) to where the call is. `EarlyInv`: before the fan-out nothing is sent
and nothing reported. `PassedInv`: what a call has passed to be where it is, the
deadline, the signature, the nonce. `Touched(c) => Authorised(c)` keeps that after
the call is over. `RetryInv`: a call that began with its nonce recorded never gets
beyond the look into the store. `ReportInv`: what each result says of its leg, and
that a leg of an unknown chain has nothing sent. `InMempool`: every pending
transaction pays a leg, on this chain, of a call that sent it, so that mining
marks no call that was not authorised. From it: `RelayTypeCorrect`,
`RelaySubmittedIsAuthorised`, `RelayRetryIsRefused` and `RelayEveryLegIsReported`.

`RelayPaysOnceInCriticalSection` is about behaviours in which no two calls of one
nonce are between `seen` and `record` at a time (`CriticalSection`), which is what
the comment at `multi-leg-relay.ts:83` asks of the store. Then of the calls of a
nonce at most one ever fans out (`OneFansOut`), because whoever looks later finds the
record.

**`AuditLoopProofs`.** Three invariants of a run and one of the chain. `MoneyInv`
follows the settlement: a run that names no rail has moved nothing, unless it is
on its way through the splitter, whose transaction is pending only while its
receipt is awaited or after the run was rejected. `PlanInv` follows the commit:
the plan is fixed before the commit is sent, the id that a run holds is that of a
commit, and a run past its probes had it before them. `TraceInv` follows the
trail: only a run whose receipt was sent writes a log, and only one whose log is
stored points to it. `ChainInv` says that a reveal has used up its commit and that
a reveal or a memory root of a run is the work of its own transaction, so that
the other runs on the wallet cannot forge one. What `LoopTranscriptIsHonest` says of
money is what can be said of this code: no money is hidden, the split is named
exactly when it moved money, and refundable is claimed wherever money bought no
clear verdict; the rail `x402` may be named where nothing was charged, and then
`refundable` with it (section 5). `StepFrame` is what every step of
one run leaves to the others. From them `LoopTranscriptIsHonest`,
`LoopRevealFindsItsCommit` and `LoopEveryTraceIsStored`, for any number of runs,
which TLC checks for one beside any number of others.

One audit from the inside: `Vetted` says that an envelope is taken for good only
when its quote is bound to its address and nonce; `Traced`, that what a report says
of a TEE was heard from a probe; `Anchored`, that a report which names a root and a
hash names those of bytes that are pinned, and otherwise says so; `Backed`, the same
of the feedback that was sent. The hash and the root are of the report as it was
before it was stamped with either, which is why `Anchored` speaks of `BytesOf` the
report and not of the report. `AuditEvidenceChecksOut` and `AuditTeeClaimIsTraced`
follow, for each of the three callers.

**`RouterProofs`.** `RouterNoCallOutlivesReply`: where a route is (`phase`) tells
what may still be pending and whether it has replied; a pipeline is back in
`listing` between its two steps, and has nothing pending then. Only a route that
threw leaves calls behind.

`RouterSpendsWithinScope` and `RouterAnswersAreAttested`: a route divides the
cost of its intent, which the scope has let pass, by the number of calls it may
make (`Share`). `CallsInv` says that it makes no more calls than that, none dearer
than one part, so that together they stay within it; `ScopeInv`, that every scope is
within the one the operator signed. A provider in the pool's line is before or behind another
(`BeforeOrder`), so "the first that is in a TEE" exists and is what is called;
`CallsInv` says of which calls this must be so, `AnswerInv` what has to be settled
before a route answers.

`RouterScopeOnlyNarrows` is the attenuation of `scope.ts` as a statement about two
states: modes, cost, latency and end of a scope only ever shrink.

`RouterConfidentMeansAgreement`: a score that is not flagged belongs to answers
without an outlier. For categories, numbers and texts this is the arithmetic of two
or three answers against a threshold. For JSON, whose score is the mean over the
keys, the lemma `TwoDeviate` counts: if two answers deviated in more than half of the
keys each, the agreement summed over the keys would be below the threshold. One
answer may: two objects of five keys, one of which is off in three, score 0.7
exactly, and `< 0.7` does not flag that. An earlier wording of the property without
this exception had passed on objects of two keys, which cannot reach the tie;
looking for its proof found the case, and `WideObjects` has put it into the run.

The audit writer: what is acknowledged, what is being uploaded and what is
waiting are the three pieces of one line: each is strictly increasing and lies
behind the one before (`LineInv`), and every event that was ever enqueued is on it,
was dropped by the trim, or was refused after `close` (`PlaceInv`). A failed upload
puts the middle piece back in front of the last, and the trim cuts from the
middle of the line and never reorders it. `WriterNoEventLost` follows, with lemmas
about sorted sequences and their concatenation. `WriterTypeCorrect` adds that an
upload is under way exactly when there is a snapshot. `WriterCloseFlushesWhenIdle`: if
`close()` is only called while no upload is in flight, or nothing waits
(`ClosesIdle`), it leaves nothing in the queue unless the storage fails.

**`TerminalProofs`.** `TerminalLabelHasAnOwner` needs that a dispatcher that is
under way is at one of its awaits and that only those whose errors nobody catches
can escape. `TerminalGrantIsWhatWasShown` needs `FormInv`: an open form is about
what is staged and shows what is typed, whichever keys, renders and dispatchers
come between. `TerminalFlowTellsTheRun` needs what the FLOW panel says of the phase
of the one run that has written it. `KindsAssumption` says that a grant comes from
its form only.

`TerminalReceiptIsTraced` follows the receipts: a fetch begins when its transaction
was sent, an audit keeps its rail and what it has posted (`Later`), and the panel, the
file and a new terminal get only what a fetch has brought. The two events that the
panel shows may be of two runs; each is of a run that has sent it.
`TerminalTypeCorrect` needs the same.

**`AgentsProofs`.** *Mint.* `Ordered` is the order in which the program may take its
steps, and which of them it has listed by then; it is what makes a success list
them all. A step that is done was mined, and one that was mined is done, on its way,
or one whose answer was lost. With the programs' own transactions kept apart
(`MinterKeeps`), `MintReportIsTrue` follows for any number of them. It excepts the two
steps that the block of a failure omits although they landed (section 5);
`MintUnnamedListsWhatLanded` says that there are no others: without a subname, a
failure lists every step that was mined and not lost.

*Operator.* A run has no transaction that moves money before it sends one, exactly
one while it waits for it, and its answer is about that one (`RunOk`). `LedgerOk` says
that no balance is negative and that the router holds nothing between two
transactions; it needs `TxOk`, that a swap on its way trades something for another
token. `OperatorOutcomeIsTrue` and `OperatorRouterKeepsNothing` follow. The former says
no more of a swap than that it was handed to the node, because the agent waits for
no more. `OperatorSwapFailsOnlyInARace` says when that is enough: if nothing else
spends what a pending swap is about to spend (`UnspentMeanwhile`), the swap is still
accepted when it is mined, as it was when it was simulated (`SwapInv`), since an
approval is never taken back and a router's call needs nothing else.

*Marketplace.* A payload may be in flight several times. The host looks
for the fingerprint and adds it in one step, so of the requests of one purchase
only one is being served (`ServedAlone`); from that, the work done is at most one
where there is a price, and a settlement has its work (`MoneyInv`), whatever the
facilitator answers. `OrderInv` follows the buyer: what it is told implies what
became of its authorization and of the direct split it may fall back to.
`MarketMoneyForWork` and `MarketAnswerTellsThePayment` follow, and `MarketTypeCorrect`
with the steps of requests and orders.

`MarketZeroHashIsFreeWhenTold` has two conditions, because the hash can be lost in two
places: the host learns of every transfer it answers for (`HashIsGiven`), and puts
the hash where `extractSettlementTx` looks (`HashIsRead`). Then a purchase reported
as free is not settled, and nothing is under way that could settle it (`FreeInv`): of
the requests of one purchase, the one that the host let pass is the one that was
answered (`PassInv`).

*Only model-checked.* Liveness (`EveryRunSettles`, `EscrowIsReleased`,
`EveryRelayReturns`, `EveryRunEnds`, `EveryRouteReturns`, `EventuallyPinned`,
`EveryDispatchEnds`, `EveryAgentEnds`) is out of the prover's reach. So are the six
findings of section 5 themselves: they are counterexamples, and TLC shows them.

*Only proved.* `ViewMatchesSpend`, `LifetimeBound`, `JobIsCovered`, `Conserved`,
`SettledOnce`, `ScopeOnlyNarrows`, `ReceiptIsTraced`, and the conditional theorems:
no run spends states on them, each was checked by TLC when it was stated.

## 5. Where the code and its documents disagree

Shown by a run:

- `checkSpendCap` answers `enforced` after any receipt, a reverted one too
  (`apps/demo/src/spend-cap.ts:158`), although the comment at :128 says that
  enforcement closes the race. Run `cap_gate_enforced`.
- `_redeemFromVaultBestEffort` reads `balanceOf` of the vault before its `try`
  (`AgentReceiverWallet.sol:322`), so a vault that does not answer it makes every
  split of the wallet revert until its owner leaves the vault, although :319 says
  that a broken vault never bricks the split. Run `commerce_broken_vault`.
- `relayPaymentIntent` asks `seen` and calls `record` in two awaits
  (`multi-leg-relay.ts:215`, :257), although :83 speaks of a critical section.
  Run `relay_twice`.
- `close()` of the audit writer awaits the flush in flight and makes none of its
  own then (`audit.ts:245`), although :72 promises a final flush. Run
  `audit_writer_close`.
- `extractSettlementTx` reads a header by another name than the one the gate
  writes (`keeperhub-marketplace.ts:155`, `x402.ts:37`), so that a purchase that
  was charged comes back with the hash that `apps/tui/src/index.ts:2055` calls
  free. Run `market_zero_hash`.
- `executeSwap` answers ok when its transaction is handed to the node and awaits no
  receipt (`uniswap-v3.ts:225`, :253, :287; `wrap-fallback.ts:63`, :76), although
  `uniswap-v3.ts:11-12` says that it waits for one and
  `apps/swap-agent/src/index.ts:121` that all on-chain failures surface as an error.
  Run `swap_reverts`.

Met while modelling, and not given a run, because each is seen by reading two
lines or belongs to something that is not modelled:

- `AgenticCommerce` keeps the fee when there is no treasury
  (`AgenticCommerce.sol:217`), although :46 says that zero means no fee.
- A receipt fetched for one run may be spread into the next one's
  (`orchestrator-step.ts:124`, `receipt-feed.ts:158`). The model has it.
- `audit-trail.ts:75` says that the receipt is persisted whenever it changes; only
  the audit's dispatcher saves it.
- The audit agent posts 100, 0 or 50 as feedback
  (`apps/agents/audit/src/index.ts:195`), while the report of the same verdict
  says 100, -100 or 0 (`cross-agent.ts:455-460`), the scale of
  `audit-report.ts:105`.
- The report that is returned is stamped with a `storageURI` that the bytes pinned
  at it do not hold (`audit-report.ts:245-258`, :352-359).
- A consensus that fails is not logged (`router.ts:437-446`), although
  `docs/SPEC.md:496` wants an entry in 0G Storage for every inference call.
- A mint that fails lists "every tx that DID land" (`apps/mint-agent/src/index.ts:218`),
  but not a cap that landed when the subname failed, which is checked first (:368),
  nor a `setResolver` that landed when the records failed, whose hash is lost with the
  exception (`ens-records.ts:160`, `index.ts:398`). `ReportIsTrue` excepts these two
  and says so; `MintUnnamedListsWhatLanded` shows that they need a subname.
- The mint agent counts a transaction that was mined as a revert as a step done: no
  receipt's status is looked at.
- The relay reports a leg ok whose split was mined as a revert: the receipt is awaited
  and its status ignored (`multi-leg-relay.ts:338`), although `submit` "Returns the
  leg's tx hash on success" (:166) and the result says which legs failed (:14-15).
  `EveryLegIsReported` says what does hold, that the split was mined.
- `settleOraclePayment` reports the rail `x402` for every answer of the marketplace,
  also for one without a charge, whose hash is all zeros (`live-deps.ts:235-243`,
  `keeperhub-marketplace.ts:121-147`). A run whose audit then fails is `refundable`,
  although `cross-agent.ts:60-62` says that this means that the payment settled. And a
  run that pays through the splitter after the marketplace had charged names the
  splitter's transaction only. `TranscriptIsHonest` allows for both.
- `park` and `unpark` return ok, and an unpark its `assetsOut`, whatever the status of
  the receipt (`yield-intents.ts:229`, :417-425). The row shows the status (:233,
  :414), but no reason for a revert, although :34 says that reverts bubble verbatim.
- A grant of "0" is one of 0.5 USDC: the field falls back to its default.
- A mapper or an `appendFee` that throws in `keeper.settle` rejects the route: the
  call stands outside of the `try`. A receipt that is no hex does that
  (`erc8021.ts:31`), and so does a paid answer whose body is `null`, in the adapter
  (`adapters/x402.ts:199`). The payment is made, and the other calls of a consensus go
  on and pay theirs. The model has it (`Unsettleable`); `NoCallOutlivesReply` is about
  routes that reply.

## 6. What is not modelled, and why

*Payloads.* Digests, canonical JSON, calldata suffixes, prompts and their parsing
beyond "a clear answer or not": what is hashed stands for its hash. Signatures and
the quote's cryptography are a bit each.

*Presentation.* Panels, rendering, the parsing of commands, `apps/web`, scripts:
they keep no state that another part reads.

*External services.* The facilitator, KeeperHub, the exchange's pools, providers,
0G Storage, vaults and bundlers are modelled from how the code uses them: they
answer, refuse, or fail before or after they acted.

*Parts without protocol.* `ACPJobStub` (a stub with the same promise as
`AgenticCommerce`), `across.ts` and the paymaster (encodings of a request), the workflow registry (a
table), the mock vault.

*Of parts that are modelled.* `withdrawNative` and tokens other than the vault's
asset in the wallet; authorizations and data slots of `AgentNFT`; `AxiomCommit`
deployed without an `AgentNFT`; the identity reads of the router, which only label a pool
entry; the flag that would cancel a running command, which nothing sets.
`PROJECT.json` lists every component with its reason.

## 7. What could be added

1. `ACPJobStub` as a second implementation of `EscrowLedger`: `LedgerConserves` and
   `LedgerSettlesOnce` would then hold of it by its refinement alone.
2. A type theorem for `Router`, whose requests keep their shape in `RouterInv` and
   their values in `SpendInv`.
3. The fixes of section 5 in the code: each conditional theorem of section 4 says
   which condition a fix has to establish, and the run that fails would then pass.
