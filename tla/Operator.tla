------------------------------ MODULE Operator ------------------------------
(***************************************************************************)
(* The agents that act with the operator's key on Base Sepolia: transfer-  *)
(* agent, swap-agent, the park and unpark of yield-intents.ts, and the     *)
(* user operations of packages/wallet-aa.  The terminal starts them        *)
(* without waiting for one another, so they read one another's balances    *)
(* before and after.  Each reads, simulates, writes a transaction and, but *)
(* for a swap, waits for its receipt.                                      *)
(*                                                                         *)
(* Amounts are in units that gas is negligible to.  The pool may take less *)
(* than it is offered, at a price of one.  A transaction that is never     *)
(* mined stays pending.                                                    *)
(***************************************************************************)
EXTENDS Integers, Sequences, FiniteSets

CONSTANTS
  Commands,      \* what the operator types: see Transfer, Swap, Park, Unpark, AaSend
  MaxCommands,   \* bound on the commands
  Endpoints,     \* the number of RPCs that resolve a name
  Funds          \* what the operator and the smart account hold of each asset

ASSETS == {"ETH", "WETH", "USDC"}

\* What there is to type: only a swap names a token it pays out.
ASSUME OperatorAssumption ==
  /\ MaxCommands \in Nat /\ Endpoints \in Nat /\ Funds \in Nat
  /\ Commands \subseteq [kind : {"transfer", "swap", "park", "unpark", "aa-send"},
                         asset : ASSETS, to : ASSETS \cup {"payee", "vault"},
                         amount : Nat, named : BOOLEAN]
  /\ \A c \in Commands : c.kind = "swap" <=> c.to \in ASSETS

VARIABLES
  typed,      \* the commands left to type
  purse,      \* the operator's balances
  router,     \* the balances of the swap router
  approved,   \* the tokens the router may take without limit
  vault,      \* the receiver wallet: its idle balance, its shares, and whether the operator owns it
  account,    \* the smart account: deployed, its nonce and its balance
  txs,        \* the transactions and the user operations
  runs        \* the commands under way

ledger == <<purse, router, approved, vault, account>>
opVars == <<typed, ledger, txs, runs>>

-----------------------------------------------------------------------------
(* The commands and their steps                                            *)

Transfer(asset, amount, named) == [kind |-> "transfer", asset |-> asset, to |-> "payee", amount |-> amount, named |-> named]
Swap(from, to, amount) == [kind |-> "swap", asset |-> from, to |-> to, amount |-> amount, named |-> FALSE]
Park(amount) == [kind |-> "park", asset |-> "USDC", to |-> "vault", amount |-> amount, named |-> FALSE]
Unpark(amount) == [kind |-> "unpark", asset |-> "USDC", to |-> "vault", amount |-> amount, named |-> FALSE]
AaSend(amount) == [kind |-> "aa-send", asset |-> "ETH", to |-> "payee", amount |-> amount, named |-> FALSE]

Wraps(c) == {c.asset, c.to} = {"ETH", "WETH"}

\* A swap of a token to itself and an amount of zero are refused at once.
Refused(c) == \/ c.amount = 0 /\ c.kind \in {"transfer", "swap"}
              \/ c.asset = c.to

FirstStep(c) ==
  CASE c.kind = "transfer" -> "resolve"
    [] c.kind = "swap"     -> IF Wraps(c) THEN "send" ELSE "pool"
    [] c.kind = "aa-send"  -> "code"
    [] OTHER               -> "check"

At(r, step) == r \in DOMAIN runs /\ runs[r].at = step
Go(r, step) == runs' = [runs EXCEPT ![r].at = step]
Answer(r, answer) == runs' = [runs EXCEPT ![r].at = "ended", ![r].answer = answer]

\* A step whose outcome is never learned.
Lose(r) == runs' = [runs EXCEPT ![r].at = "ended", ![r].answer = "failed", ![r].lost = TRUE]

-----------------------------------------------------------------------------
OpTypeOK ==
  /\ purse \in [ASSETS -> Nat] /\ router \in [ASSETS -> Nat] /\ approved \subseteq ASSETS
  /\ vault.idle \in Nat /\ vault.shares \in Nat
  /\ \A r \in DOMAIN runs : runs[r].answer \in {"none", "ok", "failed"} /\ runs[r].tx \in 0 .. Len(txs)
  /\ \A i \in DOMAIN txs : txs[i].state \in {"pending", "mined", "reverted"}

OpInit(commands) ==
  /\ typed = commands
  /\ purse = [a \in ASSETS |-> Funds] /\ router = [a \in ASSETS |-> 0] /\ approved = {}
  /\ vault \in [idle : {0, Funds}, shares : {Funds}, owned : BOOLEAN]
  /\ account \in [deployed : BOOLEAN, nonce : {0}, eth : {Funds}]
  /\ txs = <<>> /\ runs = <<>>

-----------------------------------------------------------------------------
(* The chain                                                               *)

\* Whether a transaction does not revert.  parkIdle parks what there is.
Accepted(t) ==
  CASE t.does = "pay"     -> purse[t.asset] >= t.amount
    [] t.does = "wrap"    -> purse[t.asset] >= t.amount
    [] t.does = "approve" -> TRUE
    [] t.does = "swap"    -> purse[t.asset] >= t.amount /\ t.asset \in approved \cup {"ETH"}
    [] t.does = "park"    -> TRUE
    [] t.does = "unpark"  -> vault.owned /\ vault.shares >= t.amount
    [] t.does = "userop"  -> account.nonce = t.nonce /\ (account.deployed # t.init)

Move(from, to, n) == purse' = [purse EXCEPT ![from] = @ - n, ![to] = @ + n]

\* Mutant of SwapLegs: the multicall has no refundETH.
SwapWithoutRefund(t, k) ==
  IF t.asset = "ETH"
    THEN [purse |-> [purse EXCEPT !["ETH"] = @ - t.amount, ![t.to] = @ + k],
          router |-> [router EXCEPT !["ETH"] = @ + t.amount - k]]
    ELSE [purse |-> [purse EXCEPT ![t.asset] = @ - k, ![t.to] = @ + k], router |-> router]

\* exactInputSingle of which the pool takes k, and the second leg of the
\* multicall: refundETH for ether in, unwrapWETH9 for ether out, whose swap
\* pays the router.  Either leaves the router nothing.
SwapLegs(t, k) ==
  IF t.asset = "ETH"
    THEN LET held == router["ETH"] + t.amount - k IN
           [purse |-> [purse EXCEPT !["ETH"] = @ - t.amount + held, ![t.to] = @ + k],
            router |-> [router EXCEPT !["ETH"] = 0]]
  ELSE IF t.to = "ETH"
    THEN LET held == router["WETH"] + k IN
           [purse |-> [purse EXCEPT ![t.asset] = @ - k, !["ETH"] = @ + held],
            router |-> [router EXCEPT !["WETH"] = 0]]
    ELSE [purse |-> [purse EXCEPT ![t.asset] = @ - k, ![t.to] = @ + k], router |-> router]

\* A user operation is included, and its call may revert inside it.
Included(t) ==
  account' = [deployed |-> TRUE, nonce |-> account.nonce + 1,
              eth |-> IF account.eth >= t.amount THEN account.eth - t.amount ELSE account.eth]

Settle(t) ==
  \/ t.does = "pay" /\ purse' = [purse EXCEPT ![t.asset] = @ - t.amount] /\ UNCHANGED <<router, approved, vault, account>>
  \/ t.does = "wrap" /\ Move(t.asset, t.to, t.amount) /\ UNCHANGED <<router, approved, vault, account>>
  \/ t.does = "approve" /\ approved' = approved \cup {t.asset} /\ UNCHANGED <<purse, router, vault, account>>
  \/ /\ t.does = "swap"
     /\ \E k \in {t.amount, t.amount - 1} : /\ purse' = SwapLegs(t, k).purse
                                            /\ router' = SwapLegs(t, k).router
     /\ UNCHANGED <<approved, vault, account>>
  \/ /\ t.does = "park"
     /\ vault' = [vault EXCEPT !.idle = 0, !.shares = @ + vault.idle]
     /\ UNCHANGED <<purse, router, approved, account>>
  \/ /\ t.does = "unpark"
     /\ vault' = [vault EXCEPT !.idle = @ + t.amount, !.shares = @ - t.amount]
     /\ UNCHANGED <<purse, router, approved, account>>
  \/ t.does = "userop" /\ Included(t) /\ UNCHANGED <<purse, router, approved, vault>>

\* What no block may hold, rather than hold as a revert: a user operation that the
\* entry point refuses, more ether than the wallet has, a nonce that is used.
Includable(i) ==
  /\ Accepted(txs[i]) \/ (txs[i].does # "userop" /\ txs[i].asset # "ETH")
  /\ txs[i].does # "userop" =>
       \A j \in i + 1 .. Len(txs) : txs[j].does = "userop" \/ txs[j].state = "pending"

\* What is not includable is dropped: it stays pending.
MineTx(i) ==
  /\ txs[i].state = "pending" /\ Includable(i)
  /\ txs' = [txs EXCEPT ![i].state = IF Accepted(txs[i]) THEN "mined" ELSE "reverted",
                        ![i].success = Accepted(txs[i]) /\ (txs[i].does = "userop" => account.eth >= txs[i].amount)]
  /\ IF Accepted(txs[i]) THEN Settle(txs[i]) ELSE UNCHANGED ledger
  /\ UNCHANGED <<typed, runs>>

\* Somebody else splits what is idle in the receiver wallet, or is given the iNFT.
Others ==
  /\ \E v \in {[vault EXCEPT !.idle = 0], [vault EXCEPT !.owned = FALSE]} : v # vault /\ vault' = v
  /\ UNCHANGED <<typed, purse, router, approved, account, txs, runs>>

-----------------------------------------------------------------------------
(* What every agent does: read, simulate, write, wait                      *)

\* A read of the chain that is not answered ends the command.
ReadFails(r) ==
  /\ r \in DOMAIN runs /\ runs[r].at \in {"pool", "check", "allowance", "code", "nonce", "price"}
  /\ Answer(r, "failed")
  /\ UNCHANGED <<typed, ledger, txs>>

Command(r) == runs[r].cmd

DoesOf(c) ==
  CASE c.kind = "transfer" -> "pay"
    [] c.kind = "swap"     -> IF Wraps(c) THEN "wrap" ELSE "swap"
    [] c.kind = "aa-send"  -> "userop"
    [] OTHER               -> c.kind

Call(r, does) ==
  LET c == Command(r) IN
    [by |-> r, does |-> does, asset |-> c.asset, to |-> c.to, amount |-> c.amount,
     nonce |-> runs[r].nonce, init |-> runs[r].init, state |-> "pending", success |-> FALSE]

\* Simulated against the chain as it is now, and written; the swap answers with
\* its hash, the others wait.
Write(r, does, next) ==
  /\ Accepted(Call(r, does))
  /\ txs' = Append(txs, Call(r, does))
  /\ runs' = [runs EXCEPT ![r].at = next, ![r].tx = Len(txs) + 1,
                          ![r].answer = IF next = "ended" THEN "ok" ELSE "none"]
  /\ UNCHANGED <<typed, ledger>>

\* The write is taken and its answer lost.
WriteLost(r, does) ==
  /\ Accepted(Call(r, does))
  /\ txs' = Append(txs, Call(r, does)) /\ Lose(r)
  /\ UNCHANGED <<typed, ledger>>

WriteFails(r) == Answer(r, "failed") /\ UNCHANGED <<typed, ledger, txs>>

AfterSend(c) == IF c.kind = "swap" THEN "ended" ELSE "wait"

Send(r) ==
  /\ At(r, "send")
  /\ \/ Write(r, DoesOf(Command(r)), AfterSend(Command(r)))
     \/ WriteLost(r, DoesOf(Command(r))) \/ WriteFails(r)

\* waitForTransactionReceipt runs out of time, or the minute of polling is over.
Timeout(r) ==
  /\ r \in DOMAIN runs /\ runs[r].at \in {"wait", "approval"}
  /\ Lose(r)
  /\ UNCHANGED <<typed, ledger, txs>>

Mined(r) == txs[runs[r].tx].state # "pending"

-----------------------------------------------------------------------------
(* transfer-agent                                                          *)

Type(c) ==
  /\ typed > 0 /\ typed' = typed - 1
  /\ runs' = Append(runs, [cmd |-> c, at |-> IF Refused(c) THEN "ended" ELSE FirstStep(c),
                           answer |-> IF Refused(c) THEN "failed" ELSE "none", tx |-> 0, lost |-> FALSE,
                           asked |-> 0, nonce |-> 0, init |-> FALSE])
  /\ UNCHANGED <<ledger, txs>>

\* Mutant of Resolve: the list of endpoints starts over.
ResolveAround(r) ==
  /\ At(r, "resolve")
  /\ \/ Go(r, "check")
     \/ Command(r).named /\ Answer(r, "failed")
     \/ Command(r).named /\ runs' = [runs EXCEPT ![r].asked = (@ + 1) % Endpoints]
  /\ UNCHANGED <<typed, ledger, txs>>

\* An address is taken as it is; a name is asked of one endpoint after another
\* until one answers, with an address or with none.
Resolve(r) ==
  /\ At(r, "resolve")
  /\ \/ Go(r, "check")
     \/ Command(r).named /\ Answer(r, "failed")
     \/ /\ Command(r).named
        /\ IF runs[r].asked + 1 = Endpoints THEN Answer(r, "failed")
           ELSE runs' = [runs EXCEPT ![r].asked = @ + 1]
  /\ UNCHANGED <<typed, ledger, txs>>

CheckBalance(r) ==
  /\ At(r, "check") /\ Command(r).kind = "transfer"
  /\ IF purse[Command(r).asset] >= Command(r).amount THEN Go(r, "send") ELSE Answer(r, "failed")
  /\ UNCHANGED <<typed, ledger, txs>>

\* Mutant of TransferReceipt: the status is not looked at.
AnyReceipt(r) ==
  /\ At(r, "wait") /\ Command(r).kind = "transfer" /\ Mined(r)
  /\ Answer(r, "ok")
  /\ UNCHANGED <<typed, ledger, txs>>

TransferReceipt(r) ==
  /\ At(r, "wait") /\ Command(r).kind = "transfer" /\ Mined(r)
  /\ Answer(r, IF txs[runs[r].tx].success THEN "ok" ELSE "failed")
  /\ UNCHANGED <<typed, ledger, txs>>

-----------------------------------------------------------------------------
(* swap-agent                                                              *)

\* The fee tiers are probed in order.
FindPool(r) ==
  /\ At(r, "pool")
  /\ \/ Go(r, IF Command(r).asset = "ETH" THEN "send" ELSE "allowance")
     \/ Answer(r, "failed")
  /\ UNCHANGED <<typed, ledger, txs>>

Allowance(r) ==
  /\ At(r, "allowance")
  /\ IF Command(r).asset \in approved THEN Go(r, "send") /\ UNCHANGED <<typed, ledger, txs>>
     ELSE Write(r, "approve", "approval") \/ WriteLost(r, "approve") \/ WriteFails(r)

\* The status of the approval is not read: the swap's simulation will tell.
ApprovalReceipt(r) ==
  /\ At(r, "approval") /\ Mined(r)
  /\ Go(r, "send")
  /\ UNCHANGED <<typed, ledger, txs>>

-----------------------------------------------------------------------------
(* park and unpark                                                         *)

\* What a park asks of the idle balance, and an unpark of the owner and the shares.
Parkable(c) == vault.idle > 0 /\ vault.idle >= c.amount
Withdrawable(c) == vault.owned /\ vault.shares > 0 /\ vault.shares >= c.amount

CheckVault(r) ==
  /\ At(r, "check") /\ Command(r).kind \in {"park", "unpark"}
  /\ IF \/ Command(r).kind = "park" /\ Parkable(Command(r))
        \/ Command(r).kind = "unpark" /\ Withdrawable(Command(r))
       THEN Go(r, "send") ELSE Answer(r, "failed")
  /\ UNCHANGED <<typed, ledger, txs>>

\* Whatever the status of the receipt is.
VaultReceipt(r) ==
  /\ At(r, "wait") /\ Command(r).kind \in {"park", "unpark"} /\ Mined(r)
  /\ Answer(r, "ok")
  /\ UNCHANGED <<typed, ledger, txs>>

-----------------------------------------------------------------------------
(* User operations                                                         *)

GetCode(r) ==
  /\ At(r, "code")
  /\ runs' = [runs EXCEPT ![r].at = "nonce", ![r].init = ~account.deployed]
  /\ UNCHANGED <<typed, ledger, txs>>

GetNonce(r) ==
  /\ At(r, "nonce")
  /\ runs' = [runs EXCEPT ![r].at = "price", ![r].nonce = account.nonce]
  /\ UNCHANGED <<typed, ledger, txs>>

\* The gas price, buildUserOp and signUserOp.
PriceAndSign(r) ==
  /\ At(r, "price")
  /\ Go(r, "send")
  /\ UNCHANGED <<typed, ledger, txs>>

\* The bundler has the receipt of the operation: whether its call succeeded.
PollReceipt(r) ==
  /\ At(r, "wait") /\ Command(r).kind = "aa-send" /\ Mined(r)
  /\ Answer(r, IF txs[runs[r].tx].success THEN "ok" ELSE "failed")
  /\ UNCHANGED <<typed, ledger, txs>>

-----------------------------------------------------------------------------
RunStep(r) ==
  \/ Resolve(r) \/ CheckBalance(r) \/ TransferReceipt(r) \/ FindPool(r) \/ Allowance(r)
  \/ ApprovalReceipt(r) \/ CheckVault(r) \/ VaultReceipt(r) \/ GetCode(r) \/ GetNonce(r)
  \/ PriceAndSign(r) \/ PollReceipt(r) \/ Send(r) \/ ReadFails(r) \/ Timeout(r)

OpNext ==
  \/ \E c \in Commands : Type(c)
  \/ \E r \in DOMAIN runs : RunStep(r)
  \/ \E i \in DOMAIN txs : MineTx(i)
  \/ Others

-----------------------------------------------------------------------------
(* Properties                                                              *)

\* The transactions of a command that move money.
Moves(r) == {i \in DOMAIN txs : txs[i].by = r /\ txs[i].does # "approve"}

\* What an agent answers is what its code waited to know (erc20.ts:72, native.ts:63,
\* index.ts:1442 of the terminal): a transfer or a user operation that is reported
\* sent has moved its money; a park or unpark that is has been mined; a swap that
\* is has been handed to the node, no more (see SwapFailuresSurface); and of a
\* command that is reported failed nothing was or will be moved, unless an answer
\* was lost or late.
OutcomeIsTrue ==
  \A r \in DOMAIN runs :
    /\ runs[r].answer = "ok" =>
         /\ Cardinality(Moves(r)) = 1
         /\ Command(r).kind \in {"transfer", "aa-send"} => \A i \in Moves(r) : txs[i].success
         /\ Command(r).kind \in {"park", "unpark"} => \A i \in Moves(r) : txs[i].state # "pending"
    /\ runs[r].answer = "failed" /\ ~runs[r].lost =>
         \A i \in Moves(r) : txs[i].state # "pending" /\ ~txs[i].success

\* "All on-chain failures (insufficient balance, slippage, missing pool) surface as
\* Result.Err" (swap-agent/src/index.ts:121): a swap that is answered with its hash
\* is not mined as a revert.  The code answers before it is mined.
SwapFailuresSurface ==
  \A r \in DOMAIN runs :
    Command(r).kind = "swap" /\ runs[r].answer = "ok" =>
      \A i \in Moves(r) : txs[i].state # "reverted"

\* The two legs of a swap are one call: nothing of the operator's is left with
\* the router, to which anybody can call refundETH (uniswap-v3.ts:228, 256).
RouterKeepsNothing == \A a \in ASSETS : router[a] = 0
=============================================================================
