--------------------------- MODULE ReceiverWallet ---------------------------
(***************************************************************************)
(* The money side of contracts/src/AgentReceiverWallet.sol: one wallet of  *)
(* an iNFT, its yield vaults, and the fee splitter it pays through.  What  *)
(* is parked in a vault is counted by what the shares redeem for.  Each    *)
(* action is a transaction; one that reverts is no step.  Anybody may      *)
(* split the balance and park what is idle.                                *)
(***************************************************************************)
EXTENDS FeeSplitter

CONSTANTS
  Wallet,
  TokenOwners,        \* the accounts that may hold the wallet's iNFT
  Burnt,        \* the owner of an iNFT that was burnt, or never mirrored
  Vaults, NoVault,
  Faults,         \* what may fail: pairs of a vault and a call, "money" or "shares"
  Payments,       \* the amounts that are paid to the wallet, or split natively
  Parts,         \* the amounts withdrawIdle is called with
  Yield,         \* what a vault earns at a time
  MaxIncome      \* bound on the number of payments and yields together

ASSUME WalletAssumption ==
  /\ Wallet \in TokenHolders \ (Payees \cup {Splitter})
  /\ TokenOwners \subseteq Payees /\ Burnt \notin Payees
  /\ NoVault \notin Vaults /\ IsFiniteSet(Vaults)
  /\ Faults \subseteq Vaults \X {"money", "shares"}
  /\ Payments \cup Parts \subseteq Nat \ {0} /\ Yield \in Nat /\ MaxIncome \in Nat

VARIABLES
  tokenOwner,      \* the owner of the wallet's iNFT, as OwnerMirror has it
  yieldVault,
  parked,        \* what the wallet's shares in a vault redeem for
  failing,       \* the faults there are at the moment
  income,        \* bounds the run
  received       \* history: what came in, in tokens and in native money

moneyVars == <<tokenOwner, yieldVault, parked, failing, income, received>>
receiverVars == <<splitterVars, moneyVars>>

WalletTypeOK ==
  /\ SplitterTypeOK
  /\ tokenOwner \in TokenOwners \cup {Burnt}
  /\ yieldVault \in Vaults \cup {NoVault}
  /\ parked \in [Vaults -> Nat]
  /\ failing \subseteq Faults
  /\ income \in 0 .. MaxIncome
  /\ received \in [token : Nat, native : Nat]

WalletInit ==
  /\ SplitterInit
  /\ tokenOwner \in TokenOwners \cup {Burnt}
  /\ yieldVault = NoVault
  /\ parked = [v \in Vaults |-> 0]
  /\ failing = {}
  /\ income = 0
  /\ received = [token |-> 0, native |-> 0]

-----------------------------------------------------------------------------

\* A vault takes and gives money: it is not paused, its queue and its oracle work.
Works(v) == v \in Vaults /\ <<v, "money">> \notin failing

\* balanceOf answers what the wallet has of the vault's shares.
Tells(v) == <<v, "shares">> \notin failing

\* What is parked once n of it are out of v.
Unparked(v, n) == IF v = NoVault THEN parked ELSE [parked EXCEPT ![v] = @ - n]

\* _redeemFromVaultBestEffort: everything, or nothing if the vault does not give.
Redeemed(v) == IF Works(v) THEN parked[v] ELSE 0

\* What there is to split when v is the yield vault.
Splittable(v) == usdc[Wallet] + Redeemed(v)

\* Mutant of SplitAccepted: a redemption that reverts takes the split with it.
SplitAcceptedByVault(v) ==
  /\ v # NoVault => Tells(v) /\ Works(v)
  /\ Splittable(v) > 0
  /\ Splittable(v) >= MIN_SPLIT_AMOUNT => tokenOwner # Burnt

\* What splitMyBalance requires.  A redemption that reverts is caught; a balanceOf
\* that reverts, before the try, is not.
SplitAccepted(v) ==
  /\ v # NoVault => Tells(v)
  /\ Splittable(v) > 0
  /\ Splittable(v) >= MIN_SPLIT_AMOUNT => tokenOwner # Burnt

\* What it leaves: below the splitter's minimum, the balance stays, redeemed.
BalancesAfterSplit(v) ==
  LET liquid == [usdc EXCEPT ![Wallet] = Splittable(v)]
  IN  IF Splittable(v) < MIN_SPLIT_AMOUNT
      THEN liquid
      ELSE AfterSplit(liquid, Wallet, Splittable(v), tokenOwner)

SplitMyBalance ==
  /\ SplitAccepted(yieldVault)
  /\ usdc' = BalancesAfterSplit(yieldVault)
  /\ parked' = Unparked(yieldVault, Redeemed(yieldVault))
  /\ UNCHANGED <<pendingNative, held, paidNative, accepts, tokenOwner, yieldVault, failing,
                 income, received>>

Withdraw(caller, to) ==
  /\ caller = tokenOwner
  /\ usdc[Wallet] > 0
  /\ usdc' = Move(usdc, Wallet, to, usdc[Wallet])
  /\ UNCHANGED <<pendingNative, held, paidNative, accepts, moneyVars>>

\* What is parked in the vault that is left stays there.
SetYieldVault(caller, v) ==
  /\ caller = tokenOwner
  /\ yieldVault' = v
  /\ UNCHANGED <<splitterVars, tokenOwner, parked, failing, income, received>>

ParkIdle ==
  /\ Works(yieldVault)
  /\ usdc[Wallet] > 0
  /\ parked' = [parked EXCEPT ![yieldVault] = @ + usdc[Wallet]]
  /\ usdc' = [usdc EXCEPT ![Wallet] = 0]
  /\ UNCHANGED <<pendingNative, held, paidNative, accepts, tokenOwner, yieldVault, failing,
                 income, received>>

\* withdrawAllIdle, and withdrawIdle for a part.
WithdrawIdle(caller, amount) ==
  /\ caller = tokenOwner
  /\ Works(yieldVault)
  /\ amount \in 1 .. parked[yieldVault]
  /\ parked' = Unparked(yieldVault, amount)
  /\ usdc' = [usdc EXCEPT ![Wallet] = @ + amount]
  /\ UNCHANGED <<pendingNative, held, paidNative, accepts, tokenOwner, yieldVault, failing,
                 income, received>>

WithdrawAllIdle(caller) ==
  /\ Works(yieldVault) /\ Tells(yieldVault)
  /\ WithdrawIdle(caller, parked[yieldVault])

-----------------------------------------------------------------------------

\* What happens to the wallet.

Income == income < MaxIncome /\ income' = income + 1

Receive(amount) ==
  /\ Income
  /\ usdc' = [usdc EXCEPT ![Wallet] = @ + amount]
  /\ received' = [received EXCEPT !.token = @ + amount]
  /\ UNCHANGED <<pendingNative, held, paidNative, accepts, tokenOwner, yieldVault, parked, failing>>

Earn(v) ==
  /\ Income
  /\ parked[v] > 0
  /\ parked' = [parked EXCEPT ![v] = @ + Yield]
  /\ received' = [received EXCEPT !.token = @ + Yield]
  /\ UNCHANGED <<splitterVars, tokenOwner, yieldVault, failing>>

PayNatively(amount, owner) ==
  /\ Income
  /\ SplitNative(amount, owner)
  /\ received' = [received EXCEPT !.native = @ + amount]
  /\ UNCHANGED <<tokenOwner, yieldVault, parked, failing>>

\* A vault is paused, breaks, or is mended.
TurnVault(fault) ==
  /\ failing' = IF fault \in failing THEN failing \ {fault} ELSE failing \cup {fault}
  /\ UNCHANGED <<splitterVars, tokenOwner, yieldVault, parked, income, received>>

\* OwnerMirror.setOwner, alone or in a batch: the attestor repeats what it saw on the
\* iNFT's own chain, when it gets to it and in the order it saw it or another.
SetOwner(owner) ==
  /\ tokenOwner' = owner
  /\ UNCHANGED <<splitterVars, yieldVault, parked, failing, income, received>>

OwnerCall(caller) ==
  \/ \E to \in TokenOwners : Withdraw(caller, to)
  \/ \E v \in Vaults \cup {NoVault} : SetYieldVault(caller, v)
  \/ WithdrawAllIdle(caller)
  \/ \E amount \in Parts : WithdrawIdle(caller, amount)

WalletNext ==
  \/ SplitMyBalance \/ ParkIdle
  \/ \E caller \in TokenOwners : OwnerCall(caller)
  \/ \E owner \in TokenOwners \cup {Burnt} : SetOwner(owner)
  \/ \E payee \in Payees : ClaimNative(payee) /\ UNCHANGED moneyVars
  \/ \E amount \in Payments :
       Receive(amount) \/ \E owner \in TokenOwners : PayNatively(amount, owner)
  \/ \E v \in Vaults : Earn(v)
  \/ \E fault \in Faults : TurnVault(fault)
  \/ \E payee \in Payees : TurnAcceptance(payee) /\ UNCHANGED moneyVars

WalletSpec == WalletInit /\ [][WalletNext]_receiverVars

-----------------------------------------------------------------------------

Worth == usdc[Wallet] + Total(parked)

\* No unit is lost or made: what came in is in the wallet, in a vault, in escrow or
\* at a payee, however vaults are parked in, paused, left and entered again.  The
\* splitter passes everything on, what rounding leaves included: its native money
\* is exactly what it owes to payees that refused a leg, over all splits and claims.
MoneyIsConserved ==
  /\ received.token = Total(usdc) + Total(parked)
  /\ received.native = held + Total(paidNative)
  /\ usdc[Splitter] = 0
  /\ held = Total(pendingNative)

\* The wallet, its vaults included, gets poorer only by the owner's own withdrawal or
\* by a split that gives whoever the mirror has as owner at that moment 85 % and more.
PayoutFollowsOwner ==
  [][Worth' < Worth =>
       \/ \E to \in TokenOwners : Withdraw(tokenOwner, to)
       \/ /\ tokenOwner \in TokenOwners
          /\ 100 * (usdc'[tokenOwner] - usdc[tokenOwner]) >= 85 * (Worth - Worth')]_receiverVars

\* However a vault fails, the wallet can be split, and at once pays its owner 85 %
\* and more of what it holds itself: with the vault it has, as long as that says what
\* the wallet's shares are, and with none, which the owner can always set.
VaultNeverBricksSplit ==
  usdc[Wallet] >= MIN_SPLIT_AMOUNT /\ tokenOwner # Burnt =>
    \A v \in {yieldVault, NoVault} : Tells(v) =>
      /\ SplitAccepted(v)
      /\ 100 * (BalancesAfterSplit(v)[tokenOwner] - usdc[tokenOwner]) >= 85 * usdc[Wallet]

\* "Guarantee: a broken vault never bricks the split."
BrokenVaultNeverBricksSplit ==
  usdc[Wallet] >= MIN_SPLIT_AMOUNT /\ tokenOwner # Burnt => SplitAccepted(yieldVault)

=============================================================================
