---------------------------- MODULE FeeSplitter ----------------------------
(***************************************************************************)
(* The fee splitter, contracts/src/FeeSplitter.sol: 85 / 5 / 5 / 5, in one *)
(* ERC-20 token or in native money.  A native leg that its recipient does  *)
(* not accept is escrowed for the recipient to claim.                      *)
(***************************************************************************)
EXTENDS Integers, FiniteSets, Sums

CONSTANTS
  Payees,                     \* the accounts that are paid
  Keeperhub, Zhgg, Commons,   \* the protocol's recipients, among the payees
  Fragile,                    \* the payees that may stop accepting native money
  Splitter,                   \* the contract itself, as a holder of tokens
  TokenHolders                     \* every holder of tokens

ASSUME SplitterAssumption ==
  /\ {Keeperhub, Zhgg, Commons} \cup Fragile \subseteq Payees
  /\ Payees \cup {Splitter} \subseteq TokenHolders /\ Splitter \notin Payees
  /\ IsFiniteSet(TokenHolders)

VARIABLES
  usdc,            \* the token's balances
  pendingNative,   \* escrowed legs
  held,            \* the contract's native balance
  paidNative,      \* the native money that arrived at each payee
  accepts          \* the payees that accept native money at the moment

splitterVars == <<usdc, pendingNative, held, paidNative, accepts>>

BPS_DENOM == 10000
KEEPER_BPS == 500
ZHGG_BPS == 500
COMMONS_BPS == 500
MIN_SPLIT_AMOUNT == 10000

Cut(total, bps) == (total * bps) \div BPS_DENOM

\* The owner gets what rounding leaves.
OwnerCut(total) ==
  total - Cut(total, KEEPER_BPS) - Cut(total, ZHGG_BPS) - Cut(total, COMMONS_BPS)

\* Mutant of Legs: the owner's leg goes to the commons.
LegsSwapped(total, owner) ==
  << <<Commons, OwnerCut(total)>>, <<Keeperhub, Cut(total, KEEPER_BPS)>>,
     <<Zhgg, Cut(total, ZHGG_BPS)>>, <<owner, Cut(total, COMMONS_BPS)>> >>

Legs(total, owner) ==
  << <<owner, OwnerCut(total)>>, <<Keeperhub, Cut(total, KEEPER_BPS)>>,
     <<Zhgg, Cut(total, ZHGG_BPS)>>, <<Commons, Cut(total, COMMONS_BPS)>> >>

Move(balances, from, to, amount) ==
  [balances EXCEPT ![from] = @ - amount, ![to] = @ + amount]

\* The balances after splitERC20: the total is pulled first, then paid out.
AfterSplit(balances, from, total, owner) ==
  LET legs == Legs(total, owner)
      pulled == Move(balances, from, Splitter, total)
      Pay(b, leg) == Move(b, Splitter, leg[1], leg[2])
  IN  Pay(Pay(Pay(Pay(pulled, legs[1]), legs[2]), legs[3]), legs[4])

\* Mutant of EscrowLeg: a leg escrowed earlier is overwritten.
EscrowLegLast(escrow, leg) == [escrow EXCEPT ![leg[1]] = leg[2]]

EscrowLeg(escrow, leg) == [escrow EXCEPT ![leg[1]] = @ + leg[2]]

\* _sendNative: no leg can keep the others from being paid.  A purse is what is
\* escrowed, what the contract holds, and what has arrived.
SendNative(purse, leg) ==
  IF leg[1] \in accepts
  THEN [purse EXCEPT !.held = @ - leg[2], !.paid[leg[1]] = @ + leg[2]]
  ELSE [purse EXCEPT !.pending = EscrowLeg(@, leg)]

AfterSplitNative(total, owner) ==
  LET legs == Legs(total, owner)
      purse == [pending |-> pendingNative, held |-> held + total, paid |-> paidNative]
  IN  SendNative(SendNative(SendNative(SendNative(purse, legs[1]), legs[2]), legs[3]), legs[4])

SplitNative(total, owner) ==
  /\ total >= MIN_SPLIT_AMOUNT
  /\ LET purse == AfterSplitNative(total, owner)
     IN  /\ pendingNative' = purse.pending
         /\ held' = purse.held
         /\ paidNative' = purse.paid
  /\ UNCHANGED <<usdc, accepts>>

\* A claim that is not accepted reverts and leaves the escrow as it was.
ClaimNative(payee) ==
  /\ pendingNative[payee] > 0
  /\ payee \in accepts
  /\ paidNative' = [paidNative EXCEPT ![payee] = @ + pendingNative[payee]]
  /\ held' = held - pendingNative[payee]
  /\ pendingNative' = [pendingNative EXCEPT ![payee] = 0]
  /\ UNCHANGED <<usdc, accepts>>

\* A payee is upgraded, breaks, or is mended.
TurnAcceptance(payee) ==
  /\ payee \in Fragile
  /\ accepts' = IF payee \in accepts THEN accepts \ {payee} ELSE accepts \cup {payee}
  /\ UNCHANGED <<usdc, pendingNative, held, paidNative>>

SplitterTypeOK ==
  /\ usdc \in [TokenHolders -> Nat]
  /\ pendingNative \in [Payees -> Nat]
  /\ held \in Nat
  /\ paidNative \in [Payees -> Nat]
  /\ accepts \subseteq Payees

SplitterInit ==
  /\ usdc = [h \in TokenHolders |-> 0]
  /\ pendingNative = [p \in Payees |-> 0]
  /\ held = 0
  /\ paidNative = [p \in Payees |-> 0]
  /\ accepts = Payees

=============================================================================
