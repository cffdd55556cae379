---------------------------- MODULE EscrowLedger ----------------------------
(***************************************************************************)
(* What an escrow promises, without roles, clocks or tokens: an amount     *)
(* taken into escrow leaves it once, either back to the client as a whole  *)
(* or to the provider less a protocol fee.  AgenticCommerce is shown to    *)
(* implement it.                                                           *)
(***************************************************************************)
EXTENDS Naturals

CONSTANTS Deals, Amounts

VARIABLES
  amount,    \* what was taken into escrow for a deal, 0 before
  paid       \* what left the escrow, and to whom

ledgerVars == <<amount, paid>>

Nothing == [client |-> 0, provider |-> 0, fee |-> 0]

LedgerTypeOK ==
  /\ amount \in [Deals -> Nat]
  /\ paid \in [Deals -> [client : Nat, provider : Nat, fee : Nat]]

Held(d) == amount[d] > 0 /\ paid[d] = Nothing

LedgerInit ==
  /\ amount = [d \in Deals |-> 0]
  /\ paid = [d \in Deals |-> Nothing]

Hold(d, a) ==
  /\ amount[d] = 0
  /\ a > 0
  /\ amount' = [amount EXCEPT ![d] = a]
  /\ UNCHANGED paid

Release(d, fee) ==
  /\ Held(d)
  /\ paid' = [paid EXCEPT ![d] =
       [client |-> 0, provider |-> amount[d] - fee, fee |-> fee]]
  /\ UNCHANGED amount

Refund(d) ==
  /\ Held(d)
  /\ paid' = [paid EXCEPT ![d] = [client |-> amount[d], provider |-> 0, fee |-> 0]]
  /\ UNCHANGED amount

LedgerNext ==
  \E d \in Deals :
    \/ \E a \in Amounts : Hold(d, a)
    \/ \E fee \in 0 .. amount[d] : Release(d, fee)
    \/ Refund(d)

LedgerSpec == LedgerInit /\ [][LedgerNext]_ledgerVars

-----------------------------------------------------------------------------

\* What has left the escrow for a deal is nothing or all of it, and never went to both
\* sides.
Conserved ==
  \A d \in Deals :
    \/ paid[d] = Nothing
    \/ /\ paid[d].client + paid[d].provider + paid[d].fee = amount[d]
       /\ paid[d].client = 0 \/ paid[d].provider + paid[d].fee = 0

\* A deal that was settled stays settled as it was: it takes in and pays out no more.
SettledOnce ==
  [][\A d \in Deals :
       paid[d] # Nothing => paid'[d] = paid[d] /\ amount'[d] = amount[d]]_ledgerVars

=============================================================================
