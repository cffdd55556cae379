------------------------------ MODULE Authority ------------------------------
(***************************************************************************)
(* What a delegation promises its delegator, without saying how: a batch   *)
(* of delegations is used in one step, each of them once and only while it *)
(* is authorised, and no wallet pays more than the delegations used        *)
(* together allow it to.                                                   *)
(***************************************************************************)
EXTENDS Integers, FiniteSets, Sums

CONSTANTS
  Delegations,   \* records with a delegator, a salt and a maxValue
  Wallets,
  Funds          \* what a wallet holds at first

VARIABLES
  authorised,    \* the delegations in force
  spent,         \* the <<delegator, salt>> pairs used so far
  native         \* what the wallets hold

Id(d) == <<d.delegator, d.salt>>

MaxValues == [d \in Delegations |-> d.maxValue]

Allowance(batch, w) == SumOver({d \in batch : d.delegator = w}, MaxValues)

Init ==
  /\ authorised \subseteq Delegations
  /\ spent = {}
  /\ native = [w \in Wallets |-> Funds]

Use(batch) ==
  /\ IsFiniteSet(batch)
  /\ \A d, e \in batch : Id(d) = Id(e) => d = e
  /\ {Id(d) : d \in batch} \cap spent = {}
  /\ spent' = spent \cup {Id(d) : d \in batch}
  /\ native' \in [Wallets -> 0 .. Funds]
  /\ \A w \in Wallets : native[w] - native'[w] \in 0 .. Allowance(batch, w)
  /\ UNCHANGED authorised

\* Signatures, transfers and time.
Change ==
  /\ authorised' \subseteq Delegations
  /\ UNCHANGED <<spent, native>>

Next == (\E batch \in SUBSET authorised : Use(batch)) \/ Change

Spec == Init /\ [][Next]_<<authorised, spent, native>>

-----------------------------------------------------------------------------

\* Over its whole life a wallet has paid for delegations only, each used once and no
\* two under one pair, and no more than they allow together: signing one delegation
\* risks its maxValue once, however it is batched, retried or signed again.
LifetimeBound ==
  /\ native \in [Wallets -> 0 .. Funds]
  /\ \E used \in SUBSET Delegations :
       /\ IsFiniteSet(used)
       /\ \A d, e \in used : Id(d) = Id(e) => d = e
       /\ spent = {Id(d) : d \in used}
       /\ \A w \in Wallets : Funds - native[w] <= Allowance(used, w)

=============================================================================
