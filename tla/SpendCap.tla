------------------------------ MODULE SpendCap ------------------------------
(***************************************************************************)
(* The on-chain spend-cap manager, contracts/src/SpendCap.sol.             *)
(*                                                                         *)
(* A cap is kept per (account, asset, permissionId).  Its owner grants and *)
(* revokes it, the account debits it, and `consumed' starts again from     *)
(* zero in every period.  A call that reverts leaves no trace, so a revert *)
(* is an action that is not enabled.  Solidity 0.8 checks its arithmetic:  *)
(* currentPeriodStart + periodLength beyond uint64 reverts the call.       *)
(*                                                                         *)
(* grantedAt and windowDebits are history variables: the time of the grant *)
(* in force, and what was debited in each period counted from that time.   *)
(* They follow the clock, not the contract's own bookkeeping.              *)
(***************************************************************************)
EXTENDS Integers

CONSTANTS
  Principals,      \* the addresses that call the contract
  Accounts,        \* the capped accounts, which are callers too
  Assets,
  PermissionIds,
  DefaultBucket,   \* bytes32(0), the permission id of the legacy API
  NoOwner,         \* address(0)
  Limits,          \* the values of maxPerPeriod a grant may ask for
  Periods,         \* the values of periodLength a grant may ask for
  Expiries,        \* the values of expiresAt a grant may ask for, 0 = never
  Amounts,         \* the amounts an account may try to spend
  MaxTime,         \* bound on the clock
  MaxU64           \* the largest uint64

ASSUME SpendCapAssumption ==
  /\ Accounts \subseteq Principals
  /\ NoOwner \notin Principals
  /\ DefaultBucket \in PermissionIds
  /\ Limits \subseteq Nat /\ Periods \subseteq Nat /\ Expiries \subseteq Nat
  /\ Amounts \subseteq Nat
  /\ MaxTime \in Nat /\ MaxU64 \in Nat /\ MaxTime <= MaxU64

VARIABLES caps, capOwner, now, grantedAt, windowDebits

capVars == <<caps, capOwner, grantedAt, windowDebits>>
vars == <<caps, capOwner, now, grantedAt, windowDebits>>

Keys == [account : Accounts, asset : Assets, permissionId : PermissionIds]

Time == 0 .. MaxTime

Cap == [maxPerPeriod : Nat, consumed : Nat, periodLength : Nat,
        currentPeriodStart : Time, expiresAt : Nat, revoked : BOOLEAN]

\* What a mapping returns for a key nobody wrote.
NoCap == [maxPerPeriod |-> 0, consumed |-> 0, periodLength |-> 0,
          currentPeriodStart |-> 0, expiresAt |-> 0, revoked |-> FALSE]

NoDebits == [i \in Time |-> 0]

TypeOK ==
  /\ caps \in [Keys -> Cap]
  /\ capOwner \in [Keys -> Principals \cup {NoOwner}]
  /\ now \in Time
  /\ grantedAt \in [Keys -> Time]
  /\ windowDebits \in [Keys -> [Time -> Nat]]

Init ==
  /\ caps = [k \in Keys |-> NoCap]
  /\ capOwner = [k \in Keys |-> NoOwner]
  /\ now = 0
  /\ grantedAt = [k \in Keys |-> 0]
  /\ windowDebits = [k \in Keys |-> NoDebits]

-----------------------------------------------------------------------------

PeriodEnd(cap) == cap.currentPeriodStart + cap.periodLength

ElapsedPeriods(cap) == (now - cap.currentPeriodStart) \div cap.periodLength

\* Mutant of RolledOver: the last instant of a period counts as the next one.
RolledOverEarly(cap) ==
  IF now + 1 >= PeriodEnd(cap)
  THEN [cap EXCEPT !.currentPeriodStart = @ + ElapsedPeriods(cap) * cap.periodLength,
                   !.consumed = 0]
  ELSE cap

\* The cap as spendPermission sees it: moved on by whole periods once the
\* current one is over.
RolledOver(cap) ==
  IF now >= PeriodEnd(cap)
  THEN [cap EXCEPT !.currentPeriodStart = @ + ElapsedPeriods(cap) * cap.periodLength,
                   !.consumed = 0]
  ELSE cap

Expired(cap) == cap.expiresAt # 0 /\ now > cap.expiresAt

\* Mutant of SpendAllowed: the revocation is not tested.
SpendAllowedRevoked(k, amount) ==
  /\ caps[k].maxPerPeriod # 0
  /\ ~Expired(caps[k])
  /\ PeriodEnd(caps[k]) <= MaxU64
  /\ amount <= RolledOver(caps[k]).maxPerPeriod - RolledOver(caps[k]).consumed

SpendAllowed(k, amount) ==
  /\ caps[k].maxPerPeriod # 0
  /\ ~caps[k].revoked
  /\ ~Expired(caps[k])
  /\ PeriodEnd(caps[k]) <= MaxU64
  /\ amount <= RolledOver(caps[k]).maxPerPeriod - RolledOver(caps[k]).consumed

\* The period, counted from the grant, that the clock is in.
WindowNow(k) == (now - grantedAt[k]) \div caps[k].periodLength

-----------------------------------------------------------------------------

GrantPermission(caller, k, max, length, expiry) ==
  /\ max # 0
  /\ length # 0
  /\ capOwner[k] \in {NoOwner, caller}
  /\ capOwner' = [capOwner EXCEPT ![k] = caller]
  /\ caps' = [caps EXCEPT ![k] =
       [maxPerPeriod |-> max, consumed |-> 0, periodLength |-> length,
        currentPeriodStart |-> now, expiresAt |-> expiry, revoked |-> FALSE]]
  /\ grantedAt' = [grantedAt EXCEPT ![k] = now]
  /\ windowDebits' = [windowDebits EXCEPT ![k] = NoDebits]
  /\ UNCHANGED now

RevokePermission(caller, k) ==
  /\ capOwner[k] = caller
  /\ caps' = [caps EXCEPT ![k].revoked = TRUE]
  /\ UNCHANGED <<capOwner, now, grantedAt, windowDebits>>

SpendPermission(caller, k, amount) ==
  /\ caller = k.account
  /\ SpendAllowed(k, amount)
  /\ caps' = [caps EXCEPT ![k] =
       [RolledOver(caps[k]) EXCEPT !.consumed = @ + amount]]
  /\ windowDebits' = [windowDebits EXCEPT ![k][WindowNow(k)] = @ + amount]
  /\ UNCHANGED <<capOwner, now, grantedAt>>

\* permissionOf.  Its copy of the roll-over is the view's own, and it tests
\* neither expiry nor revocation: it reports them.
ViewReverts(k) == caps[k].periodLength > 0 /\ PeriodEnd(caps[k]) > MaxU64

PermissionOf(k) ==
  LET cap  == caps[k]
      over == cap.periodLength > 0 /\ now >= PeriodEnd(cap)
      used == IF over THEN 0 ELSE cap.consumed
  IN [maxPerPeriod |-> cap.maxPerPeriod,
      remaining    |-> IF cap.maxPerPeriod >= used THEN cap.maxPerPeriod - used ELSE 0,
      periodLength |-> cap.periodLength,
      currentPeriodStart |->
        cap.currentPeriodStart +
          (IF over THEN ElapsedPeriods(cap) * cap.periodLength ELSE 0),
      expiresAt |-> cap.expiresAt,
      revoked   |-> cap.revoked,
      owner     |-> capOwner[k]]

\* The legacy API works on the default bucket.
DefaultKey(account, asset) ==
  [account |-> account, asset |-> asset, permissionId |-> DefaultBucket]

Grant(caller, account, asset, max, length, expiry) ==
  GrantPermission(caller, DefaultKey(account, asset), max, length, expiry)

Revoke(caller, account, asset) == RevokePermission(caller, DefaultKey(account, asset))

Spend(caller, account, asset, amount) ==
  SpendPermission(caller, DefaultKey(account, asset), amount)

CapOf(account, asset) == PermissionOf(DefaultKey(account, asset))

\* Block time.
Tick ==
  /\ now < MaxTime
  /\ now' = now + 1
  /\ UNCHANGED capVars

-----------------------------------------------------------------------------

ScopedCall(caller) ==
  \E k \in Keys :
    \/ \E max \in Limits, length \in Periods, expiry \in Expiries :
         GrantPermission(caller, k, max, length, expiry)
    \/ RevokePermission(caller, k)
    \/ \E amount \in Amounts : SpendPermission(caller, k, amount)

LegacyCall(caller) ==
  \E account \in Accounts, asset \in Assets :
    \/ \E max \in Limits, length \in Periods, expiry \in Expiries :
         Grant(caller, account, asset, max, length, expiry)
    \/ Revoke(caller, account, asset)
    \/ \E amount \in Amounts : Spend(caller, account, asset, amount)

Next ==
  \/ \E caller \in Principals : ScopedCall(caller) \/ LegacyCall(caller)
  \/ Tick

Spec == Init /\ [][Next]_vars

-----------------------------------------------------------------------------

\* In every period counted from the grant in force, the account debits at most
\* maxPerPeriod, whatever the order of calls, however many periods pass between
\* two spends and wherever a spend falls on a period boundary.  It is what
\* "caps reset every period, reverts closed when exceeded" promises, and it
\* breaks if the roll-over resets too early, too often or to a drifting start.
WindowBound ==
  \A k \in Keys, i \in Time : windowDebits[k][i] <= caps[k].maxPerPeriod

\* permissionOf repeats the roll-over of spendPermission in its own code.  The
\* two agree at every instant: an account whose view is not reverting, not
\* revoked and not expired can spend exactly the remaining amount it is shown,
\* and nothing more.
ViewMatchesSpend ==
  \A k \in Keys, amount \in Amounts :
    SpendAllowed(k, amount) <=>
      /\ ~ViewReverts(k)
      /\ PermissionOf(k).maxPerPeriod # 0
      /\ ~PermissionOf(k).revoked
      /\ PermissionOf(k).expiresAt # 0 => now <= PermissionOf(k).expiresAt
      /\ amount <= PermissionOf(k).remaining

\* A revoked or expired cap is never debited, until its owner grants again: a
\* spend and a revocation may come in either order in the same block.
DeadCapIsInert ==
  [][\A k \in Keys :
       caps[k].revoked \/ Expired(caps[k]) =>
         windowDebits'[k] \in {windowDebits[k], NoDebits}]_vars

=============================================================================
