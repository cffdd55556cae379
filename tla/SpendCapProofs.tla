--------------------------- MODULE SpendCapProofs ---------------------------
(***************************************************************************)
(* Type correctness of SpendCap and its window bound, for any number of    *)
(* accounts, assets and permission ids, any limits, period lengths and     *)
(* expiries, and any bound on the clock.                                   *)
(*                                                                         *)
(* WindowBound speaks of periods counted from the grant by the clock; the  *)
(* contract only keeps the start of the period it last saw and the amount  *)
(* consumed in it.  OnGrid ties the two: the stored start is a whole       *)
(* number p of periods after the grant, `consumed' is what was debited in  *)
(* period p, and nothing has been debited in a later one.                  *)
(*                                                                         *)
(* The second half is about the gate, for any number of runs on any keys:  *)
(* the caps keep these properties whatever the gate's runs do to them, and *)
(* a spend that is mined as a revert has a cause.  StillGood says why: the *)
(* contract would accept a pending spend on the cap the run saw, whenever  *)
(* it is mined, unless that cap expired, because the roll-over of a period *)
(* can only give a cap more to spend.                                      *)
(*                                                                         *)
(* The last part is about batches of delegations, for any delegations,     *)
(* wallets and values.  BatchInv says what holds between two calls of a    *)
(* batch: CapsFollow, that the caps of others have moved by what the batch *)
(* debited, at least; Promised, that its delegations are good, new and     *)
(* different; Paid, that the wallets paid no more than they allow.  From   *)
(* it follow CapBoundsBatch, and that a batch is one step of Authority.    *)
(*                                                                         *)
(* EnforcedMeansDebited fails only by a race: it holds of every behaviour  *)
(* whose pending spends are not outrun (Unraced).                          *)
(***************************************************************************)
EXTENDS SpendCapGate, Delegation, SumTheorems, TLAPS

OnGrid(k, p) ==
  /\ p \in Nat
  /\ caps[k].currentPeriodStart = grantedAt[k] + p * caps[k].periodLength
  /\ windowDebits[k][p] = caps[k].consumed
  /\ \A i \in Time : i > p => windowDebits[k][i] = 0

GrantedCap(k) ==
  /\ caps[k].periodLength > 0
  /\ caps[k].consumed <= caps[k].maxPerPeriod
  /\ caps[k].currentPeriodStart <= now
  /\ \E p \in Time : OnGrid(k, p)

KeyInv(k) ==
  /\ caps[k].maxPerPeriod = 0 => caps[k].consumed = 0 /\ windowDebits[k] = NoDebits
  /\ caps[k].maxPerPeriod # 0 => GrantedCap(k)
  /\ \A i \in Time : windowDebits[k][i] <= caps[k].maxPerPeriod

IInv ==
  /\ TypeOK
  /\ \A k \in Keys : KeyInv(k)

-----------------------------------------------------------------------------

\* Division with remainder, for the two places where the contract divides.
LEMMA DivBounds ==
  ASSUME NEW a \in Nat, NEW b \in Nat \ {0}
  PROVE  /\ a \div b \in Nat
         /\ (a \div b) * b <= a
         /\ a < (a \div b) * b + b
         /\ a \div b <= a
  OBVIOUS

\* The quotient is the only number with these bounds.
LEMMA DivUnique ==
  ASSUME NEW a \in Nat, NEW b \in Nat \ {0}, NEW q \in Nat,
         q * b <= a, a < q * b + b
  PROVE  a \div b = q
  OBVIOUS

\* A clock reading d after the start of period p lies d \div b periods later.
LEMMA DivShift ==
  ASSUME NEW d \in Nat, NEW b \in Nat \ {0}, NEW p \in Nat
  PROVE  (p * b + d) \div b = p + (d \div b)
<1> DEFINE e == d \div b
<1>1. e \in Nat /\ e * b <= d /\ d < e * b + b
  BY DivBounds
<1>2. (p + e) * b = p * b + e * b
  BY <1>1
<1>3. (p + e) * b <= p * b + d /\ p * b + d < (p + e) * b + b
  BY <1>1, <1>2
<1>4. p + e \in Nat /\ p * b + d \in Nat
  BY <1>1
<1> HIDE DEF e
<1>5. (p * b + d) \div b = p + e
  BY <1>3, <1>4, DivUnique
<1> QED
  BY <1>5 DEF e

-----------------------------------------------------------------------------

\* What the two record updates of the contract leave in place.
LEMMA WithConsumed ==
  ASSUME NEW cap \in Cap, NEW amount \in Nat
  PROVE  LET new == [cap EXCEPT !.consumed = amount]
         IN  /\ new \in Cap
             /\ new.consumed = amount
             /\ new.maxPerPeriod = cap.maxPerPeriod
             /\ new.periodLength = cap.periodLength
             /\ new.currentPeriodStart = cap.currentPeriodStart
  BY DEF Cap

LEMMA WithPeriod ==
  ASSUME NEW cap \in Cap, NEW t \in Time
  PROVE  LET new == [cap EXCEPT !.currentPeriodStart = t, !.consumed = 0]
         IN  /\ new \in Cap
             /\ new.consumed = 0
             /\ new.maxPerPeriod = cap.maxPerPeriod
             /\ new.periodLength = cap.periodLength
             /\ new.currentPeriodStart = t
             /\ new.expiresAt = cap.expiresAt
             /\ new.revoked = cap.revoked
  BY DEF Cap

-----------------------------------------------------------------------------

\* No cap exists at the start.
LEMMA InitIInv == Init => IInv
<1> SUFFICES ASSUME Init PROVE IInv
  OBVIOUS
<1> USE SpendCapAssumption DEF Init, Time, NoDebits
<1>1. TypeOK
  BY DEF TypeOK, NoCap, Cap
<1>2. \A k \in Keys : KeyInv(k)
  BY DEF KeyInv, NoCap
<1> QED
  BY <1>1, <1>2 DEF IInv

\* A grant opens period 0 at the current time.
LEMMA GrantIInv ==
  ASSUME IInv, NEW caller \in Principals, NEW k \in Keys,
         NEW max \in Nat, NEW length \in Nat, NEW expiry \in Nat,
         GrantPermission(caller, k, max, length, expiry)
  PROVE  IInv'
<1> USE SpendCapAssumption DEF GrantPermission, Time
<1>1. TypeOK'
  BY DEF IInv, TypeOK, Cap, NoDebits
<1>2. ASSUME NEW l \in Keys PROVE KeyInv(l)'
  <2>1. CASE l # k
    <3>1. /\ caps'[l] = caps[l] /\ grantedAt'[l] = grantedAt[l]
          /\ windowDebits'[l] = windowDebits[l] /\ now' = now
      BY <2>1 DEF IInv, TypeOK
    <3>2. KeyInv(l)
      BY DEF IInv
    <3> QED
      BY <3>1, <3>2 DEF KeyInv, GrantedCap, OnGrid, NoDebits
  <2>2. CASE l = k
    <3>1. /\ caps'[k] = [maxPerPeriod |-> max, consumed |-> 0,
                         periodLength |-> length, currentPeriodStart |-> now,
                         expiresAt |-> expiry, revoked |-> FALSE]
          /\ grantedAt'[k] = now
          /\ windowDebits'[k] = NoDebits
          /\ now' = now
          /\ max > 0 /\ length > 0
          /\ now \in 0 .. MaxTime
      BY DEF IInv, TypeOK
    <3>2. OnGrid(k, 0)'
      BY <3>1 DEF OnGrid, NoDebits
    <3> QED
      BY <2>2, <3>1, <3>2 DEF KeyInv, GrantedCap, NoDebits
  <2> QED
    BY <2>1, <2>2
<1> QED
  BY <1>1, <1>2 DEF IInv

\* revoke changes only the flag of a cap.
LEMMA RevokeIInv ==
  ASSUME IInv, NEW caller \in Principals, NEW k \in Keys,
         RevokePermission(caller, k)
  PROVE  IInv'
<1> USE SpendCapAssumption DEF RevokePermission, Time
<1>1. TypeOK'
  BY DEF IInv, TypeOK, Cap
<1>2. ASSUME NEW l \in Keys PROVE KeyInv(l)'
  <2>1. /\ caps'[l].maxPerPeriod = caps[l].maxPerPeriod
        /\ caps'[l].consumed = caps[l].consumed
        /\ caps'[l].periodLength = caps[l].periodLength
        /\ caps'[l].currentPeriodStart = caps[l].currentPeriodStart
        /\ UNCHANGED <<now, grantedAt, windowDebits>>
    BY DEF IInv, TypeOK, Cap
  <2> QED
    BY <2>1 DEF IInv, KeyInv, GrantedCap, OnGrid, NoDebits
<1> QED
  BY <1>1, <1>2 DEF IInv

\* The period the contract rolls to is the one the clock is in.
LEMMA RolledWindow ==
  ASSUME IInv, NEW k \in Keys, caps[k].maxPerPeriod # 0
  PROVE  /\ RolledOver(caps[k]) \in Cap
         /\ WindowNow(k) \in Time
         /\ RolledOver(caps[k]).currentPeriodStart
              = grantedAt[k] + WindowNow(k) * caps[k].periodLength
         /\ RolledOver(caps[k]).currentPeriodStart <= now
         /\ RolledOver(caps[k]).consumed = windowDebits[k][WindowNow(k)]
         /\ \A i \in Time : i > WindowNow(k) => windowDebits[k][i] = 0
         /\ RolledOver(caps[k]).maxPerPeriod = caps[k].maxPerPeriod
         /\ RolledOver(caps[k]).periodLength = caps[k].periodLength
         /\ RolledOver(caps[k]).consumed <= caps[k].maxPerPeriod
<1> DEFINE start == caps[k].currentPeriodStart
           b == caps[k].periodLength
           g == grantedAt[k]
           d == now - start
           e == d \div b
<1>1. /\ caps[k] \in Cap /\ now \in Time /\ g \in Time
      /\ windowDebits[k] \in [Time -> Nat]
      /\ GrantedCap(k)
  BY DEF IInv, TypeOK, KeyInv
<1>2. PICK p \in Time : OnGrid(k, p)
  BY <1>1 DEF GrantedCap
<1>a. b \in Nat /\ start \in Time /\ caps[k].consumed \in Nat /\ caps[k].maxPerPeriod \in Nat
  BY <1>1 DEF Cap
<1>b. b > 0 /\ start <= now
  BY <1>1 DEF GrantedCap
<1>3. b \in Nat \ {0} /\ start \in Nat /\ d \in Nat /\ p \in Nat /\ g \in Nat /\ now \in Nat
  <2> HIDE DEF b, start, g
  <2> QED
    BY <1>1, <1>2, <1>a, <1>b, SpendCapAssumption DEF Time
<1>4. start = g + p * b /\ now - g = p * b + d
  <2>1. start = g + p * b
    BY <1>2 DEF OnGrid
  <2> HIDE DEF b, start, g
  <2>2. p * b \in Nat
    BY <1>3
  <2> QED
    BY <1>3, <2>1, <2>2
<1>5. WindowNow(k) = p + e
  <2>1. (p * b + d) \div b = p + (d \div b)
    BY <1>3, DivShift
  <2> QED
    BY <1>4, <2>1 DEF WindowNow
<1>6. e \in Nat /\ e * b <= d /\ d < e * b + b /\ e <= d
  BY <1>3, DivBounds
<1>7. WindowNow(k) \in Nat /\ WindowNow(k) <= now - g
  <2>1. now - g \in Nat
    <3> HIDE DEF b, d, g
    <3> QED
      BY <1>3, <1>4
  <2> QED
    BY <1>3, <2>1, DivBounds DEF WindowNow
<1>8. WindowNow(k) \in Time
  BY <1>1, <1>7, SpendCapAssumption DEF Time
<1>9. CASE now >= PeriodEnd(caps[k])
  <2>1. d >= b
    BY <1>1, <1>3, <1>9, SpendCapAssumption DEF PeriodEnd, Time
  <2>2. e >= 1
    BY <1>3, <1>6, <2>1
  <2>3. RolledOver(caps[k]) =
          [caps[k] EXCEPT !.currentPeriodStart = start + e * b, !.consumed = 0]
    BY <1>1, <1>9 DEF RolledOver, ElapsedPeriods, Cap
  <2>4. (p + e) * b = p * b + e * b
    BY <1>3, <1>6
  <2>5. start + e * b = g + WindowNow(k) * b /\ start + e * b <= now
    <3> HIDE DEF d, b, g, start
    <3>1. start + e * b = g + (p + e) * b
      BY <1>1, <1>3, <1>4, <1>6, <2>4 DEF Time
    <3>2. start + e * b <= start + d /\ e * b \in Nat
      BY <1>3, <1>6, SpendCapAssumption DEF Time
    <3>3. start + d = now
      BY <1>1, <1>3, SpendCapAssumption DEF d, Time
    <3> QED
      BY <1>5, <3>1, <3>2, <3>3
  <2>6. windowDebits[k][WindowNow(k)] = 0
        /\ \A i \in Time : i > WindowNow(k) => windowDebits[k][i] = 0
    BY <1>2, <1>3, <1>5, <1>6, <1>8, <2>2, SpendCapAssumption DEF OnGrid, Time
  <2>7. start + e * b \in Time
    <3> HIDE DEF e, b, start
    <3>1. e * b \in Nat
      BY <1>3, <1>6
    <3> QED
      BY <1>1, <1>3, <2>5, <3>1, SpendCapAssumption DEF Time
  <2>8. PICK t \in Time : t = start + e * b
    BY <2>7
  <2>9. RolledOver(caps[k]) = [caps[k] EXCEPT !.currentPeriodStart = t, !.consumed = 0]
    BY <2>3, <2>8
  <2>10. /\ RolledOver(caps[k]) \in Cap
         /\ RolledOver(caps[k]).currentPeriodStart = t
         /\ RolledOver(caps[k]).consumed = 0
         /\ RolledOver(caps[k]).maxPerPeriod = caps[k].maxPerPeriod
         /\ RolledOver(caps[k]).periodLength = caps[k].periodLength
    <3>1. caps[k] \in Cap /\ t \in Time
      BY <1>1, <2>8
    <3> DEFINE c == caps[k]
    <3>2. c \in Cap
      BY <3>1
    <3> HIDE DEF c
    <3>3. LET new == [c EXCEPT !.currentPeriodStart = t, !.consumed = 0]
          IN  /\ new \in Cap
              /\ new.consumed = 0
              /\ new.maxPerPeriod = c.maxPerPeriod
              /\ new.periodLength = c.periodLength
              /\ new.currentPeriodStart = t
      BY <3>1, <3>2, WithPeriod
    <3> QED
      BY <2>9, <3>3 DEF c
  <2> QED
    BY <1>8, <1>a, <2>5, <2>6, <2>8, <2>10
<1>10. CASE ~(now >= PeriodEnd(caps[k]))
  <2>1. d < b
    BY <1>1, <1>3, <1>10, SpendCapAssumption DEF PeriodEnd, Time
  <2>2. e = 0
    BY <1>3, <2>1, DivUnique
  <2>3. RolledOver(caps[k]) = caps[k]
    BY <1>10 DEF RolledOver
  <2>4. WindowNow(k) = p
    BY <1>3, <1>5, <2>2
  <2> QED
    BY <1>1, <1>2, <1>4, <1>8, <2>3, <2>4 DEF OnGrid, GrantedCap
<1> QED
  BY <1>9, <1>10

\* spend rolls the period, then debits what the cap has left.
LEMMA SpendIInv ==
  ASSUME IInv, NEW caller \in Principals, NEW k \in Keys, NEW amount \in Nat,
         SpendPermission(caller, k, amount)
  PROVE  IInv'
<1>1. /\ caps[k].maxPerPeriod # 0
      /\ amount <= RolledOver(caps[k]).maxPerPeriod - RolledOver(caps[k]).consumed
  BY DEF SpendPermission, SpendAllowed
<1>2. PICK cap \in Cap, w \in Time :
        /\ cap = RolledOver(caps[k])
        /\ w = WindowNow(k)
        /\ cap.currentPeriodStart = grantedAt[k] + w * caps[k].periodLength
        /\ cap.currentPeriodStart <= now
        /\ cap.consumed = windowDebits[k][w]
        /\ \A i \in Time : i > w => windowDebits[k][i] = 0
        /\ cap.maxPerPeriod = caps[k].maxPerPeriod
        /\ cap.periodLength = caps[k].periodLength
        /\ cap.consumed <= caps[k].maxPerPeriod
  BY <1>1, RolledWindow
<1>3. PICK debited \in Cap : debited = [cap EXCEPT !.consumed = cap.consumed + amount]
  <2>1. cap.consumed + amount \in Nat
    BY <1>2 DEF Cap
  <2> QED
    BY <1>2, <2>1, WithConsumed
<1>4. /\ caps' = [caps EXCEPT ![k] = debited]
      /\ windowDebits' = [windowDebits EXCEPT ![k] =
                           [windowDebits[k] EXCEPT ![w] = windowDebits[k][w] + amount]]
      /\ UNCHANGED <<capOwner, now, grantedAt>>
  BY <1>2, <1>3 DEF SpendPermission
<1>5. TypeOK'
  <2>1. [windowDebits[k] EXCEPT ![w] = windowDebits[k][w] + amount] \in [Time -> Nat]
    BY <1>2 DEF IInv, TypeOK
  <2> QED
    BY <1>3, <1>4, <2>1 DEF IInv, TypeOK
<1>6. ASSUME NEW l \in Keys PROVE KeyInv(l)'
  <2>1. CASE l # k
    BY <1>4, <2>1 DEF IInv, TypeOK, KeyInv, GrantedCap, OnGrid
  <2>2. CASE l = k
    <3>1. /\ caps'[k] = debited
          /\ windowDebits'[k] = [windowDebits[k] EXCEPT ![w] = windowDebits[k][w] + amount]
          /\ grantedAt'[k] = grantedAt[k] /\ now' = now
          /\ windowDebits[k] \in [Time -> Nat]
      BY <1>4 DEF IInv, TypeOK
    <3>2. /\ debited.consumed = cap.consumed + amount
          /\ debited.maxPerPeriod = caps[k].maxPerPeriod
          /\ debited.periodLength = caps[k].periodLength
          /\ debited.currentPeriodStart = cap.currentPeriodStart
      BY <1>2, <1>3 DEF Cap
    <3>3. debited.consumed <= debited.maxPerPeriod /\ debited.periodLength > 0
      BY <1>1, <1>2, <3>2 DEF Cap, IInv, KeyInv, GrantedCap
    <3>4. OnGrid(k, w)'
      BY <1>2, <3>1, <3>2, SpendCapAssumption DEF OnGrid, Time
    <3>5. \A i \in Time : windowDebits'[k][i] <= debited.maxPerPeriod
      BY <1>2, <3>1, <3>2, <3>3 DEF IInv, KeyInv
    <3>6. GrantedCap(k)'
      BY <1>2, <3>1, <3>2, <3>3, <3>4 DEF GrantedCap
    <3> QED
      BY <1>1, <2>2, <3>1, <3>2, <3>5, <3>6 DEF KeyInv
  <2> QED
    BY <2>1, <2>2
<1> QED
  BY <1>5, <1>6 DEF IInv

\* The clock moves on and no cap changes.
LEMMA TickIInv == IInv /\ Tick => IInv'
<1> SUFFICES ASSUME IInv, Tick PROVE IInv'
  OBVIOUS
<1>1. TypeOK'
  BY SpendCapAssumption DEF IInv, TypeOK, Tick, capVars, Time
<1>2. ASSUME NEW k \in Keys PROVE KeyInv(k)'
  <2>0. KeyInv(k) /\ caps[k] \in Cap
    BY DEF IInv, TypeOK
  <2>1. KeyInv(k) /\ caps[k].currentPeriodStart \in Nat
    BY <2>0, SpendCapAssumption DEF Cap, Time
  <2>2. ASSUME GrantedCap(k) PROVE GrantedCap(k)'
    <3>1. \A p : OnGrid(k, p) => OnGrid(k, p)'
      BY DEF OnGrid, Tick, capVars
    <3>2. caps[k].currentPeriodStart <= now'
      BY <2>1, <2>2 DEF GrantedCap, IInv, TypeOK, Tick, Time
    <3> QED
      BY <2>2, <3>1, <3>2 DEF GrantedCap, Tick, capVars
  <2> QED
    BY <2>1, <2>2 DEF KeyInv, Tick, capVars
<1> QED
  BY <1>1, <1>2 DEF IInv

\* The inductive step, one case per action.
LEMMA NextIInv == IInv /\ [Next]_vars => IInv'
<1> SUFFICES ASSUME IInv, [Next]_vars PROVE IInv'
  OBVIOUS
<1>1. ASSUME NEW caller \in Principals, ScopedCall(caller) PROVE IInv'
  BY <1>1, GrantIInv, RevokeIInv, SpendIInv, SpendCapAssumption DEF ScopedCall
<1>2. ASSUME NEW caller \in Principals, LegacyCall(caller) PROVE IInv'
  <2>1. \A account \in Accounts, asset \in Assets : DefaultKey(account, asset) \in Keys
    BY SpendCapAssumption DEF DefaultKey, Keys
  <2> QED
    BY <1>2, <2>1, GrantIInv, RevokeIInv, SpendIInv, SpendCapAssumption
       DEF LegacyCall, Grant, Revoke, Spend
<1>3. CASE Tick
  BY <1>3, TickIInv
<1>4. CASE UNCHANGED vars
  BY <1>4 DEF vars, IInv, TypeOK, KeyInv, GrantedCap, OnGrid
<1> QED
  BY <1>1, <1>2, <1>3, <1>4 DEF Next

-----------------------------------------------------------------------------

\* In every reachable state what a cap has debited is accounted to the period its
\* clock says it is in: IInv is inductive.
THEOREM SpendCapInductive == Spec => []IInv
  BY InitIInv, NextIInv, PTL DEF Spec

\* Every variable keeps its type: in particular the stored period start never
\* runs ahead of the clock's range and `consumed' never underflows.
THEOREM SpendCapTypeCorrect == Spec => []TypeOK
<1>1. IInv => TypeOK
  BY DEF IInv
<1> QED
  BY <1>1, SpendCapInductive, PTL

\* The debits of any period counted from the grant in force stay within
\* maxPerPeriod, whatever the limits, the period lengths and the order of calls.
THEOREM SpendCapWindowBound == Spec => []WindowBound
<1>1. IInv => WindowBound
  BY DEF IInv, KeyInv, WindowBound
<1> QED
  BY <1>1, SpendCapInductive, PTL

\* What a step may do to a cap that is dead when the step is taken.
Inert(k) ==
  caps[k].revoked \/ Expired(caps[k]) =>
    windowDebits'[k] \in {windowDebits[k], NoDebits}

\* One call of the contract, by whoever makes it.
ContractCall(caller, l) ==
  \/ \E max, length, expiry : GrantPermission(caller, l, max, length, expiry)
  \/ RevokePermission(caller, l)
  \/ \E amount : SpendPermission(caller, l, amount)

LEMMA CallIsInert ==
  ASSUME TypeOK, NEW caller, NEW l \in Keys, ContractCall(caller, l), NEW k \in Keys
  PROVE  Inert(k)
<1>1. CASE \E max, length, expiry : GrantPermission(caller, l, max, length, expiry)
  BY <1>1 DEF GrantPermission, TypeOK, Inert
<1>2. CASE RevokePermission(caller, l)
  BY <1>2 DEF RevokePermission, Inert
<1>3. CASE \E amount : SpendPermission(caller, l, amount)
  <2>1. PICK amount : SpendPermission(caller, l, amount)
    BY <1>3
  <2>2. ~(caps[l].revoked \/ Expired(caps[l]))
    BY <2>1 DEF SpendPermission, SpendAllowed
  <2>3. k # l => windowDebits'[k] = windowDebits[k]
    BY <2>1 DEF SpendPermission, TypeOK
  <2> QED
    BY <2>2, <2>3 DEF Inert
<1> QED
  BY <1>1, <1>2, <1>3 DEF ContractCall

LEMMA NextIsInert ==
  ASSUME TypeOK, [Next]_vars
  PROVE  \A k \in Keys : Inert(k)
<1>1. ASSUME NEW caller \in Principals, ScopedCall(caller)
      PROVE  \A k \in Keys : Inert(k)
  BY <1>1, CallIsInert DEF ScopedCall, ContractCall
<1>2. ASSUME NEW caller \in Principals, LegacyCall(caller)
      PROVE  \A k \in Keys : Inert(k)
  <2>1. \A account \in Accounts, asset \in Assets : DefaultKey(account, asset) \in Keys
    BY SpendCapAssumption DEF DefaultKey, Keys
  <2> QED
    BY <1>2, <2>1, CallIsInert DEF LegacyCall, Grant, Revoke, Spend, ContractCall
<1>3. CASE Tick \/ UNCHANGED vars
  BY <1>3 DEF Tick, capVars, vars, Inert
<1> QED
  BY <1>1, <1>2, <1>3 DEF Next

\* No step debits a cap that is revoked or expired when the step is taken.
THEOREM SpendCapDeadCapIsInert == Spec => DeadCapIsInert
<1>1. TypeOK /\ [Next]_vars => [\A k \in Keys : Inert(k)]_vars
  BY NextIsInert
<1> QED
  BY <1>1, SpendCapTypeCorrect, PTL DEF Spec, DeadCapIsInert, Inert

\* A granted cap has a positive period and has consumed no more than its maximum, so
\* the view's two guards against other caps (SpendCap.sol, permissionOf) change
\* nothing, and its copy of the roll-over finds what the spend's own one finds.
LEMMA ViewMatches == IInv => ViewMatchesSpend
<1> SUFFICES ASSUME IInv, NEW k \in Keys, NEW amount \in Amounts
             PROVE  SpendAllowed(k, amount) <=>
                      /\ ~ViewReverts(k)
                      /\ PermissionOf(k).maxPerPeriod # 0
                      /\ ~PermissionOf(k).revoked
                      /\ PermissionOf(k).expiresAt # 0 => now <= PermissionOf(k).expiresAt
                      /\ amount <= PermissionOf(k).remaining
  BY DEF ViewMatchesSpend
<1> DEFINE cap == caps[k]
<1>1. cap \in Cap /\ now \in Nat /\ amount \in Nat /\ KeyInv(k)
  BY SpendCapAssumption DEF IInv, TypeOK, Time
<1>2. CASE cap.maxPerPeriod = 0
  BY <1>2 DEF SpendAllowed, PermissionOf
<1>3. CASE cap.maxPerPeriod # 0
  <2>1. cap.periodLength > 0 /\ cap.consumed <= cap.maxPerPeriod
    BY <1>1, <1>3 DEF KeyInv, GrantedCap
  <2>2. RolledOver(cap).maxPerPeriod - RolledOver(cap).consumed = PermissionOf(k).remaining
    BY <1>1, <2>1 DEF RolledOver, PermissionOf, Cap, PeriodEnd
  <2>3. Expired(cap) <=> ~(PermissionOf(k).expiresAt # 0 => now <= PermissionOf(k).expiresAt)
    BY <1>1 DEF Expired, PermissionOf, Cap
  <2>4. ViewReverts(k) <=> ~(PeriodEnd(cap) <= MaxU64)
    BY <1>1, <2>1, SpendCapAssumption DEF ViewReverts, PeriodEnd, Cap, Time
  <2> QED
    BY <1>3, <2>2, <2>3, <2>4 DEF SpendAllowed, PermissionOf
<1> QED
  BY <1>2, <1>3

\* permissionOf, which repeats the roll-over in its own code, and spendPermission
\* agree at every instant on whether an amount can be spent.
THEOREM SpendCapViewMatches == Spec => []ViewMatchesSpend
  BY ViewMatches, SpendCapInductive, PTL

-----------------------------------------------------------------------------

\* spendPermission would take the amount from a cap of this content, at this
\* instant, if it has not expired.
Fits(cap, amount) ==
  /\ cap.maxPerPeriod # 0
  /\ ~cap.revoked
  /\ PeriodEnd(cap) <= MaxU64
  /\ amount <= RolledOver(cap).maxPerPeriod - RolledOver(cap).consumed

StillGood(r) == tx[r] = "pending" => Fits(seen[r], RunAmount[r])

GateInv ==
  /\ GateTypeOK
  /\ \A r \in Runs : StillGood(r)
  /\ IInv

LEMMA AllowedFits ==
  ASSUME NEW k, NEW amount
  PROVE  SpendAllowed(k, amount) <=> Fits(caps[k], amount) /\ ~Expired(caps[k])
  BY DEF SpendAllowed, Fits

\* Time only helps: what a cap can pay now it can pay later.
LEMMA FitsForLong ==
  ASSUME NEW cap \in Cap, NEW amount \in Nat, now \in Time, Tick, Fits(cap, amount)
  PROVE  Fits(cap, amount)'
<1>1. now' = now + 1 /\ now \in Nat
  BY SpendCapAssumption DEF Tick, Time
<1>2. /\ cap.maxPerPeriod \in Nat /\ cap.consumed \in Nat
      /\ cap.currentPeriodStart \in Nat /\ cap.periodLength \in Nat
  BY SpendCapAssumption DEF Cap, Time
<1>3. /\ RolledOver(cap).maxPerPeriod = cap.maxPerPeriod
      /\ RolledOver(cap).consumed = IF now >= PeriodEnd(cap) THEN 0 ELSE cap.consumed
      /\ RolledOver(cap)'.maxPerPeriod = cap.maxPerPeriod
      /\ RolledOver(cap)'.consumed = IF now' >= PeriodEnd(cap) THEN 0 ELSE cap.consumed
  BY DEF RolledOver, PeriodEnd, Cap
<1>4. PeriodEnd(cap)' = PeriodEnd(cap) /\ PeriodEnd(cap) \in Nat
  BY <1>2 DEF PeriodEnd
<1> QED
  BY <1>1, <1>2, <1>3, <1>4 DEF Fits

\* A step that leaves the clock leaves every judgement of a cap.
LEMMA FitsAtOneTime ==
  ASSUME NEW cap, NEW amount, UNCHANGED now
  PROVE  Fits(cap, amount)' <=> Fits(cap, amount)
  BY DEF Fits, RolledOver, PeriodEnd, ElapsedPeriods

\* A transaction is broadcast on a cap that takes it.
LEMMA BroadcastGood ==
  ASSUME GateTypeOK, \A s \in Runs : StillGood(s),
         NEW r \in Runs, Broadcast(r), UNCHANGED vars
  PROVE  /\ tx' \in [Runs -> {"none", "pending", "success", "reverted"}]
         /\ seen' \in [Runs -> Cap]
         /\ \A s \in Runs : StillGood(s)'
<1>1. caps[RunKey[r]] \in Cap
  BY GateAssumption DEF GateTypeOK, TypeOK
<1>2. Fits(caps[RunKey[r]], RunAmount[r])
  BY AllowedFits DEF Broadcast
<1>3. /\ tx' \in [Runs -> {"none", "pending", "success", "reverted"}]
      /\ seen' \in [Runs -> Cap]
  BY <1>1 DEF GateTypeOK, Broadcast
<1>4. ASSUME NEW s \in Runs PROVE StillGood(s)'
  <2>1. tx'[s] = (IF s = r THEN "pending" ELSE tx[s])
        /\ seen'[s] = (IF s = r THEN caps[RunKey[r]] ELSE seen[s])
    BY DEF GateTypeOK, Broadcast
  <2>2. StillGood(s) /\ now' = now
    BY DEF vars
  <2>3. PICK c \in Cap : c = IF s = r THEN caps[RunKey[r]] ELSE seen[s]
    BY <1>1 DEF GateTypeOK
  <2>4. tx'[s] = "pending" => Fits(c, RunAmount[s])
    BY <1>2, <2>1, <2>2, <2>3 DEF StillGood
  <2>5. Fits(c, RunAmount[s])' <=> Fits(c, RunAmount[s])
    BY <2>2, FitsAtOneTime
  <2>6. seen'[s] = c
    BY <2>1, <2>3
  <2> QED
    BY <2>4, <2>5, <2>6 DEF StillGood, Fits, RolledOver, PeriodEnd, ElapsedPeriods
<1> QED
  BY <1>3, <1>4

\* The gate's own variables, and what the pending spends rely on.
OwnInv ==
  /\ step \in [Runs -> Steps]
  /\ outcome \in [Runs -> Outcomes]
  /\ tx \in [Runs -> {"none", "pending", "success", "reverted"}]
  /\ seen \in [Runs -> Cap]
  /\ \A r \in Runs : outcome[r] # "none" <=> step[r] = "done"
  /\ \A r \in Runs : StillGood(r)

LEMMA GateInvParts == GateInv <=> IInv /\ OwnInv
  BY DEF GateInv, OwnInv, GateTypeOK, IInv

LEMMA InitGateInv == GateInit => GateInv
<1> SUFFICES ASSUME GateInit PROVE IInv /\ OwnInv
  BY GateInvParts
<1>1. IInv
  BY InitIInv DEF GateInit
<1>2. NoCap \in Cap
  BY SpendCapAssumption DEF NoCap, Cap, Time
<1> QED
  BY <1>1, <1>2 DEF GateInit, OwnInv, StillGood, Steps, Outcomes

\* A run moves on and leaves the chain alone.
LEMMA SettleGateInv ==
  ASSUME IInv, OwnInv, NEW r \in Runs, Settle(r)
  PROVE  OwnInv' /\ UNCHANGED vars
<1>1. UNCHANGED vars
  BY DEF Settle, ReadFails, ReadCap, Simulate, Write, EnforceFails, Receipt
<1>2. /\ step' \in [Runs -> Steps]
      /\ outcome' \in [Runs -> Outcomes]
      /\ \A s \in Runs : outcome'[s] # "none" <=> step'[s] = "done"
  <2>1. CASE \E result \in Outcomes \ {"none"} : Return(r, result)
    BY <2>1 DEF Return, OwnInv, Steps, Outcomes
  <2>2. CASE /\ step[r] # "done" /\ UNCHANGED outcome
             /\ GoTo(r, "simulate") \/ GoTo(r, "write") \/ GoTo(r, "wait")
    BY <2>2 DEF GoTo, OwnInv, Steps, Outcomes
  <2>3. ReadFails(r) \/ EnforceFails(r) \/ Receipt(r)
          => \E result \in Outcomes \ {"none"} : Return(r, result)
    <3>1. {"threw", "enforce_failed", "enforced"} \subseteq Outcomes \ {"none"}
      BY DEF Outcomes, Reasons
    <3> QED
      BY <3>1 DEF ReadFails, EnforceFails, Receipt
  <2>4. Simulate(r) => /\ step[r] # "done" /\ UNCHANGED outcome
                       /\ GoTo(r, "write")
    BY DEF Simulate
  <2>5. Write(r) => /\ step[r] # "done" /\ UNCHANGED outcome
                    /\ GoTo(r, "wait")
    BY DEF Write, Broadcast
  <2>6. ReadCap(r) => \/ \E result \in Outcomes \ {"none"} : Return(r, result)
                      \/ /\ step[r] # "done" /\ UNCHANGED outcome
                         /\ GoTo(r, "simulate")
    <3>1. {"cap_not_found", "cap_revoked", "cap_exceeded", "ok"}
            \subseteq Outcomes \ {"none"}
      BY DEF Outcomes, Reasons
    <3> QED
      BY <3>1 DEF ReadCap
  <2> QED
    BY <2>1, <2>2, <2>3, <2>4, <2>5, <2>6 DEF Settle
<1>3. CASE Broadcast(r)
  <2>1. GateTypeOK /\ \A s \in Runs : StillGood(s)
    BY DEF IInv, OwnInv, GateTypeOK
  <2> QED
    BY <1>1, <1>2, <1>3, <2>1, BroadcastGood DEF OwnInv
<1>4. CASE UNCHANGED <<tx, seen>>
  <2>1. \A s \in Runs : StillGood(s)'
    BY <1>1, <1>4 DEF vars, OwnInv, StillGood, Fits, RolledOver, PeriodEnd, ElapsedPeriods
  <2> QED
    BY <1>1, <1>2, <1>4, <2>1 DEF OwnInv
<1>5. Broadcast(r) \/ UNCHANGED <<tx, seen>>
  BY DEF Settle, ReadFails, ReadCap, Simulate, Write, EnforceFails, Receipt
<1> QED
  BY <1>1, <1>3, <1>4, <1>5

\* A pending spend is mined: it is pending no longer.
LEMMA MineGateInv ==
  ASSUME IInv, OwnInv, NEW r \in Runs, MineSuccess(r) \/ MineRevert(r)
  PROVE  IInv' /\ OwnInv'
<1>1. IInv'
  <2>1. CASE MineSuccess(r)
    <3>1. /\ RunKey[r] \in Keys /\ RunAmount[r] \in Nat
          /\ RunKey[r].account \in Principals
      BY GateAssumption, SpendCapAssumption DEF Keys
    <3> QED
      BY <2>1, <3>1, SpendIInv DEF MineSuccess
  <2>2. CASE MineRevert(r)
    BY <2>2, NextIInv DEF MineRevert
  <2> QED
    BY <2>1, <2>2
<1>2. /\ UNCHANGED <<now, step, outcome, seen>>
      /\ tx' \in [Runs -> {"none", "pending", "success", "reverted"}]
      /\ \A s \in Runs : tx'[s] = "pending" => tx[s] = "pending"
  BY DEF OwnInv, MineSuccess, MineRevert, SpendPermission, vars
<1>3. \A s \in Runs : StillGood(s)'
  BY <1>2 DEF OwnInv, StillGood, Fits, RolledOver, PeriodEnd, ElapsedPeriods
<1> QED
  BY <1>1, <1>2, <1>3 DEF OwnInv

\* The owner, the account or the clock acts.
LEMMA ChainGateInv ==
  ASSUME IInv, OwnInv, [Next]_vars, UNCHANGED gateVars
  PROVE  OwnInv'
<1>1. Tick \/ UNCHANGED now
  BY DEF Next, ScopedCall, LegacyCall, Grant, Revoke, Spend,
         GrantPermission, RevokePermission, SpendPermission, vars
<1>2. ASSUME NEW r \in Runs PROVE StillGood(r)'
  <2>1. PICK cap \in Cap : cap = seen[r]
    BY DEF OwnInv
  <2>2. RunAmount[r] \in Nat /\ now \in Time
    BY GateAssumption DEF IInv, TypeOK
  <2>3. tx[r] = "pending" => Fits(cap, RunAmount[r])
    BY <2>1 DEF OwnInv, StillGood
  <2>4. Fits(cap, RunAmount[r]) => Fits(cap, RunAmount[r])'
    BY <1>1, <2>2, FitsForLong, FitsAtOneTime
  <2>5. seen'[r] = cap /\ tx'[r] = tx[r]
    BY <2>1 DEF gateVars
  <2> QED
    BY <2>3, <2>4, <2>5 DEF StillGood, Fits, RolledOver, PeriodEnd, ElapsedPeriods
<1> QED
  BY <1>2 DEF OwnInv, gateVars

LEMMA GateStep ==
  ASSUME GateInv, [GateNext]_allVars
  PROVE  GateInv'
<1> SUFFICES IInv' /\ OwnInv'
  BY GateInvParts, PTL
<1>1. IInv /\ OwnInv
  BY GateInvParts
<1>2. ASSUME NEW r \in Runs, Settle(r) PROVE IInv' /\ OwnInv'
  BY <1>1, <1>2, SettleGateInv, NextIInv
<1>3. ASSUME NEW r \in Runs, MineSuccess(r) \/ MineRevert(r) PROVE IInv' /\ OwnInv'
  BY <1>1, <1>3, MineGateInv
<1>4. CASE [Next]_vars /\ UNCHANGED gateVars
  BY <1>1, <1>4, ChainGateInv, NextIInv
<1> QED
  BY <1>2, <1>3, <1>4 DEF GateNext, allVars

-----------------------------------------------------------------------------

\* Whatever any number of gated runs do, together or with the caps' owners: the
\* types, what the caps accounted for, and a pending spend that stays payable on
\* the cap it was broadcast on.
THEOREM GateInductive == GateSpec => []GateInv
<1>1. GateInv /\ [GateNext]_allVars => GateInv'
  BY GateStep
<1> QED
  BY <1>1, InitGateInv, PTL DEF GateSpec

\* A cap's debits stay within its maximum in every period, counted from its
\* grant, when they come through checkSpendCap too.
THEOREM GateWindowBound == GateSpec => []WindowBound
<1>1. GateInv => WindowBound
  BY DEF GateInv, IInv, KeyInv, WindowBound
<1> QED
  BY <1>1, GateInductive, PTL

\* They agree while gates spend, too: what checkSpendCap reads of a cap at any moment
\* is what the contract would pay from it then.
THEOREM GateViewMatches == GateSpec => []ViewMatchesSpend
<1>1. GateInv => ViewMatchesSpend
  BY ViewMatches DEF GateInv
<1> QED
  BY <1>1, GateInductive, PTL

\* No spend of the gate, broadcast before a revocation or an expiry and mined
\* after it, debits the dead cap.
THEOREM GateDeadCapIsInert == GateSpec => DeadCapIsInert
<1>1. ASSUME GateInv, [GateNext]_allVars PROVE \A k \in Keys : Inert(k)
  <2>0. IInv /\ OwnInv /\ TypeOK
    BY <1>1, GateInvParts DEF IInv
  <2>1. ASSUME NEW r \in Runs, Settle(r) PROVE \A k \in Keys : Inert(k)
    BY <2>0, <2>1, SettleGateInv, NextIsInert
  <2>2. ASSUME NEW r \in Runs, MineSuccess(r) PROVE \A k \in Keys : Inert(k)
    BY <2>0, <2>2, CallIsInert, GateAssumption DEF MineSuccess, ContractCall
  <2>3. ASSUME NEW r \in Runs, MineRevert(r) PROVE \A k \in Keys : Inert(k)
    BY <2>0, <2>3, NextIsInert DEF MineRevert
  <2>4. CASE [Next]_vars
    BY <2>0, <2>4, NextIsInert
  <2> QED
    BY <1>1, <2>1, <2>2, <2>3, <2>4 DEF GateNext, allVars
<1>2. GateInv /\ [GateNext]_allVars => [\A k \in Keys : Inert(k)]_vars
  BY <1>1
<1> QED
  BY <1>2, GateInductive, PTL DEF GateSpec, DeadCapIsInert, Inert

\* A spend of the gate that is mined as a revert finds a cap somebody changed
\* since it was broadcast, or one that expired.  Neither the passing of time, nor
\* a period that ends, nor a change that was undone makes a good spend fail.
THEOREM GateRevertHasACause == GateSpec => RevertHasACause
<1> DEFINE Cause(r) == tx[r] = "pending" /\ tx'[r] = "reverted" =>
                         caps[RunKey[r]] # seen[r] \/ Expired(caps[RunKey[r]])
<1>1. ASSUME GateInv, [GateNext]_allVars, NEW r \in Runs PROVE Cause(r)
  <2>1. SUFFICES ASSUME tx[r] = "pending", tx'[r] = "reverted"
                 PROVE  caps[RunKey[r]] # seen[r] \/ Expired(caps[RunKey[r]])
    OBVIOUS
  <2>2. MineRevert(r)
    BY <1>1, <2>1
       DEF GateInv, GateTypeOK, GateNext, allVars, gateVars, Settle, ReadFails, ReadCap,
           Simulate, Write, EnforceFails, Receipt, Broadcast, MineSuccess, MineRevert
  <2>3. Fits(seen[r], RunAmount[r])
    BY <1>1, <2>1 DEF GateInv, StillGood
  <2> QED
    BY <2>2, <2>3, AllowedFits DEF MineRevert
<1>2. GateInv /\ [GateNext]_allVars => [\A r \in Runs : Cause(r)]_allVars
  BY <1>1
<1> QED
  BY <1>2, GateInductive, PTL DEF GateSpec, RevertHasACause

\* Nobody changes a cap while a run's spend of it is pending, and it does not expire.
Unraced ==
  \A r \in Runs : tx[r] = "pending" => caps[RunKey[r]] = seen[r] /\ ~Expired(caps[RunKey[r]])

\* The race is all there is to the defect of EnforcedMeansDebited: checkSpendCap does not
\* look at the status of the receipt, but where no spend that it waits for is outrun
\* by another change of its cap, whoever is told ok, enforced has debited the cap.
THEOREM GateEnforcedUnlessRaced == GateSpec /\ []Unraced => []EnforcedMeansDebited
<1> DEFINE Good ==
      \A r \in Runs : tx[r] # "reverted" /\ (outcome[r] = "enforced" => tx[r] = "success")
<1>1. ASSUME GateInit PROVE Good
  BY <1>1 DEF GateInit
<1>2. ASSUME GateInv, Unraced, Good, [GateNext]_allVars PROVE Good'
  <2> SUFFICES ASSUME NEW r \in Runs
               PROVE  (tx[r] # "reverted" /\ (outcome[r] = "enforced" => tx[r] = "success"))'
    OBVIOUS
  <2>1. /\ tx \in [Runs -> {"none", "pending", "success", "reverted"}]
        /\ outcome \in [Runs -> Outcomes] /\ tx[r] # "reverted"
        /\ outcome[r] = "enforced" => tx[r] = "success"
        /\ outcome[r] # "none" <=> step[r] = "done"
    BY <1>2 DEF GateInv, GateTypeOK
  <2>2. ASSUME NEW s \in Runs, MineRevert(s) PROVE FALSE
    <3>1. Fits(caps[RunKey[s]], RunAmount[s]) /\ ~Expired(caps[RunKey[s]])
      BY <1>2, <2>2 DEF Unraced, GateInv, StillGood, MineRevert
    <3> QED
      BY <2>2, <3>1, AllowedFits DEF MineRevert
  <2>3. ASSUME NEW s \in Runs, MineSuccess(s)
        PROVE  /\ outcome' = outcome /\ tx'[r] = IF r = s THEN "success" ELSE tx[r]
    BY <2>1, <2>3 DEF MineSuccess
  <2>4. ASSUME NEW s \in Runs, Settle(s)
        PROVE  /\ tx'[r] \in {tx[r], "pending"}
               /\ outcome'[r] = "enforced" => outcome[r] = "enforced" \/ tx[r] = "success"
               /\ tx'[r] # tx[r] => step[r] = "write" /\ outcome'[r] # "enforced"
    <3>1. CASE Receipt(s)
      <4>1. tx[s] = "success"
        BY <1>2, <3>1 DEF Receipt
      <4> QED
        BY <2>1, <3>1, <4>1 DEF Receipt, Return
    <3>2. CASE Write(s)
      BY <2>1, <3>2 DEF Write, Broadcast, GoTo
    <3>3. CASE EnforceFails(s)
      BY <2>1, <3>3 DEF EnforceFails, Broadcast, Return
    <3>4. CASE ReadFails(s) \/ ReadCap(s) \/ Simulate(s)
      BY <2>1, <3>4 DEF ReadFails, ReadCap, Simulate, Return, GoTo
    <3> QED
      BY <2>4, <3>1, <3>2, <3>3, <3>4 DEF Settle
  <2>5. CASE UNCHANGED gateVars
    BY <2>1, <2>5 DEF gateVars
  <2> QED
    BY <1>2, <2>1, <2>2, <2>3, <2>4, <2>5 DEF GateNext, allVars
<1>3. Good => EnforcedMeansDebited
  BY DEF EnforcedMeansDebited
<1> QED
  BY <1>1, <1>2, <1>3, GateInductive, PTL DEF GateSpec

-----------------------------------------------------------------------------
(* Batches of delegations                                                  *)

\* A cap that was granted has a period, which began before now.
CapSane(cap) ==
  cap.maxPerPeriod # 0 => cap.periodLength > 0 /\ cap.currentPeriodStart <= now

\* A cap that has been rolled over is in the period of the clock.
LEMMA RolledCap ==
  ASSUME now \in Time, NEW cap \in Cap, cap.maxPerPeriod # 0, CapSane(cap)
  PROVE  /\ RolledOver(cap) \in Cap
         /\ RolledOver(cap).maxPerPeriod = cap.maxPerPeriod
         /\ RolledOver(cap).periodLength = cap.periodLength
         /\ RolledOver(cap).expiresAt = cap.expiresAt
         /\ RolledOver(cap).revoked = cap.revoked
         /\ RolledOver(cap).currentPeriodStart <= now
         /\ now < RolledOver(cap).currentPeriodStart + cap.periodLength
<1>1. /\ now \in Nat /\ cap.currentPeriodStart \in Nat /\ cap.periodLength \in Nat \ {0}
      /\ cap.currentPeriodStart <= now /\ now <= MaxTime /\ MaxTime \in Nat
  BY SpendCapAssumption DEF CapSane, Cap, Time
<1>2. CASE now >= PeriodEnd(cap)
  <2> DEFINE d == now - cap.currentPeriodStart
             b == cap.periodLength
             e == d \div b
             t == cap.currentPeriodStart + e * b
  <2>1. d \in Nat /\ b \in Nat \ {0}
    BY <1>1
  <2>2. e * b \in Nat /\ e * b <= d /\ d < e * b + b
    <3> HIDE DEF d, b
    <3>1. e \in Nat /\ e * b <= d /\ d < e * b + b
      BY <2>1, DivBounds
    <3> QED
      BY <2>1, <3>1
  <2>3. t \in Nat /\ t <= now /\ now < t + b
    <3> DEFINE f == e * b
    <3>1. f \in Nat /\ f <= d /\ d < f + b
      BY <2>2
    <3> HIDE DEF f, e
    <3> QED
      BY <1>1, <3>1 DEF f
  <2>4. t \in Time
    BY <1>1, <2>3 DEF Time
  <2>5. RolledOver(cap) = [cap EXCEPT !.currentPeriodStart = t, !.consumed = 0]
    BY <1>2 DEF RolledOver, ElapsedPeriods, Cap
  <2> HIDE DEF t, b
  <2>6. PICK start \in Time : start = t
    BY <2>4
  <2>7. LET new == [cap EXCEPT !.currentPeriodStart = start, !.consumed = 0]
        IN  /\ new \in Cap
            /\ new.consumed = 0
            /\ new.maxPerPeriod = cap.maxPerPeriod
            /\ new.periodLength = cap.periodLength
            /\ new.currentPeriodStart = start
            /\ new.expiresAt = cap.expiresAt
            /\ new.revoked = cap.revoked
    BY WithPeriod
  <2>8. RolledOver(cap) = [cap EXCEPT !.currentPeriodStart = start, !.consumed = 0]
    BY <2>5, <2>6
  <2> QED
    BY <2>3, <2>6, <2>7, <2>8 DEF b
<1>3. CASE ~(now >= PeriodEnd(cap))
  <2>1. RolledOver(cap) = cap
    BY <1>3 DEF RolledOver
  <2> QED
    BY <1>1, <1>3, <2>1 DEF PeriodEnd
<1> QED
  BY <1>2, <1>3

\* What spendPermission writes is in the period of the clock, and stays as it is when
\* it is rolled over again.
LEMMA SpentCap ==
  ASSUME now \in Time, NEW cap \in Cap, cap.maxPerPeriod # 0, CapSane(cap), NEW n \in Nat
  PROVE  LET new == [RolledOver(cap) EXCEPT !.consumed = n]
         IN  /\ new \in Cap /\ CapSane(new) /\ RolledOver(new) = new
             /\ new.consumed = n /\ new.maxPerPeriod = cap.maxPerPeriod
             /\ new.expiresAt = cap.expiresAt /\ new.revoked = cap.revoked
<1>1. PICK c \in Cap : c = RolledOver(cap)
  BY RolledCap
<1> DEFINE new == [c EXCEPT !.consumed = n]
<1>2. /\ new \in Cap /\ new.consumed = n /\ new.maxPerPeriod = c.maxPerPeriod
      /\ new.periodLength = c.periodLength /\ new.currentPeriodStart = c.currentPeriodStart
      /\ new.expiresAt = c.expiresAt /\ new.revoked = c.revoked
  BY DEF Cap
<1> HIDE DEF new
<1>3. /\ c.maxPerPeriod = cap.maxPerPeriod /\ c.periodLength = cap.periodLength
      /\ c.expiresAt = cap.expiresAt /\ c.revoked = cap.revoked
      /\ c.currentPeriodStart <= now /\ now < c.currentPeriodStart + cap.periodLength
  BY <1>1, RolledCap
<1>4. now \in Nat /\ c.currentPeriodStart \in Nat /\ cap.periodLength \in Nat \ {0}
  BY SpendCapAssumption DEF CapSane, Cap, Time
<1>5. RolledOver(new) = new
  BY <1>2, <1>3, <1>4 DEF RolledOver, PeriodEnd
<1>6. CapSane(new)
  BY <1>2, <1>3, <1>4 DEF CapSane
<1> QED
  BY <1>1, <1>2, <1>3, <1>5, <1>6 DEF new

\* The instant decides how a cap is judged, and nothing else of the state.
LEMMA SameTime ==
  ASSUME NEW cap, UNCHANGED now
  PROVE  /\ RolledOver(cap)' = RolledOver(cap)
         /\ Expired(cap)' <=> Expired(cap)
         /\ CapSane(cap)' <=> CapSane(cap)
  BY DEF RolledOver, PeriodEnd, ElapsedPeriods, Expired, CapSane

CapsInv == TypeOK /\ \A k \in Keys : CapSane(caps[k])

LEMMA GrantSane ==
  ASSUME CapsInv, NEW caller \in Principals, NEW k \in Keys,
         NEW max \in Nat, NEW length \in Nat, NEW expiry \in Nat,
         GrantPermission(caller, k, max, length, expiry)
  PROVE  CapsInv'
<1>1. TypeOK'
  BY SpendCapAssumption DEF CapsInv, TypeOK, GrantPermission, Cap, NoDebits, Time
<1>2. ASSUME NEW l \in Keys PROVE CapSane(caps[l])'
  BY SpendCapAssumption DEF CapsInv, TypeOK, GrantPermission, CapSane, Time
<1> QED
  BY <1>1, <1>2 DEF CapsInv

LEMMA RevokeSane ==
  ASSUME CapsInv, NEW caller \in Principals, NEW k \in Keys, RevokePermission(caller, k)
  PROVE  CapsInv'
<1>1. TypeOK'
  BY DEF CapsInv, TypeOK, RevokePermission, Cap
<1>2. ASSUME NEW l \in Keys PROVE CapSane(caps[l])'
  BY DEF CapsInv, TypeOK, RevokePermission, CapSane, Cap
<1> QED
  BY <1>1, <1>2 DEF CapsInv

\* What a debit leaves of the cap it is taken from.
LEMMA SpendWrites ==
  ASSUME CapsInv, NEW caller, NEW k \in Keys, NEW amount \in Nat,
         SpendPermission(caller, k, amount)
  PROVE  /\ caps[k].maxPerPeriod # 0 /\ ~caps[k].revoked /\ ~Expired(caps[k])
         /\ caps'[k] \in Cap /\ CapSane(caps'[k])
         /\ RolledOver(caps'[k]).consumed = RolledOver(caps[k]).consumed + amount
         /\ RolledOver(caps'[k]).consumed <= caps[k].maxPerPeriod
         /\ caps'[k].maxPerPeriod = caps[k].maxPerPeriod
         /\ caps'[k].expiresAt = caps[k].expiresAt
         /\ caps'[k].revoked = caps[k].revoked
         /\ \A l \in Keys \ {k} : caps'[l] = caps[l]
         /\ UNCHANGED <<capOwner, now>>
<1>1. PICK cap \in Cap : cap = caps[k]
  BY DEF CapsInv, TypeOK
<1>2. now \in Time /\ CapSane(cap) /\ cap.maxPerPeriod # 0 /\ ~cap.revoked /\ ~Expired(cap)
  BY <1>1 DEF CapsInv, TypeOK, SpendPermission, SpendAllowed
<1>3. PICK c \in Cap : c = RolledOver(cap)
  BY <1>2, RolledCap
<1>4. amount <= c.maxPerPeriod - c.consumed /\ c.maxPerPeriod = cap.maxPerPeriod
  BY <1>1, <1>2, <1>3, RolledCap DEF SpendPermission, SpendAllowed
<1>5. PICK n \in Nat : n = c.consumed + amount
  BY DEF Cap
<1>6. caps' = [caps EXCEPT ![k] = [RolledOver(cap) EXCEPT !.consumed = n]]
  BY <1>1, <1>3, <1>5 DEF SpendPermission, Cap
<1>7. PICK new : new = [RolledOver(cap) EXCEPT !.consumed = n]
  OBVIOUS
<1>8. /\ new \in Cap /\ CapSane(new) /\ RolledOver(new) = new
      /\ new.consumed = n /\ new.maxPerPeriod = cap.maxPerPeriod
      /\ new.expiresAt = cap.expiresAt /\ new.revoked = cap.revoked
  BY <1>2, <1>7, SpentCap
<1>9. caps'[k] = new /\ \A l \in Keys \ {k} : caps'[l] = caps[l]
  BY <1>6, <1>7 DEF CapsInv, TypeOK
<1>10. UNCHANGED <<capOwner, now>>
  BY DEF SpendPermission
<1>11. n <= cap.maxPerPeriod
  BY <1>4, <1>5 DEF Cap
<1> QED
  BY <1>1, <1>2, <1>3, <1>5, <1>8, <1>9, <1>10, <1>11

LEMMA SpendSane ==
  ASSUME CapsInv, NEW caller \in Principals, NEW k \in Keys, NEW amount \in Nat,
         SpendPermission(caller, k, amount)
  PROVE  CapsInv'
<1>1. /\ caps'[k] \in Cap /\ CapSane(caps'[k]) /\ \A l \in Keys \ {k} : caps'[l] = caps[l]
      /\ UNCHANGED <<capOwner, now>>
  BY SpendWrites
<1>2. caps' \in [Keys -> Cap]
  BY <1>1 DEF CapsInv, TypeOK, SpendPermission
<1>3. windowDebits' \in [Keys -> [Time -> Nat]]
  <2>1. PICK w : w = WindowNow(k)
    OBVIOUS
  <2>2. windowDebits[k] \in [Time -> Nat]
    BY DEF CapsInv, TypeOK
  <2>3. ASSUME NEW f \in [Time -> Nat] PROVE [f EXCEPT ![w] = f[w] + amount] \in [Time -> Nat]
    <3>1. CASE w \in Time
      <4>1. f[w] + amount \in Nat
        BY <3>1
      <4> QED
        BY <4>1
    <3>2. CASE w \notin Time
      <4>1. \A v : [f EXCEPT ![w] = v] = f
        BY <3>2
      <4> QED
        BY <4>1
    <3> QED
      BY <3>1, <3>2
  <2>4. windowDebits' = [windowDebits EXCEPT ![k] =
                           [windowDebits[k] EXCEPT ![w] = windowDebits[k][w] + amount]]
    BY <2>1 DEF SpendPermission
  <2> QED
    BY <2>2, <2>3, <2>4 DEF CapsInv, TypeOK
<1>4. TypeOK'
  BY <1>1, <1>2, <1>3 DEF CapsInv, TypeOK, SpendPermission
<1>5. ASSUME NEW l \in Keys PROVE CapSane(caps[l])'
  BY <1>1 DEF CapsInv, CapSane
<1> QED
  BY <1>4, <1>5 DEF CapsInv

LEMMA TickSane == CapsInv /\ Tick => CapsInv'
<1> SUFFICES ASSUME CapsInv, Tick PROVE CapsInv'
  OBVIOUS
<1>1. UNCHANGED <<caps, capOwner, grantedAt, windowDebits>>
  BY DEF Tick, capVars
<1>2. now' \in Time /\ now' = now + 1 /\ now \in Nat
  BY SpendCapAssumption DEF CapsInv, TypeOK, Tick, Time
<1>3. TypeOK'
  BY <1>1, <1>2 DEF CapsInv, TypeOK
<1>4. ASSUME NEW k \in Keys PROVE CapSane(caps[k])'
  <2>1. PICK cap \in Cap : cap = caps[k]
    BY DEF CapsInv, TypeOK
  <2>2. cap.currentPeriodStart \in Nat
    BY SpendCapAssumption DEF Cap, Time
  <2>3. CapSane(cap)
    BY <2>1 DEF CapsInv
  <2> QED
    BY <1>1, <1>2, <2>1, <2>2, <2>3 DEF CapSane
<1> QED
  BY <1>3, <1>4 DEF CapsInv

-----------------------------------------------------------------------------

\* The delegations a batch stands for: those used up, and those of them that are
\* debited already, if they ask for it.
InHand(b) == IF b.phase = "next" THEN b.done ELSE b.done \cup {b.item.delegation}
Paying(b) == IF b.phase = "execute" THEN b.done \cup {b.item.delegation} ELSE b.done

OnCap(D, k) == {d \in D : d.asset # NoAsset /\ CapKey(d) = k}
Debits(D, k) == SumOver(OnCap(D, k), MaxAmounts)
Delegators(D) == {d.delegator : d \in D}

\* What became of a cap: it is as it was, with no less consumed than was debited, and
\* it could pay that.
Follows(old, new, D, k) ==
  /\ new.maxPerPeriod = old.maxPerPeriod
  /\ new.expiresAt = old.expiresAt
  /\ new.revoked = old.revoked
  /\ RolledOver(new).consumed >= RolledOver(old).consumed + Debits(D, k)
  /\ OnCap(D, k) # {} =>
       ~old.revoked /\ ~Expired(old) /\ RolledOver(new).consumed <= old.maxPerPeriod

\* No wallet of the batch may grant or revoke a cap that another one owns.
CapsFollow(b) ==
  \A k \in Keys :
    b.saved.capOwner[k] \notin Delegators(InHand(b)) \cup {NoOwner} =>
      /\ capOwner[k] = b.saved.capOwner[k]
      /\ Follows(b.saved.caps[k], caps[k], Paying(b), k)

\* Each delegation of the batch is good, new and of its own salt, and used up.
Promised(b) ==
  /\ \A d \in InHand(b) : /\ <<nftOwner[d.delegator], d>> \in signed
                         /\ now <= d.expiresAt
                         /\ Salted(d) \notin b.saved.redeemed
  /\ \A d, e \in InHand(b) : Salted(d) = Salted(e) => d = e
  /\ redeemed = b.saved.redeemed \cup {Salted(d) : d \in InHand(b)}

\* The wallets have paid what the executed ones allow, at most.
Paid(b) ==
  \A w \in Accounts : b.saved.native[w] - native[w] \in 0 .. Promise!Allowance(b.done, w)

Going(b) ==
  /\ b.phase # "next" => /\ b.item \in Executions
                         /\ b.item.delegation \notin b.done
                         /\ b.item.value <= b.item.delegation.maxValue
  /\ b.phase = "debit" => b.item.delegation.asset # NoAsset
  /\ IsFiniteSet(b.done)
  /\ \A k \in Keys : CapSane(b.saved.caps[k])
  /\ CapsFollow(b) /\ Promised(b) /\ Paid(b)

\* The types of the wallets' and the manager's own state.
OwnTypes ==
  /\ nftOwner \in [Accounts -> Owners \cup {Nobody}]
  /\ manager \in [Accounts -> {ThisManager, OtherManager, NoManager}]
  /\ locked \in [Accounts -> BOOLEAN]
  /\ signed \subseteq Owners \X Delegations
  /\ redeemed \subseteq {Salted(d) : d \in Delegations}
  /\ native \in [Accounts -> 0 .. Funds]
  /\ batch \in Batches \cup {NoBatch}

BatchInv ==
  /\ CapsInv /\ OwnTypes
  /\ batch # NoBatch => Going(batch)

\* What the record of a batch holds.
LEMMA BatchParts ==
  ASSUME NEW b \in Batches
  PROVE  /\ b.phase \in {"next", "debit", "execute"} /\ b.done \subseteq Delegations
         /\ b.caller \in Principals /\ b.item \in Executions \cup {NoBatch}
         /\ b.saved.caps \in [Keys -> Cap]
         /\ b.saved.capOwner \in [Keys -> Principals \cup {NoOwner}]
         /\ b.saved.grantedAt \in [Keys -> Time]
         /\ b.saved.windowDebits \in [Keys -> [Time -> Nat]]
         /\ b.saved.redeemed \subseteq {Salted(d) : d \in Delegations}
         /\ b.saved.native \in [Accounts -> 0 .. Funds]
<1>1. /\ b.phase \in {"next", "debit", "execute"} /\ b.done \subseteq Delegations
      /\ b.caller \in Principals /\ b.item \in Executions \cup {NoBatch}
      /\ b.saved \in States
  BY DEF Batches
<1> QED
  BY <1>1 DEF States

LEMMA ItemParts ==
  ASSUME NEW item \in Executions
  PROVE  /\ item.delegation \in Delegations /\ item.value \in Nat
         /\ item.delegation.delegator \in Accounts
         /\ item.delegation.maxAmount \in Nat /\ item.delegation.maxValue \in Nat
         /\ item.delegation.asset # NoAsset => CapKey(item.delegation) \in Keys
<1>1. item.delegation \in Delegations /\ item.value \in Values
  BY DEF Executions
<1> QED
  BY <1>1, DelegationAssumption DEF CapKey, Keys

\* What a delegation adds to the debits of its cap.
LEMMA DebitAdds ==
  ASSUME NEW D \in SUBSET Delegations, IsFiniteSet(D), NEW d \in Delegations \ D, NEW k
  PROVE  /\ Debits(D, k) \in Nat
         /\ d.asset = NoAsset \/ CapKey(d) # k => OnCap(D \cup {d}, k) = OnCap(D, k)
         /\ d.asset # NoAsset /\ CapKey(d) = k =>
              Debits(D \cup {d}, k) = Debits(D, k) + d.maxAmount
<1>1. \A e \in Delegations : MaxAmounts[e] = e.maxAmount /\ MaxAmounts[e] \in Nat
  BY DelegationAssumption DEF MaxAmounts
<1>2. /\ OnCap(D, k) \subseteq Delegations /\ IsFiniteSet(OnCap(D, k))
      /\ IsFiniteSet(D \cup {d})
  BY FS_Subset, FS_AddElement DEF OnCap
<1>3. Debits(D, k) \in Nat
  BY <1>1, <1>2, SumNat DEF Debits
<1>4. ASSUME d.asset # NoAsset, CapKey(d) = k
      PROVE  Debits(D \cup {d}, k) = Debits(D, k) + d.maxAmount
  <2> DEFINE S == OnCap(D \cup {d}, k)
  <2>1. d \in S /\ S \ {d} = OnCap(D, k) /\ S \subseteq Delegations
    BY <1>4 DEF OnCap
  <2>2. IsFiniteSet(S)
    BY <1>2, FS_Subset DEF OnCap
  <2> HIDE DEF S
  <2>3. SumOver(S, MaxAmounts) = MaxAmounts[d] + SumOver(S \ {d}, MaxAmounts)
    BY <1>1, <2>1, <2>2, SumTake
  <2>4. Debits(D \cup {d}, k) = MaxAmounts[d] + Debits(D, k)
    BY <2>1, <2>3, Zenon DEF Debits, S
  <2>5. MaxAmounts[d] = d.maxAmount /\ d.maxAmount \in Nat
    BY <1>1
  <2> QED
    BY <1>3, <2>4, <2>5
<1>5. d.asset = NoAsset \/ CapKey(d) # k => OnCap(D \cup {d}, k) = OnCap(D, k)
  BY DEF OnCap
<1> QED
  BY <1>3, <1>4, <1>5

\* The finite sets of the instance are the finite sets.
LEMMA PromiseFinite == \A S : Promise!IsFiniteSet(S) <=> IsFiniteSet(S)
  BY Zenon DEF Promise!IsFiniteSet, IsFiniteSet

\* The abstract promise sums as this module does.
LEMMA PromiseSums == \A S, f : Promise!SumOver(S, f) = SumOver(S, f)
  BY Zenon DEF Promise!SumOver, Promise!MapThenSumSet, Promise!MapThenFoldSet,
               SumOver, MapThenSumSet, MapThenFoldSet

\* What a delegation adds to the allowance of a wallet.
LEMMA AllowanceAdds ==
  ASSUME NEW D \in SUBSET Delegations, IsFiniteSet(D), NEW d \in Delegations \ D, NEW w
  PROVE  /\ Promise!Allowance(D, w) \in Nat
         /\ Promise!Allowance(D \cup {d}, w) =
              Promise!Allowance(D, w) + (IF d.delegator = w THEN d.maxValue ELSE 0)
<1> DEFINE F == [e \in Delegations |-> e.maxValue]
           Of(E) == {e \in E : e.delegator = w}
<1>0. \A E : Promise!Allowance(E, w) = SumOver(Of(E), F)
  BY PromiseSums, Zenon DEF Promise!Allowance, Promise!MaxValues
<1>1. \A e \in Delegations : F[e] = e.maxValue /\ F[e] \in Nat
  BY DelegationAssumption
<1>2. /\ Of(D) \subseteq Delegations /\ IsFiniteSet(Of(D)) /\ IsFiniteSet(D \cup {d})
  BY FS_Subset, FS_AddElement
<1> HIDE DEF F
<1>3. SumOver(Of(D), F) \in Nat
  BY <1>1, <1>2, SumNat
<1>4. CASE d.delegator = w
  <2> DEFINE S == Of(D \cup {d})
  <2>1. d \in S /\ S \ {d} = Of(D) /\ S \subseteq Delegations
    BY <1>4
  <2>2. IsFiniteSet(S)
    BY <1>2, FS_Subset
  <2> HIDE DEF S
  <2>3. SumOver(S, F) = F[d] + SumOver(S \ {d}, F)
    BY <1>1, <2>1, <2>2, SumTake
  <2> QED
    BY <1>0, <1>1, <1>3, <1>4, <2>1, <2>3 DEF S
<1>5. CASE d.delegator # w
  <2>1. Of(D \cup {d}) = Of(D)
    BY <1>5
  <2> QED
    BY <1>0, <1>3, <1>5, <2>1
<1> QED
  BY <1>4, <1>5

-----------------------------------------------------------------------------

LEMMA RolledNat == \A cap \in Cap : RolledOver(cap).consumed \in Nat
  BY DEF RolledOver, Cap

\* The instant decides what became of a cap, and nothing else of the state.
LEMMA SameFollows ==
  ASSUME NEW old, NEW new, NEW D, NEW k, UNCHANGED now
  PROVE  Follows(old, new, D, k)' <=> Follows(old, new, D, k)
<1>1. RolledOver(old)' = RolledOver(old) /\ RolledOver(new)' = RolledOver(new)
  BY SameTime
<1>2. Expired(old)' <=> Expired(old)
  BY SameTime
<1> QED
  BY <1>1, <1>2, Zenon DEF Follows

\* A cap of which nothing was asked follows itself.
LEMMA FollowsStart ==
  ASSUME NEW cap \in Cap, NEW k
  PROVE  Follows(cap, cap, {}, k)
<1>1. OnCap({}, k) = {} /\ Debits({}, k) = 0
  BY SumEmpty DEF OnCap, Debits
<1>2. RolledOver(cap).consumed \in Nat
  BY RolledNat
<1> QED
  BY <1>1, <1>2 DEF Follows

\* Delegations on other caps do not matter.
LEMMA FollowsOther ==
  ASSUME NEW old, NEW new, NEW D \in SUBSET Delegations, IsFiniteSet(D),
         NEW d \in Delegations \ D, NEW k, d.asset = NoAsset \/ CapKey(d) # k,
         Follows(old, new, D, k)
  PROVE  Follows(old, new, D \cup {d}, k)
<1>1. OnCap(D \cup {d}, k) = OnCap(D, k)
  BY DebitAdds
<1>2. Debits(D \cup {d}, k) = Debits(D, k)
  BY <1>1 DEF Debits
<1> QED
  BY <1>1, <1>2, Zenon DEF Follows

\* A debit takes the cap further, by what was debited.
LEMMA FollowsSpend ==
  ASSUME CapsInv, NEW old \in Cap, NEW D \in SUBSET Delegations, IsFiniteSet(D),
         NEW k \in Keys, Follows(old, caps[k], D, k),
         NEW caller, NEW amount \in Nat, SpendPermission(caller, k, amount)
  PROVE  /\ Follows(old, caps'[k], D, k)
         /\ ~old.revoked /\ ~Expired(old)
         /\ RolledOver(caps'[k]).consumed <= old.maxPerPeriod
         /\ RolledOver(caps'[k]).consumed >= RolledOver(old).consumed + Debits(D, k) + amount
<1>1. PICK new : new = caps'[k]
  OBVIOUS
<1>2. PICK cap \in Cap : cap = caps[k]
  BY DEF CapsInv, TypeOK
<1>3. /\ ~cap.revoked /\ ~Expired(cap)
      /\ new \in Cap
      /\ RolledOver(new).consumed = RolledOver(cap).consumed + amount
      /\ RolledOver(new).consumed <= cap.maxPerPeriod
      /\ new.maxPerPeriod = cap.maxPerPeriod
      /\ new.expiresAt = cap.expiresAt
      /\ new.revoked = cap.revoked
  BY <1>1, <1>2, SpendWrites
<1>4. /\ cap.maxPerPeriod = old.maxPerPeriod
      /\ cap.expiresAt = old.expiresAt
      /\ cap.revoked = old.revoked
      /\ RolledOver(cap).consumed >= RolledOver(old).consumed + Debits(D, k)
  BY <1>2 DEF Follows
<1>5. ~Expired(old)
  BY <1>3, <1>4 DEF Expired
<1>6. /\ RolledOver(cap).consumed \in Nat /\ RolledOver(old).consumed \in Nat
      /\ Debits(D, k) \in Nat
  <2>1. Debits(D, k) \in Nat
    <3>1. \A e \in OnCap(D, k) : MaxAmounts[e] \in Nat
      BY DelegationAssumption DEF OnCap, MaxAmounts
    <3>2. IsFiniteSet(OnCap(D, k))
      BY FS_Subset DEF OnCap
    <3> QED
      BY <3>1, <3>2, SumNat DEF Debits
  <2> QED
    BY <2>1, RolledNat
<1>7. /\ RolledOver(new).consumed >= RolledOver(old).consumed + Debits(D, k) + amount
      /\ RolledOver(new).consumed >= RolledOver(old).consumed + Debits(D, k)
  BY <1>3, <1>4, <1>6
<1>8. Follows(old, new, D, k)
  BY <1>3, <1>4, <1>5, <1>7 DEF Follows
<1> QED
  BY <1>1, <1>3, <1>4, <1>5, <1>7, <1>8

\* The debit of a delegation counts for it.
LEMMA FollowsDebit ==
  ASSUME CapsInv, NEW old \in Cap, NEW D \in SUBSET Delegations, IsFiniteSet(D),
         NEW d \in Delegations \ D, d.asset # NoAsset, CapKey(d) \in Keys,
         Follows(old, caps[CapKey(d)], D, CapKey(d)),
         NEW caller, SpendPermission(caller, CapKey(d), d.maxAmount)
  PROVE  Follows(old, caps'[CapKey(d)], D \cup {d}, CapKey(d))
<1>1. PICK k \in Keys : k = CapKey(d)
  OBVIOUS
<1>2. PICK amount \in Nat : amount = d.maxAmount
  BY DelegationAssumption
<1>3. PICK new : new = caps'[k]
  OBVIOUS
<1>4. /\ Follows(old, new, D, k)
      /\ ~old.revoked /\ ~Expired(old)
      /\ RolledOver(new).consumed <= old.maxPerPeriod
      /\ RolledOver(new).consumed >= RolledOver(old).consumed + Debits(D, k) + amount
  BY <1>1, <1>2, <1>3, FollowsSpend
<1>5. Debits(D \cup {d}, k) = Debits(D, k) + amount /\ Debits(D, k) \in Nat
  BY <1>1, <1>2, DebitAdds
<1>6. RolledOver(new).consumed >= RolledOver(old).consumed + Debits(D \cup {d}, k)
  <2>1. RolledOver(old).consumed \in Nat
    BY RolledNat
  <2> QED
    BY <1>4, <1>5, <2>1
<1> QED
  BY <1>1, <1>3, <1>4, <1>6 DEF Follows

-----------------------------------------------------------------------------

\* What the execution does to SpendCap, if it is one of its functions that is called.
LEMMA TargetKeeps ==
  ASSUME CapsInv, NEW w \in Accounts, TargetCall(w)
  PROVE  CapsInv' /\ UNCHANGED now
<1>1. w \in Principals /\ Limits \subseteq Nat /\ Periods \subseteq Nat /\ Expiries \subseteq Nat
      /\ Amounts \subseteq Nat
  BY SpendCapAssumption
<1>2. CASE UNCHANGED vars
  BY <1>2 DEF vars, CapsInv, TypeOK, CapSane
<1>3. ASSUME NEW k \in Keys, NEW max \in Limits, NEW length \in Periods, NEW expiry \in Expiries,
             GrantPermission(w, k, max, length, expiry)
      PROVE  CapsInv' /\ UNCHANGED now
  BY <1>1, <1>3, GrantSane DEF GrantPermission
<1>4. ASSUME NEW k \in Keys, RevokePermission(w, k) PROVE CapsInv' /\ UNCHANGED now
  BY <1>1, <1>4, RevokeSane DEF RevokePermission
<1>5. ASSUME NEW k \in Keys, NEW amount \in Amounts, SpendPermission(w, k, amount)
      PROVE  CapsInv' /\ UNCHANGED now
  BY <1>1, <1>5, SpendSane DEF SpendPermission
<1> QED
  BY <1>2, <1>3, <1>4, <1>5, Zenon DEF TargetCall

\* A cap that somebody else owns can be debited by the wallet, and no more.
LEMMA TargetSpends ==
  ASSUME CapsInv, NEW w \in Accounts, TargetCall(w),
         NEW k \in Keys, capOwner[k] \notin {NoOwner, w}
  PROVE  /\ capOwner'[k] = capOwner[k]
         /\ \/ caps'[k] = caps[k]
            \/ \E amount \in Amounts : SpendPermission(w, k, amount)
<1> DEFINE Goal == /\ capOwner'[k] = capOwner[k]
                   /\ \/ caps'[k] = caps[k]
                      \/ \E amount \in Amounts : SpendPermission(w, k, amount)
<1>1. CASE UNCHANGED vars
  BY <1>1 DEF vars
<1>2. ASSUME NEW l \in Keys, NEW max \in Limits, NEW length \in Periods, NEW expiry \in Expiries,
             GrantPermission(w, l, max, length, expiry)
      PROVE  Goal
  BY <1>2 DEF GrantPermission, CapsInv, TypeOK
<1>3. ASSUME NEW l \in Keys, RevokePermission(w, l) PROVE Goal
  BY <1>3 DEF RevokePermission, CapsInv, TypeOK
<1>4. ASSUME NEW l \in Keys, NEW amount \in Amounts, SpendPermission(w, l, amount) PROVE Goal
  <2>1. UNCHANGED capOwner
    BY <1>4 DEF SpendPermission
  <2>2. CASE l = k
    BY <1>4, <2>1, <2>2
  <2>3. CASE l # k
    <3>1. amount \in Nat
      BY SpendCapAssumption
    <3>2. caps'[k] = caps[k]
      BY <1>4, <2>3, <3>1, SpendWrites
    <3> QED
      BY <2>1, <3>2
  <2> QED
    BY <2>2, <2>3
<1> HIDE DEF Goal
<1>5. UNCHANGED vars => Goal
  BY <1>1 DEF Goal
<1>6. Goal
  BY <1>2, <1>3, <1>4, <1>5, Zenon DEF TargetCall
<1> QED
  BY <1>6 DEF Goal

\* The first call of a transaction: nothing was used, debited or paid.
LEMMA BeginGoes ==
  ASSUME BatchInv, NEW caller \in Principals, RedeemDelegations(caller)
  PROVE  BatchInv'
<1>1. PICK b : b = [caller |-> caller, phase |-> "next", item |-> NoBatch, done |-> {},
                    saved |-> State]
  OBVIOUS
<1>2. State \in States
  BY DEF BatchInv, OwnTypes, CapsInv, TypeOK, State, States
<1>3. /\ b \in Batches /\ b.phase = "next" /\ b.done = {} /\ b.saved = State
  BY <1>1, <1>2 DEF Batches
<1>4. /\ b.saved.caps = caps /\ b.saved.capOwner = capOwner
      /\ b.saved.redeemed = redeemed /\ b.saved.native = native
  BY <1>3 DEF State
<1>5. batch' = b /\ UNCHANGED <<vars, walletVars, redeemed, native>>
  BY <1>1 DEF RedeemDelegations
<1>6. InHand(b) = {} /\ Paying(b) = {}
  BY <1>3 DEF InHand, Paying
<1>7. CapsInv'
  BY <1>5 DEF BatchInv, CapsInv, TypeOK, vars, CapSane
<1>8. OwnTypes'
  BY <1>3, <1>5 DEF BatchInv, OwnTypes, walletVars
<1>9. CapsFollow(b)'
  <2>1. ASSUME NEW k \in Keys PROVE Follows(b.saved.caps[k], caps[k], Paying(b), k)'
    <3>1. PICK cap \in Cap : cap = caps[k]
      BY DEF BatchInv, CapsInv, TypeOK
    <3>2. b.saved.caps[k] = cap /\ caps'[k] = cap /\ UNCHANGED now
      BY <1>4, <1>5, <3>1 DEF vars
    <3>3. Follows(cap, cap, {}, k)'
      BY <3>2, FollowsStart, SameFollows
    <3> QED
      BY <1>6, <3>2, <3>3
  <2> QED
    BY <1>4, <1>5, <2>1 DEF CapsFollow, vars
<1>10. Promised(b)'
  BY <1>4, <1>5, <1>6 DEF Promised
<1>11. Paid(b)'
  <2>1. ASSUME NEW w \in Accounts PROVE Promise!Allowance({}, w) = 0
    <3>1. {d \in {} : d.delegator = w} = {}
      OBVIOUS
    <3> QED
      BY <3>1, PromiseSums, SumEmpty DEF Promise!Allowance
  <2>2. ASSUME NEW w \in Accounts PROVE native[w] - native[w] = 0
    BY DelegationAssumption DEF BatchInv, OwnTypes
  <2> QED
    BY <1>3, <1>4, <1>5, <2>1, <2>2 DEF Paid
<1>12. IsFiniteSet(b.done)
  BY <1>3, FS_EmptySet
<1>13. \A k \in Keys : CapSane(b.saved.caps[k])'
  BY <1>4, <1>5 DEF BatchInv, CapsInv, CapSane, vars
<1>14. Going(b)'
  BY <1>3, <1>9, <1>10, <1>11, <1>12, <1>13 DEF Going
<1> QED
  BY <1>5, <1>7, <1>8, <1>14 DEF BatchInv

-----------------------------------------------------------------------------

\* What a batch in progress says of the delegation in its hand.
LEMMA Handed ==
  ASSUME BatchInv, NEW b \in Batches, b = batch, b.phase # "next"
  PROVE  LET d == b.item.delegation
         IN  /\ d \in Delegations \ b.done /\ d.delegator \in Accounts
             /\ b.done \subseteq Delegations /\ IsFiniteSet(b.done)
             /\ InHand(b) = b.done \cup {d}
             /\ d.maxAmount \in Nat /\ d.maxValue \in Nat
             /\ b.item.value \in Nat /\ b.item.value <= d.maxValue
<1>1. Going(b) /\ b.done \subseteq Delegations
  BY BatchParts, BatchAssumption DEF BatchInv
<1>2. PICK item \in Executions : item = b.item
  BY <1>1 DEF Going
<1>3. /\ item.delegation \in Delegations /\ item.value \in Nat
      /\ item.delegation.delegator \in Accounts
      /\ item.delegation.maxAmount \in Nat /\ item.delegation.maxValue \in Nat
  BY ItemParts
<1>4. /\ item.delegation \notin b.done /\ item.value <= item.delegation.maxValue
      /\ IsFiniteSet(b.done)
  BY <1>1, <1>2 DEF Going
<1> QED
  BY <1>1, <1>2, <1>3, <1>4 DEF InHand

\* A delegation passes the tests: it joins the batch, and is debited next or not at all.
LEMMA CheckGoes ==
  ASSUME BatchInv, batch # NoBatch, Check
  PROVE  BatchInv'
<1>1. PICK b \in Batches : b = batch
  BY DEF BatchInv, OwnTypes
<1>2. PICK item \in Executions :
        /\ Redeemable(item, item.delegation)
        /\ redeemed' = redeemed \cup {Salted(item.delegation)}
        /\ batch' = [batch EXCEPT !.item = item,
             !.phase = IF item.delegation.asset = NoAsset THEN "execute" ELSE "debit"]
  BY DEF Check
<1>3. b.phase = "next" /\ UNCHANGED <<vars, walletVars, native>>
  BY <1>1 DEF Check
<1>4. PICK phase \in {"debit", "execute"} :
        phase = IF item.delegation.asset = NoAsset THEN "execute" ELSE "debit"
  OBVIOUS
<1>5. PICK c : c = [b EXCEPT !.item = item, !.phase = phase]
  OBVIOUS
<1>6. batch' = c
  BY <1>1, <1>2, <1>4, <1>5
<1>7. /\ c \in Batches /\ c.phase = phase /\ c.item = item
      /\ c.done = b.done /\ c.saved = b.saved
  BY <1>5 DEF Batches
<1>8. PICK d \in Delegations : d = item.delegation
  BY ItemParts
<1>9. /\ now <= d.expiresAt /\ Salted(d) \notin redeemed
      /\ <<nftOwner[d.delegator], d>> \in signed /\ item.value <= d.maxValue
  BY <1>2, <1>8 DEF Redeemable, IsValidSignature
<1>10. Going(b) /\ b.done \subseteq Delegations
  BY <1>1, BatchParts DEF BatchInv
<1>11. InHand(b) = b.done /\ Paying(b) = b.done /\ InHand(c) = b.done \cup {d}
  BY <1>3, <1>4, <1>7, <1>8 DEF InHand, Paying
<1>12. d \notin b.done
  BY <1>9, <1>10, <1>11 DEF Going, Promised
<1>13. CapsInv'
  BY <1>3 DEF BatchInv, CapsInv, TypeOK, vars, CapSane
<1>14. OwnTypes'
  BY <1>2, <1>3, <1>6, <1>7, <1>8 DEF BatchInv, OwnTypes, walletVars
<1>15. CapsFollow(c)'
  <2>1. ASSUME NEW k \in Keys, b.saved.capOwner[k] \notin Delegators(InHand(c)) \cup {NoOwner}
        PROVE  capOwner'[k] = b.saved.capOwner[k] /\ Follows(b.saved.caps[k], caps[k], Paying(c), k)'
    <3>1. b.saved.capOwner[k] \notin Delegators(InHand(b)) \cup {NoOwner}
      BY <1>11, <2>1 DEF Delegators
    <3>2. capOwner[k] = b.saved.capOwner[k] /\ Follows(b.saved.caps[k], caps[k], b.done, k)
      BY <1>10, <1>11, <3>1 DEF Going, CapsFollow
    <3>3. PICK old, new : old = b.saved.caps[k] /\ new = caps[k]
      OBVIOUS
    <3>4. Follows(old, new, Paying(c), k)
      <4>1. CASE phase = "debit"
        BY <1>7, <3>2, <3>3, <4>1 DEF Paying
      <4>2. CASE phase = "execute"
        <5>1. d.asset = NoAsset
          BY <1>4, <1>8, <4>2
        <5>2. IsFiniteSet(b.done)
          BY <1>10 DEF Going
        <5>3. Follows(old, new, b.done \cup {d}, k)
          BY <1>10, <1>12, <3>2, <3>3, <5>1, <5>2, FollowsOther
        <5> QED
          BY <1>7, <1>8, <4>2, <5>3 DEF Paying
      <4> QED
        BY <4>1, <4>2
    <3>5. UNCHANGED <<caps, capOwner, now>>
      BY <1>3 DEF vars
    <3>6. Follows(old, new, Paying(c), k)'
      BY <3>4, <3>5, SameFollows
    <3> QED
      BY <3>2, <3>3, <3>5, <3>6
  <2> QED
    BY <1>7, <2>1 DEF CapsFollow
<1>16. Promised(c)'
  <2>1. UNCHANGED <<nftOwner, signed, now>>
    BY <1>3 DEF vars, walletVars
  <2>2. redeemed = b.saved.redeemed \cup {Salted(e) : e \in b.done}
    BY <1>10, <1>11 DEF Going, Promised
  <2>3. \A e \in b.done : /\ <<nftOwner[e.delegator], e>> \in signed
                          /\ now <= e.expiresAt
                          /\ Salted(e) \notin b.saved.redeemed
                          /\ Salted(e) # Salted(d)
    BY <1>9, <1>10, <1>11, <2>2 DEF Going, Promised
  <2>4. \A e, f \in b.done : Salted(e) = Salted(f) => e = f
    BY <1>10, <1>11 DEF Going, Promised
  <2>5. \A e, f \in InHand(c) : Salted(e) = Salted(f) => e = f
    BY <1>11, <2>3, <2>4, Zenon
  <2>6. redeemed' = b.saved.redeemed \cup {Salted(e) : e \in InHand(c)}
    BY <1>2, <1>8, <1>11, <2>2
  <2>7. Salted(d) \notin b.saved.redeemed
    BY <1>9, <2>2
  <2> QED
    BY <1>7, <1>9, <1>11, <2>1, <2>3, <2>5, <2>6, <2>7 DEF Promised
<1>17. Paid(c)'
  BY <1>3, <1>7, <1>10 DEF Going, Paid
<1>18. \A k \in Keys : CapSane(b.saved.caps[k])'
  BY <1>3, <1>10 DEF Going, CapSane, vars
<1>19. Going(c)'
  <2>1. IsFiniteSet(c.done)
    BY <1>7, <1>10 DEF Going
  <2>2. c.phase = "debit" => c.item.delegation.asset # NoAsset
    BY <1>4, <1>7
  <2>3. c.item \in Executions /\ c.item.delegation \notin c.done
        /\ c.item.value <= c.item.delegation.maxValue
    BY <1>7, <1>8, <1>9, <1>12
  <2> QED
    BY <1>7, <1>15, <1>16, <1>17, <1>18, <2>1, <2>2, <2>3 DEF Going
<1> QED
  BY <1>6, <1>13, <1>14, <1>19 DEF BatchInv

\* The cap of the delegation in hand is debited: it counts from now on.
LEMMA DebitGoes ==
  ASSUME BatchInv, batch # NoBatch, Debit
  PROVE  BatchInv'
<1>1. PICK b \in Batches : b = batch
  BY DEF BatchInv, OwnTypes
<1>2. b.phase = "debit" /\ UNCHANGED <<walletVars, redeemed, native>>
  BY <1>1 DEF Debit
<1>3. PICK d : d = b.item.delegation
  OBVIOUS
<1>4. /\ d \in Delegations \ b.done /\ d.delegator \in Accounts /\ d.maxAmount \in Nat
      /\ b.done \subseteq Delegations /\ IsFiniteSet(b.done) /\ InHand(b) = b.done \cup {d}
  BY <1>1, <1>2, <1>3, Handed
<1>5. Going(b)
  BY <1>1 DEF BatchInv
<1>6. d.asset # NoAsset /\ b.item \in Executions
  BY <1>2, <1>3, <1>5 DEF Going
<1>7. PICK k \in Keys : k = CapKey(d)
  BY <1>3, <1>6, ItemParts
<1>8. SpendPermission(d.delegator, k, d.maxAmount)
  BY <1>1, <1>3, <1>7 DEF Debit, Delegated
<1>9. PICK c : c = [b EXCEPT !.phase = "execute"]
  OBVIOUS
<1>10. batch' = c
  BY <1>1, <1>9 DEF Debit
<1>11. /\ c \in Batches /\ c.phase = "execute" /\ c.item = b.item
       /\ c.done = b.done /\ c.saved = b.saved
  BY <1>9 DEF Batches
<1>12. CapsInv
  BY DEF BatchInv
<1>13. CapsInv' /\ UNCHANGED <<capOwner, now>> /\ \A l \in Keys \ {k} : caps'[l] = caps[l]
  <2>1. d.delegator \in Principals
    BY <1>4, SpendCapAssumption
  <2> QED
    BY <1>4, <1>8, <1>12, <2>1, SpendSane, SpendWrites
<1>14. OwnTypes'
  BY <1>2, <1>10, <1>11 DEF BatchInv, OwnTypes, walletVars
<1>15. InHand(c) = InHand(b) /\ Paying(b) = b.done /\ Paying(c) = b.done \cup {d}
  BY <1>2, <1>3, <1>11 DEF InHand, Paying
<1>16. CapsFollow(c)'
  <2>1. ASSUME NEW l \in Keys, b.saved.capOwner[l] \notin Delegators(InHand(c)) \cup {NoOwner}
        PROVE  capOwner'[l] = b.saved.capOwner[l] /\ Follows(b.saved.caps[l], caps[l], Paying(c), l)'
    <3>1. capOwner[l] = b.saved.capOwner[l] /\ Follows(b.saved.caps[l], caps[l], b.done, l)
      BY <1>5, <1>15, <2>1 DEF Going, CapsFollow
    <3>2. PICK old \in Cap : old = b.saved.caps[l]
      BY BatchParts
    <3>3. PICK new : new = caps'[l]
      OBVIOUS
    <3>4. Follows(old, new, b.done \cup {d}, l)
      <4>1. CASE l = k
        BY <1>4, <1>6, <1>7, <1>8, <1>12, <3>1, <3>2, <3>3, <4>1, FollowsDebit
      <4>2. CASE l # k
        <5>1. new = caps[l] /\ CapKey(d) # l
          BY <1>7, <1>13, <3>3, <4>2
        <5> QED
          BY <1>4, <3>1, <3>2, <5>1, FollowsOther
      <4> QED
        BY <4>1, <4>2
    <3>5. Follows(old, new, b.done \cup {d}, l)'
      BY <1>13, <3>4, SameFollows
    <3> QED
      BY <1>13, <1>15, <3>1, <3>2, <3>3, <3>5
  <2> QED
    BY <1>11, <2>1 DEF CapsFollow
<1>17. Promised(c)' /\ Paid(c)'
  BY <1>2, <1>5, <1>11, <1>13, <1>15 DEF Going, Promised, Paid, walletVars
<1>18. \A l \in Keys : CapSane(b.saved.caps[l])'
  BY <1>5, <1>13 DEF Going, CapSane
<1>19. Going(c)'
  BY <1>2, <1>5, <1>11, <1>16, <1>17, <1>18 DEF Going
<1> QED
  BY <1>10, <1>13, <1>14, <1>19 DEF BatchInv

\* What the execution pays, its delegation allows.
LEMMA ExecutePays ==
  ASSUME BatchInv, NEW b \in Batches, b = batch, b # NoBatch, Execute
  PROVE  /\ native' \in [Accounts -> 0 .. Funds]
         /\ \A w \in Accounts :
              b.saved.native[w] - native'[w] \in
                0 .. Promise!Allowance(b.done \cup {b.item.delegation}, w)
<1>1. PICK d : d = b.item.delegation
  OBVIOUS
<1>2. PICK v : v = b.item.value
  OBVIOUS
<1>3. b.phase = "execute" /\ v <= native[d.delegator]
      /\ native' = [native EXCEPT ![d.delegator] = native[d.delegator] - v]
  BY <1>1, <1>2 DEF Execute, Delegated
<1>4. /\ d \in Delegations \ b.done /\ d.delegator \in Accounts /\ d.maxValue \in Nat
      /\ b.done \in SUBSET Delegations /\ IsFiniteSet(b.done)
      /\ v \in Nat /\ v <= d.maxValue
  BY <1>1, <1>2, <1>3, Handed
<1>5. PICK u \in Accounts : u = d.delegator
  BY <1>4
<1>6. native \in [Accounts -> 0 .. Funds] /\ Funds \in Nat
  BY DelegationAssumption DEF BatchInv, OwnTypes
<1>7. PICK n \in 0 .. Funds : n = native[u] - v
  BY <1>3, <1>4, <1>5, <1>6
<1>8. native' = [native EXCEPT ![u] = n]
  BY <1>3, <1>5, <1>7
<1>9. native' \in [Accounts -> 0 .. Funds]
  BY <1>6, <1>8
<1>10. ASSUME NEW w \in Accounts
       PROVE  b.saved.native[w] - native'[w] \in 0 .. Promise!Allowance(b.done \cup {d}, w)
  <2>1. b.saved.native[w] - native[w] \in 0 .. Promise!Allowance(b.done, w)
    BY DEF BatchInv, Going, Paid
  <2>2. /\ Promise!Allowance(b.done, w) \in Nat
        /\ Promise!Allowance(b.done \cup {d}, w) =
             Promise!Allowance(b.done, w) + (IF d.delegator = w THEN d.maxValue ELSE 0)
    BY <1>4, AllowanceAdds
  <2>3. b.saved.native[w] \in Nat /\ native[w] \in Nat
    BY <1>6, BatchParts
  <2>4. PICK held, was, some, more :
          /\ held = b.saved.native[w] /\ was = native[w]
          /\ some = Promise!Allowance(b.done, w)
          /\ more = Promise!Allowance(b.done \cup {d}, w)
    OBVIOUS
  <2>5. held \in Nat /\ was \in Nat /\ some \in Nat /\ held - was \in 0 .. some
        /\ more = some + (IF u = w THEN d.maxValue ELSE 0)
    BY <1>5, <2>1, <2>2, <2>3, <2>4
  <2>6. CASE w = u
    <3>1. native'[w] = n /\ n = was - v
      BY <1>6, <1>7, <1>8, <2>4, <2>6
    <3>2. held - n \in 0 .. more
      BY <1>4, <1>7, <2>5, <2>6, <3>1
    <3> QED
      BY <2>4, <3>1, <3>2
  <2>7. CASE w # u
    <3>1. native'[w] = was
      BY <1>6, <1>8, <2>4, <2>7
    <3>2. held - was \in 0 .. more
      BY <2>5, <2>7
    <3> QED
      BY <2>4, <3>1, <3>2
  <2> QED
    BY <2>6, <2>7
<1> QED
  BY <1>1, <1>9, <1>10

\* A batch ends, for good or by a revert.
LEMMA Closed == CapsInv' /\ OwnTypes' /\ batch' = NoBatch => BatchInv'
  BY DEF BatchInv

LEMMA ExecuteGoes ==
  ASSUME BatchInv, batch # NoBatch, Execute
  PROVE  BatchInv'
<1>1. PICK b \in Batches : b = batch
  BY DEF BatchInv, OwnTypes
<1>2. b.phase = "execute" /\ UNCHANGED <<walletVars, redeemed>>
  BY <1>1 DEF Execute
<1>3. PICK d : d = b.item.delegation
  OBVIOUS
<1>4. /\ d \in Delegations \ b.done /\ d.delegator \in Accounts
      /\ b.done \subseteq Delegations /\ IsFiniteSet(b.done) /\ InHand(b) = b.done \cup {d}
  BY <1>1, <1>2, <1>3, Handed
<1>5. Going(b)
  BY <1>1 DEF BatchInv
<1>6. CapsInv
  BY DEF BatchInv
<1>7. TargetCall(d.delegator)
  BY <1>1, <1>3 DEF Execute, Delegated
<1>8. CapsInv' /\ UNCHANGED now
  BY <1>4, <1>6, <1>7, TargetKeeps
<1>9. /\ native' \in [Accounts -> 0 .. Funds]
      /\ \A w \in Accounts :
           b.saved.native[w] - native'[w] \in 0 .. Promise!Allowance(b.done \cup {d}, w)
  BY <1>1, <1>3, ExecutePays
<1>10. CASE batch' = NoBatch
  <2>1. OwnTypes'
    BY <1>2, <1>9, <1>10 DEF BatchInv, OwnTypes, walletVars
  <2> QED
    BY <1>8, <1>10, <2>1, Closed
<1>11. CASE batch' = [batch EXCEPT !.phase = "next", !.done = @ \cup {Delegated}]
  <2>1. PICK c : c = [b EXCEPT !.phase = "next", !.done = b.done \cup {d}]
    OBVIOUS
  <2>2. batch' = c
    BY <1>1, <1>3, <1>11, <2>1 DEF Delegated
  <2>3. PICK done \in SUBSET Delegations : done = b.done \cup {d}
    BY <1>4
  <2>4. c = [b EXCEPT !.phase = "next", !.done = done]
    BY <2>1, <2>3
  <2>5. c \in Batches /\ c.phase = "next" /\ c.done = done /\ c.saved = b.saved
    BY <2>4 DEF Batches
  <2>6. InHand(c) = InHand(b) /\ Paying(c) = Paying(b)
    BY <1>2, <1>3, <2>3, <2>5 DEF InHand, Paying
  <2>7. OwnTypes'
    BY <1>2, <1>9, <2>2, <2>5 DEF BatchInv, OwnTypes, walletVars
  <2>8. CapsFollow(c)'
    <3>1. ASSUME NEW k \in Keys, b.saved.capOwner[k] \notin Delegators(InHand(b)) \cup {NoOwner}
          PROVE  /\ capOwner'[k] = b.saved.capOwner[k]
                 /\ Follows(b.saved.caps[k], caps[k], Paying(b), k)'
      <4>1. capOwner[k] = b.saved.capOwner[k] /\ Follows(b.saved.caps[k], caps[k], Paying(b), k)
        BY <1>5, <3>1 DEF Going, CapsFollow
      <4>2. capOwner[k] \notin {NoOwner, d.delegator}
        BY <1>4, <3>1, <4>1 DEF Delegators
      <4>3. /\ capOwner'[k] = capOwner[k]
            /\ \/ caps'[k] = caps[k]
               \/ \E amount \in Amounts : SpendPermission(d.delegator, k, amount)
        BY <1>4, <1>6, <1>7, <4>2, TargetSpends
      <4>4. PICK old \in Cap : old = b.saved.caps[k]
        BY BatchParts
      <4>5. PICK new : new = caps'[k]
        OBVIOUS
      <4>6. Paying(b) \in SUBSET Delegations /\ IsFiniteSet(Paying(b))
        BY <1>2, <1>3, <1>4, FS_AddElement DEF Paying
      <4>7. Follows(old, new, Paying(b), k)
        <5>1. CASE caps'[k] = caps[k]
          BY <4>1, <4>4, <4>5, <5>1
        <5>2. ASSUME NEW amount \in Amounts, SpendPermission(d.delegator, k, amount)
              PROVE  Follows(old, new, Paying(b), k)
          <6>1. amount \in Nat
            BY SpendCapAssumption
          <6> QED
            BY <1>6, <4>1, <4>4, <4>5, <4>6, <5>2, <6>1, FollowsSpend
        <5> QED
          BY <4>3, <5>1, <5>2
      <4>8. Follows(old, new, Paying(b), k)'
        BY <1>8, <4>7, SameFollows
      <4> QED
        BY <4>1, <4>3, <4>4, <4>5, <4>8
    <3> QED
      BY <2>5, <2>6, <3>1 DEF CapsFollow
  <2>9. Promised(c)'
    BY <1>2, <1>5, <1>8, <2>5, <2>6 DEF Going, Promised, walletVars
  <2>10. Paid(c)'
    BY <1>9, <2>3, <2>5 DEF Paid
  <2>11. \A k \in Keys : CapSane(b.saved.caps[k])'
    BY <1>5, <1>8 DEF Going, CapSane
  <2>12. Going(c)'
    <3>1. IsFiniteSet(c.done)
      BY <1>4, <2>3, <2>5, FS_AddElement
    <3> QED
      BY <2>5, <2>8, <2>9, <2>10, <2>11, <3>1 DEF Going
  <2> QED
    BY <1>8, <2>2, <2>7, <2>12 DEF BatchInv
<1> QED
  BY <1>10, <1>11 DEF Execute

\* A revert puts back what the batch found.
LEMMA RevertGoes ==
  ASSUME BatchInv, batch # NoBatch, Revert
  PROVE  BatchInv'
<1>1. PICK b \in Batches : b = batch
  BY DEF BatchInv, OwnTypes
<1>2. Going(b)
  BY <1>1 DEF BatchInv
<1>3. /\ caps' = b.saved.caps /\ capOwner' = b.saved.capOwner /\ grantedAt' = b.saved.grantedAt
      /\ windowDebits' = b.saved.windowDebits /\ redeemed' = b.saved.redeemed
      /\ native' = b.saved.native /\ UNCHANGED <<now, walletVars>> /\ batch' = NoBatch
  BY <1>1 DEF Revert
<1>4. TypeOK'
  BY <1>3, BatchParts DEF BatchInv, CapsInv, TypeOK
<1>5. \A k \in Keys : CapSane(caps[k])'
  BY <1>2, <1>3 DEF Going, CapSane
<1>6. OwnTypes'
  BY <1>3, BatchParts DEF BatchInv, OwnTypes, walletVars
<1> QED
  BY <1>3, <1>4, <1>5, <1>6, Closed DEF CapsInv

-----------------------------------------------------------------------------

\* What happens while no transaction is in progress.
LEMMA BetweenBatches ==
  ASSUME BatchInv, batch = NoBatch,
         \/ \E caller \in Principals \ Accounts : Outside(caller)
         \/ \E signer \in Owners, d \in Delegations : Sign(signer, d)
         \/ \E w \in Accounts, owner \in Owners \cup {Nobody} : SetOwner(w, owner)
         \/ Tick /\ UNCHANGED delegationVars
  PROVE  BatchInv'
<1>0. CapsInv /\ OwnTypes
  BY DEF BatchInv
<1>1. ASSUME UNCHANGED vars PROVE CapsInv'
  BY <1>0, <1>1 DEF CapsInv, TypeOK, vars, CapSane
<1>2. ASSUME UNCHANGED delegationVars PROVE OwnTypes' /\ batch' = NoBatch
  BY <1>0, <1>2 DEF OwnTypes, delegationVars, walletVars
<1>3. ASSUME NEW caller \in Principals \ Accounts, NEW w \in Accounts,
             NEW m \in {ThisManager, OtherManager, NoManager}, SetDelegationManager(caller, w, m)
      PROVE  BatchInv'
  <2>1. OwnTypes' /\ batch' = NoBatch
    BY <1>0, <1>3 DEF OwnTypes, SetDelegationManager
  <2> QED
    BY <1>1, <1>3, <2>1, Closed DEF SetDelegationManager
<1>4. ASSUME NEW caller \in Principals \ Accounts, NEW w \in Accounts,
             LockDelegationManager(caller, w)
      PROVE  BatchInv'
  <2>1. OwnTypes' /\ batch' = NoBatch
    BY <1>0, <1>4 DEF OwnTypes, LockDelegationManager
  <2> QED
    BY <1>1, <1>4, <2>1, Closed DEF LockDelegationManager
<1>5. ASSUME NEW caller \in Principals \ Accounts, RedeemDelegations(caller) PROVE BatchInv'
  BY <1>5, BeginGoes
<1>6. ASSUME NEW caller \in Principals \ Accounts, NEW k \in Keys, NEW max \in Limits,
             NEW length \in Periods, NEW expiry \in Expiries,
             GrantPermission(caller, k, max, length, expiry), UNCHANGED delegationVars
      PROVE  BatchInv'
  <2>1. max \in Nat /\ length \in Nat /\ expiry \in Nat
    BY SpendCapAssumption
  <2>2. CapsInv'
    BY <1>0, <1>6, <2>1, GrantSane
  <2> QED
    BY <1>2, <1>6, <2>2, Closed
<1>7. ASSUME NEW caller \in Principals \ Accounts, NEW k \in Keys,
             RevokePermission(caller, k), UNCHANGED delegationVars
      PROVE  BatchInv'
  <2>1. CapsInv'
    BY <1>0, <1>7, RevokeSane
  <2> QED
    BY <1>2, <1>7, <2>1, Closed
<1>8. ASSUME NEW caller \in Principals \ Accounts, Outside(caller) PROVE BatchInv'
  BY <1>3, <1>4, <1>5, <1>6, <1>7, <1>8, Zenon DEF Outside
<1>9. ASSUME NEW signer \in Owners, NEW d \in Delegations, Sign(signer, d) PROVE BatchInv'
  <2>1. OwnTypes' /\ batch' = NoBatch
    BY <1>0, <1>9 DEF OwnTypes, Sign
  <2> QED
    BY <1>1, <1>9, <2>1, Closed DEF Sign
<1>10. ASSUME NEW w \in Accounts, NEW owner \in Owners \cup {Nobody}, SetOwner(w, owner)
       PROVE  BatchInv'
  <2>1. OwnTypes' /\ batch' = NoBatch
    BY <1>0, <1>10 DEF OwnTypes, SetOwner
  <2> QED
    BY <1>1, <1>10, <2>1, Closed DEF SetOwner
<1>11. CASE Tick /\ UNCHANGED delegationVars
  BY <1>0, <1>2, <1>11, TickSane, Closed
<1> QED
  BY <1>8, <1>9, <1>10, <1>11

LEMMA BatchStep == BatchInv /\ [DelegationNext]_<<vars, delegationVars>> => BatchInv'
<1> SUFFICES ASSUME BatchInv, [DelegationNext]_<<vars, delegationVars>> PROVE BatchInv'
  OBVIOUS
<1>1. CASE UNCHANGED <<vars, delegationVars>>
  <2>1. CapsInv' /\ OwnTypes'
    BY <1>1 DEF BatchInv, CapsInv, TypeOK, OwnTypes, vars, delegationVars, walletVars, CapSane
  <2>2. CASE batch = NoBatch
    BY <1>1, <2>1, <2>2, Closed DEF delegationVars
  <2>3. CASE batch # NoBatch
    <3>1. PICK b : b = batch
      OBVIOUS
    <3>2. Going(b)
      BY <2>3, <3>1 DEF BatchInv
    <3>3. UNCHANGED <<now, caps, capOwner, nftOwner, signed, redeemed, native>>
      BY <1>1 DEF vars, delegationVars, walletVars
    <3>4. CapsFollow(b)'
      <4>1. ASSUME NEW k \in Keys, NEW old, NEW new, Follows(old, new, Paying(b), k)
            PROVE  Follows(old, new, Paying(b), k)'
        BY <3>3, <4>1, SameFollows
      <4>2. ASSUME NEW k \in Keys, b.saved.capOwner[k] \notin Delegators(InHand(b)) \cup {NoOwner}
            PROVE  /\ capOwner'[k] = b.saved.capOwner[k]
                   /\ Follows(b.saved.caps[k], caps[k], Paying(b), k)'
        <5>1. capOwner[k] = b.saved.capOwner[k] /\ Follows(b.saved.caps[k], caps[k], Paying(b), k)
          BY <3>2, <4>2 DEF Going, CapsFollow
        <5>2. PICK old, new : old = b.saved.caps[k] /\ new = caps[k]
          OBVIOUS
        <5> QED
          BY <3>3, <4>1, <5>1, <5>2
      <4> QED
        BY <4>2 DEF CapsFollow
    <3>5. Promised(b)' /\ Paid(b)' /\ \A k \in Keys : CapSane(b.saved.caps[k])'
      BY <3>2, <3>3 DEF Going, Promised, Paid, CapSane
    <3>6. Going(b)'
      BY <3>2, <3>4, <3>5 DEF Going
    <3> QED
      BY <1>1, <2>1, <3>1, <3>6 DEF BatchInv, delegationVars
  <2> QED
    BY <2>2, <2>3
<1>2. CASE batch = NoBatch /\ DelegationNext
  BY <1>2, BetweenBatches, Zenon DEF DelegationNext
<1>3. CASE batch # NoBatch /\ DelegationNext
  BY <1>3, CheckGoes, DebitGoes, ExecuteGoes, RevertGoes, Zenon DEF DelegationNext
<1> QED
  BY <1>1, <1>2, <1>3

LEMMA BatchBegins == DelegationInit => BatchInv
<1> SUFFICES ASSUME DelegationInit PROVE BatchInv
  OBVIOUS
<1>1. CapsInv
  BY SpendCapAssumption
  DEF DelegationInit, Init, CapsInv, TypeOK, CapSane, NoCap, NoDebits, Cap, Time
<1>2. OwnTypes /\ batch = NoBatch
  BY DelegationAssumption DEF DelegationInit, OwnTypes
<1> QED
  BY <1>1, <1>2 DEF BatchInv

\* BatchInv holds in every reachable state: whatever the batch does in between, the
\* caps of others have followed its debits, its delegations are good and new, and the
\* wallets have paid no more than they allow.
THEOREM DelegationInductive == DelegationSpec => []BatchInv
  BY BatchBegins, BatchStep, PTL DEF DelegationSpec

\* Every variable of Delegation has its type, in every reachable state.
THEOREM DelegationTypeCorrect == DelegationSpec => []DelegationTypeOK
<1>1. BatchInv => DelegationTypeOK
  <2> SUFFICES ASSUME BatchInv PROVE DelegationTypeOK
    OBVIOUS
  <2>1. batch # NoBatch /\ batch.phase # "next" => batch.item # NoBatch
    BY BatchAssumption DEF BatchInv, Going
  <2> QED
    BY <2>1 DEF BatchInv, CapsInv, OwnTypes, DelegationTypeOK
<1> QED
  BY <1>1, DelegationInductive, PTL

\* However many delegations a batch holds and whatever their targets do to SpendCap in
\* between, a cap that none of the batch's wallets owns is debited by the batch by no
\* more than was left of it before, and not at all when it is revoked or has expired:
\* the debits of redeemDelegations go through the same cap as everything else.
THEOREM DelegationCapBoundsBatch == DelegationSpec => []CapBoundsBatch
<1>1. BatchInv => CapBoundsBatch
  <2> SUFFICES ASSUME BatchInv, batch # NoBatch, batch.phase = "execute", NEW k \in Keys,
                      batch.saved.capOwner[k]
                        \notin {d.delegator : d \in Batched} \cup {NoOwner},
                      Debited(k) > 0
               PROVE  LET cap == batch.saved.caps[k]
                      IN  /\ ~cap.revoked /\ ~Expired(cap)
                          /\ Debited(k) <= RolledOver(cap).maxPerPeriod - RolledOver(cap).consumed
    BY Zenon DEF CapBoundsBatch
  <2>1. PICK b \in Batches : b = batch
    BY DEF BatchInv, OwnTypes
  <2>2. Going(b)
    BY <2>1 DEF BatchInv
  <2>3. Batched = InHand(b) /\ Batched = Paying(b)
    BY <2>1 DEF Batched, Delegated, InHand, Paying
  <2>4. Debited(k) = Debits(Paying(b), k)
    BY <2>3 DEF Debited, Debits, OnCap
  <2>5. PICK old \in Cap : old = b.saved.caps[k]
    BY BatchParts
  <2>6. PICK new \in Cap : new = caps[k]
    BY DEF BatchInv, CapsInv, TypeOK
  <2>7. Follows(old, new, Paying(b), k)
    BY <2>1, <2>2, <2>3, <2>5, <2>6 DEF Going, CapsFollow, Delegators
  <2>8. OnCap(Paying(b), k) # {}
    <3>1. Debits(Paying(b), k) = 0 \/ OnCap(Paying(b), k) # {}
      BY SumEmpty, Zenon DEF Debits
    <3> QED
      BY <2>4, <3>1
  <2>9. /\ ~old.revoked /\ ~Expired(old) /\ RolledOver(new).consumed <= old.maxPerPeriod
        /\ RolledOver(new).consumed >= RolledOver(old).consumed + Debits(Paying(b), k)
    BY <2>7, <2>8 DEF Follows
  <2>10. RolledOver(old).maxPerPeriod = old.maxPerPeriod
    BY DEF RolledOver, Cap
  <2>11. Debits(Paying(b), k) \in Nat
    <3>1. OnCap(Paying(b), k) \subseteq Delegations
      BY <2>1, <2>2, BatchParts, ItemParts DEF Going, Paying, OnCap
    <3>2. IsFiniteSet(OnCap(Paying(b), k))
      <4>1. IsFiniteSet(Paying(b))
        BY <2>2, FS_AddElement DEF Going, Paying
      <4>2. OnCap(Paying(b), k) \subseteq Paying(b)
        BY DEF OnCap
      <4> QED
        BY <4>1, <4>2, FS_Subset
    <3>3. \A e \in OnCap(Paying(b), k) : MaxAmounts[e] \in Nat
      BY <3>1, DelegationAssumption DEF MaxAmounts
    <3> QED
      BY <3>2, <3>3, SumNat DEF Debits
  <2>12. /\ RolledOver(old).consumed \in Nat /\ RolledOver(new).consumed \in Nat
         /\ old.maxPerPeriod \in Nat
    BY RolledNat DEF Cap
  <2> QED
    BY <2>1, <2>4, <2>5, <2>9, <2>10, <2>11, <2>12
<1> QED
  BY <1>1, DelegationInductive, PTL

-----------------------------------------------------------------------------

\* A step that neither uses pairs nor pays, seen from outside, is a change of the
\* delegations in force.
LEMMA Changes ==
  Committed'.redeemed = Committed.redeemed /\ Committed'.native = Committed.native
    => Promise!Change
  BY DEF Promise!Change

\* What is committed is what a batch found, or else what is there.
LEMMA CommittedIs ==
  /\ batch = NoBatch => Committed.redeemed = redeemed /\ Committed.native = native
  /\ batch # NoBatch => /\ Committed.redeemed = batch.saved.redeemed
                        /\ Committed.native = batch.saved.native
  BY DEF Committed, State

LEMMA CommittedWillBe ==
  /\ batch' = NoBatch => Committed'.redeemed = redeemed' /\ Committed'.native = native'
  /\ batch' # NoBatch => /\ Committed'.redeemed = batch'.saved.redeemed
                         /\ Committed'.native = batch'.saved.native
  BY DEF Committed, State

\* The last execution of a batch uses all its delegations at once.
LEMMA EndUses ==
  ASSUME BatchInv, batch # NoBatch, Execute, batch' = NoBatch
  PROVE  Promise!Next
<1>1. PICK b \in Batches : b = batch
  BY DEF BatchInv, OwnTypes
<1>2. b.phase = "execute" /\ UNCHANGED <<walletVars, redeemed>>
  BY <1>1 DEF Execute
<1>3. PICK d : d = b.item.delegation
  OBVIOUS
<1>4. /\ d \in Delegations \ b.done /\ d.delegator \in Accounts
      /\ b.done \subseteq Delegations /\ InHand(b) = b.done \cup {d}
  BY <1>1, <1>2, <1>3, Handed
<1>5. Going(b)
  BY <1>1 DEF BatchInv
<1>6. UNCHANGED now
  BY <1>1, <1>3, <1>4, TargetKeeps DEF BatchInv, Execute, Delegated
<1>7. PICK used \in SUBSET Delegations : used = InHand(b)
  BY <1>4
<1>8. /\ \A e \in used : /\ <<nftOwner[e.delegator], e>> \in signed
                         /\ now <= e.expiresAt
                         /\ Salted(e) \notin b.saved.redeemed
      /\ \A e, f \in used : Salted(e) = Salted(f) => e = f
      /\ redeemed = b.saved.redeemed \cup {Salted(e) : e \in used}
  BY <1>5, <1>7 DEF Going, Promised
<1>9. /\ native' \in [Accounts -> 0 .. Funds]
      /\ \A w \in Accounts : b.saved.native[w] - native'[w] \in 0 .. Promise!Allowance(used, w)
  BY <1>1, <1>3, <1>4, <1>7, ExecutePays
<1>10. /\ Committed.redeemed = b.saved.redeemed /\ Committed.native = b.saved.native
       /\ Committed'.redeemed = redeemed /\ Committed'.native = native'
  BY <1>1, <1>2, CommittedIs, CommittedWillBe
<1>11. Promise!Use(used)
  <2>1. \A e : Promise!Id(e) = Salted(e)
    BY DEF Promise!Id, Salted
  <2>2. \A e, f \in used : Promise!Id(e) = Promise!Id(f) => e = f
    BY <1>8, <2>1
  <2>3. {Promise!Id(e) : e \in used} \cap Committed.redeemed = {}
    BY <1>8, <1>10, <2>1
  <2>4. Committed'.redeemed = Committed.redeemed \cup {Promise!Id(e) : e \in used}
    BY <1>8, <1>10, <2>1
  <2>5. {e \in Delegations : <<nftOwner[e.delegator], e>> \in signed /\ now <= e.expiresAt}'
        = {e \in Delegations : <<nftOwner[e.delegator], e>> \in signed /\ now <= e.expiresAt}
    BY <1>2, <1>6 DEF walletVars
  <2>6. IsFiniteSet(used)
    BY <1>4, <1>5, <1>7, FS_AddElement DEF Going
  <2> QED
    BY <1>9, <1>10, <2>2, <2>3, <2>4, <2>5, <2>6, PromiseFinite DEF Promise!Use
<1>12. used \subseteq
         {e \in Delegations : <<nftOwner[e.delegator], e>> \in signed /\ now <= e.expiresAt}
  BY <1>8
<1> QED
  BY <1>11, <1>12 DEF Promise!Next

\* Each call of a batch before its last leaves what is committed as it is.
LEMMA StaysOpen ==
  ASSUME BatchInv, batch # NoBatch, batch' \in Batches, batch'.saved = batch.saved
  PROVE  Promise!Next
<1>1. batch' # NoBatch
  BY BatchAssumption
<1> QED
  BY <1>1, CommittedIs, CommittedWillBe, Changes DEF Promise!Next

LEMMA StaysClosed ==
  ASSUME batch = NoBatch, batch' = NoBatch, UNCHANGED <<redeemed, native>>
  PROVE  Promise!Next
  BY CommittedIs, CommittedWillBe, Changes DEF Promise!Next

LEMMA OutsidePromise ==
  ASSUME BatchInv, batch = NoBatch, NEW caller \in Principals \ Accounts, Outside(caller)
  PROVE  Promise!Next
<1>1. ASSUME NEW w \in Accounts, NEW m \in {ThisManager, OtherManager, NoManager},
             SetDelegationManager(caller, w, m)
      PROVE  Promise!Next
  BY <1>1, StaysClosed DEF SetDelegationManager
<1>2. ASSUME NEW w \in Accounts, LockDelegationManager(caller, w) PROVE Promise!Next
  BY <1>2, StaysClosed DEF LockDelegationManager
<1>3. CASE RedeemDelegations(caller)
  <2>1. PICK b : b = [caller |-> caller, phase |-> "next", item |-> NoBatch, done |-> {},
                      saved |-> State]
    OBVIOUS
  <2>2. State \in States
    BY DEF BatchInv, OwnTypes, CapsInv, TypeOK, State, States
  <2>3. b \in Batches /\ b.saved = State
    BY <2>1, <2>2 DEF Batches
  <2>4. batch' = b /\ b # NoBatch
    BY <1>3, <2>1, <2>3, BatchAssumption DEF RedeemDelegations
  <2>5. /\ Committed.redeemed = redeemed /\ Committed.native = native
        /\ Committed'.redeemed = State.redeemed /\ Committed'.native = State.native
    BY <2>3, <2>4, CommittedIs, CommittedWillBe
  <2> QED
    BY <2>5, Changes DEF State, Promise!Next
<1>4. ASSUME UNCHANGED delegationVars PROVE Promise!Next
  BY <1>4, StaysClosed DEF delegationVars
<1> QED
  BY <1>1, <1>2, <1>3, <1>4, Zenon DEF Outside

\* Whatever happens is the use of a batch, or a change of the delegations in force.
LEMMA NextPromise == BatchInv /\ [DelegationNext]_<<vars, delegationVars>> => Promise!Next
<1> SUFFICES ASSUME BatchInv, [DelegationNext]_<<vars, delegationVars>> PROVE Promise!Next
  OBVIOUS
<1>1. CASE UNCHANGED <<vars, delegationVars>>
  <2>1. UNCHANGED <<batch, redeemed, native>>
    BY <1>1 DEF delegationVars
  <2>2. CASE batch = NoBatch
    BY <2>1, <2>2, StaysClosed
  <2>3. CASE batch # NoBatch
    BY <2>1, <2>3, StaysOpen DEF BatchInv, OwnTypes
  <2> QED
    BY <2>2, <2>3
<1>2. CASE batch = NoBatch /\ DelegationNext
  <2>1. ASSUME NEW signer \in Owners, NEW d \in Delegations, Sign(signer, d) PROVE Promise!Next
    BY <1>2, <2>1, StaysClosed DEF Sign
  <2>2. ASSUME NEW w \in Accounts, NEW owner \in Owners \cup {Nobody}, SetOwner(w, owner)
        PROVE  Promise!Next
    BY <1>2, <2>2, StaysClosed DEF SetOwner
  <2>3. ASSUME UNCHANGED delegationVars PROVE Promise!Next
    BY <1>2, <2>3, StaysClosed DEF delegationVars
  <2> QED
    BY <1>2, <2>1, <2>2, <2>3, OutsidePromise, Zenon DEF DelegationNext
<1>3. CASE batch # NoBatch /\ DelegationNext
  <2>1. PICK b \in Batches : b = batch
    BY <1>3 DEF BatchInv, OwnTypes
  <2>2. CASE Check
    <3>1. PICK item \in Executions :
            batch' = [b EXCEPT !.item = item,
                        !.phase = IF item.delegation.asset = NoAsset THEN "execute" ELSE "debit"]
      BY <2>1, <2>2 DEF Check
    <3>2. PICK phase \in {"debit", "execute"} :
            phase = IF item.delegation.asset = NoAsset THEN "execute" ELSE "debit"
      OBVIOUS
    <3>3. batch' = [b EXCEPT !.item = item, !.phase = phase]
      BY <3>1, <3>2
    <3>4. batch' \in Batches /\ batch'.saved = b.saved
      BY <3>3 DEF Batches
    <3> QED
      BY <1>3, <2>1, <3>4, StaysOpen
  <2>3. CASE Debit
    <3>1. batch' = [b EXCEPT !.phase = "execute"]
      BY <2>1, <2>3 DEF Debit
    <3>2. batch' \in Batches /\ batch'.saved = b.saved
      BY <3>1 DEF Batches
    <3> QED
      BY <1>3, <2>1, <3>2, StaysOpen
  <2>4. CASE Execute
    <3>1. CASE batch' = NoBatch
      BY <1>3, <2>4, <3>1, EndUses
    <3>2. CASE batch' = [batch EXCEPT !.phase = "next", !.done = @ \cup {Delegated}]
      <4>1. b.phase = "execute"
        BY <2>1, <2>4 DEF Execute
      <4>2. PICK done \in SUBSET Delegations : done = b.done \cup {b.item.delegation}
        BY <1>3, <2>1, <4>1, Handed
      <4>3. batch' = [b EXCEPT !.phase = "next", !.done = done]
        BY <2>1, <3>2, <4>2 DEF Delegated
      <4>4. batch' \in Batches /\ batch'.saved = b.saved
        BY <4>3 DEF Batches
      <4> QED
        BY <1>3, <2>1, <4>4, StaysOpen
    <3> QED
      BY <2>4, <3>1, <3>2 DEF Execute
  <2>5. CASE Revert
    <3>1. /\ batch' = NoBatch /\ redeemed' = batch.saved.redeemed
          /\ native' = batch.saved.native
      BY <2>5 DEF Revert
    <3> QED
      BY <1>3, <3>1, CommittedIs, CommittedWillBe, Changes DEF Promise!Next
  <2> QED
    BY <1>3, <2>2, <2>3, <2>4, <2>5, Zenon DEF DelegationNext
<1> QED
  BY <1>1, <1>2, <1>3

LEMMA InitPromise == DelegationInit => Promise!Init
<1> SUFFICES ASSUME DelegationInit PROVE Promise!Init
  OBVIOUS
<1>1. Committed.redeemed = {} /\ Committed.native = [w \in Accounts |-> Funds]
  BY CommittedIs DEF DelegationInit
<1> QED
  BY <1>1 DEF Promise!Init

\* Redeeming a batch, call by call and with its reverts, is one step of the abstract
\* promise: every pair of a delegator and a salt is used at most once, under a signature
\* of the owner of the moment, and no wallet pays more than its delegations allow.
THEOREM DelegationImplementsAuthority == DelegationSpec => ImplementsAuthority
<1>1. DelegationInit => Promise!Init
  BY InitPromise
<1>2. BatchInv /\ [DelegationNext]_<<vars, delegationVars>>
      => [Promise!Next]_<<{d \in Delegations : <<nftOwner[d.delegator], d>> \in signed
                                              /\ now <= d.expiresAt},
                          Committed.redeemed, Committed.native>>
  BY NextPromise
<1> QED
  BY <1>1, <1>2, DelegationInductive, PTL
  DEF DelegationSpec, ImplementsAuthority, Promise!Spec

\* What the abstract promise adds up for a wallet.
LEMMA AllowanceIs ==
  ASSUME NEW D, NEW w
  PROVE  Promise!Allowance(D, w) = SumOver({d \in D : d.delegator = w}, Promise!MaxValues)
  BY PromiseSums, Zenon DEF Promise!Allowance

\* The bound of the abstract promise is one of every behaviour that keeps it: the set
\* of the delegations used so far grows by the batch of each step.
THEOREM AuthorityBoundsLifetime == ImplementsAuthority => []Promise!LifetimeBound
<1> DEFINE InForce == {d \in Delegations : <<nftOwner[d.delegator], d>> \in signed
                                       /\ now <= d.expiresAt}
<1>0. \A d \in Delegations : Promise!MaxValues[d] = d.maxValue /\ d.maxValue \in Nat
  BY DelegationAssumption DEF Promise!MaxValues
<1>1. ASSUME Promise!Init PROVE Promise!LifetimeBound
  <2>1. Funds \in Nat /\ Funds - Funds = 0
    BY DelegationAssumption
  <2>2. \A w \in Accounts : Promise!Allowance({}, w) = 0
    <3> TAKE w \in Accounts
    <3>1. {d \in {} : d.delegator = w} = {}
      OBVIOUS
    <3> QED
      BY <3>1, SumEmpty, AllowanceIs
  <2>3. Committed.native = [w \in Accounts |-> Funds] /\ Committed.redeemed = {}
    BY <1>1 DEF Promise!Init
  <2>4. Committed.redeemed = {Promise!Id(d) : d \in {}}
    BY <2>3
  <2>5. \A w \in Accounts : Funds - Committed.native[w] <= Promise!Allowance({}, w)
    BY <2>1, <2>2, <2>3
  <2>6. Committed.native \in [Accounts -> 0 .. Funds]
    BY <2>1, <2>3
  <2> QED
    BY <2>4, <2>5, <2>6, FS_EmptySet, PromiseFinite DEF Promise!LifetimeBound
<1>2. ASSUME Promise!LifetimeBound,
             [Promise!Next]_<<InForce, Committed.redeemed, Committed.native>>
      PROVE  Promise!LifetimeBound'
  <2>1. PICK used \in SUBSET Delegations :
          /\ IsFiniteSet(used)
          /\ \A d, e \in used : Promise!Id(d) = Promise!Id(e) => d = e
          /\ Committed.redeemed = {Promise!Id(d) : d \in used}
          /\ \A w \in Accounts : Funds - Committed.native[w] <= Promise!Allowance(used, w)
    BY <1>2, PromiseFinite DEF Promise!LifetimeBound
  <2>2. ASSUME Committed'.redeemed = Committed.redeemed, Committed'.native = Committed.native
        PROVE  Promise!LifetimeBound'
    BY <1>2, <2>1, <2>2 DEF Promise!LifetimeBound
  <2>3. ASSUME NEW batched \in SUBSET InForce, Promise!Use(batched)
        PROVE  Promise!LifetimeBound'
    <3>1. /\ IsFiniteSet(batched) /\ batched \subseteq Delegations
          /\ \A d, e \in batched : Promise!Id(d) = Promise!Id(e) => d = e
          /\ {Promise!Id(d) : d \in batched} \cap Committed.redeemed = {}
          /\ Committed'.redeemed = Committed.redeemed \cup {Promise!Id(d) : d \in batched}
          /\ Committed'.native \in [Accounts -> 0 .. Funds]
          /\ \A w \in Accounts :
               Committed.native[w] - Committed'.native[w] \in 0 .. Promise!Allowance(batched, w)
      BY <2>3, PromiseFinite DEF Promise!Use
    <3>2. PICK all \in SUBSET Delegations : all = used \cup batched
      BY <3>1
    <3>3. used \cap batched = {}
      BY <2>1, <3>1
    <3>4. IsFiniteSet(all)
      BY <2>1, <3>1, <3>2, FS_Union
    <3>5. \A d, e \in all : Promise!Id(d) = Promise!Id(e) => d = e
      BY <2>1, <3>1, <3>2
    <3>6. Committed'.redeemed = {Promise!Id(d) : d \in all}
      BY <2>1, <3>1, <3>2
    <3>7. ASSUME NEW w \in Accounts
          PROVE  Funds - Committed'.native[w] <= Promise!Allowance(all, w)
      <4> DEFINE A == {d \in used : d.delegator = w}
                 B == {d \in batched : d.delegator = w}
      <4>1. /\ IsFiniteSet(A) /\ IsFiniteSet(B) /\ A \cap B = {}
            /\ A \cup B \subseteq Delegations
            /\ {d \in all : d.delegator = w} = A \cup B
        BY <2>1, <3>1, <3>2, <3>3, FS_Subset
      <4>2. /\ Promise!Allowance(used, w) = SumOver(A, Promise!MaxValues)
            /\ Promise!Allowance(batched, w) = SumOver(B, Promise!MaxValues)
            /\ Promise!Allowance(all, w) = SumOver(A \cup B, Promise!MaxValues)
        BY <4>1, AllowanceIs
      <4> HIDE DEF A, B
      <4>3. SumOver(A \cup B, Promise!MaxValues) = SumOver(A, Promise!MaxValues) + SumOver(B, Promise!MaxValues)
        BY <1>0, <4>1, SumUnion
      <4>4. SumOver(A, Promise!MaxValues) \in Int /\ SumOver(B, Promise!MaxValues) \in Int
        BY <1>0, <4>1, SumType
      <4>5. PICK n, m, f : n = Committed.native[w] /\ m = Committed'.native[w] /\ f = Funds
        OBVIOUS
      <4>6. n \in Nat /\ m \in Nat /\ f \in Nat
        BY <1>2, <3>1, <4>5, DelegationAssumption DEF Promise!LifetimeBound
      <4>7. f - n <= SumOver(A, Promise!MaxValues) /\ n - m <= SumOver(B, Promise!MaxValues)
        BY <2>1, <3>1, <4>2, <4>4, <4>5
      <4>8. f - m <= SumOver(A, Promise!MaxValues) + SumOver(B, Promise!MaxValues)
        BY <4>4, <4>6, <4>7
      <4> QED
        BY <4>2, <4>3, <4>5, <4>8
    <3> QED
      BY <3>1, <3>4, <3>5, <3>6, <3>7, PromiseFinite DEF Promise!LifetimeBound
  <2>4. CASE Promise!Change
    BY <2>2, <2>4 DEF Promise!Change
  <2>5. CASE UNCHANGED <<InForce, Committed.redeemed, Committed.native>>
    BY <2>2, <2>5
  <2> QED
    BY <1>2, <2>3, <2>4, <2>5 DEF Promise!Next
<1> QED
  BY <1>1, <1>2, PTL DEF ImplementsAuthority, Promise!Spec

\* So a wallet of the DelegationManager is never charged, over all batches there will
\* be, for more than the delegations that were used, each once, allow together.
THEOREM DelegationLifetimeBound == DelegationSpec => []Promise!LifetimeBound
  BY DelegationImplementsAuthority, AuthorityBoundsLifetime, PTL

-----------------------------------------------------------------------------

\* The accounts of one cap as a batch found them: KeyInv of a saved state.
SavedKeyInv(s, k) ==
  /\ s.caps[k].maxPerPeriod = 0 => s.caps[k].consumed = 0 /\ s.windowDebits[k] = NoDebits
  /\ s.caps[k].maxPerPeriod # 0 =>
       /\ s.caps[k].periodLength > 0
       /\ s.caps[k].consumed <= s.caps[k].maxPerPeriod
       /\ s.caps[k].currentPeriodStart <= now
       /\ \E p \in Time :
            /\ p \in Nat
            /\ s.caps[k].currentPeriodStart = s.grantedAt[k] + p * s.caps[k].periodLength
            /\ s.windowDebits[k][p] = s.caps[k].consumed
            /\ \A i \in Time : i > p => s.windowDebits[k][i] = 0
  /\ \A i \in Time : s.windowDebits[k][i] <= s.caps[k].maxPerPeriod

\* The caps are accounted for, and so is what a revert would restore.
AccountsInv ==
  /\ IInv
  /\ batch # NoBatch => \A k \in Keys : SavedKeyInv(batch.saved, k)

\* A batch begins with the accounts of the moment.
LEMMA SavedNow == \A k \in Keys : KeyInv(k) => SavedKeyInv(State, k)
<1>1. PICK s : s = State
  OBVIOUS
<1>2. /\ s.caps = caps /\ s.capOwner = capOwner
      /\ s.grantedAt = grantedAt /\ s.windowDebits = windowDebits
  BY <1>1 DEF State
<1>3. \A k \in Keys : KeyInv(k) => SavedKeyInv(s, k)
  BY <1>2 DEF KeyInv, GrantedCap, OnGrid, SavedKeyInv
<1> QED
  BY <1>1, <1>3

\* A revert brings them back; the clock has stood still.
LEMMA RevertAccounts ==
  ASSUME BatchInv, AccountsInv, batch # NoBatch, Revert
  PROVE  AccountsInv'
<1>1. PICK s : s = batch.saved
  OBVIOUS
<1>2. /\ batch' = NoBatch /\ caps' = s.caps /\ capOwner' = s.capOwner
      /\ grantedAt' = s.grantedAt /\ windowDebits' = s.windowDebits /\ now' = now
  BY <1>1 DEF Revert
<1>3. TypeOK'
  BY RevertGoes DEF BatchInv, CapsInv
<1>4. ASSUME NEW k \in Keys PROVE KeyInv(k)'
  <2>1. SavedKeyInv(s, k)
    BY <1>1 DEF AccountsInv
  <2> QED
    BY <1>2, <2>1 DEF SavedKeyInv, KeyInv, GrantedCap, OnGrid
<1> QED
  BY <1>2, <1>3, <1>4 DEF AccountsInv, IInv

\* The calls of the batch: each debit and each call of a wallet is one of SpendCap's own.
LEMMA CallAccounts ==
  ASSUME BatchInv, AccountsInv, batch # NoBatch, Check \/ Debit \/ Execute
  PROVE  AccountsInv'
<1>1. PICK b \in Batches : b = batch
  BY DEF BatchInv, OwnTypes
<1>2. ASSUME UNCHANGED vars PROVE IInv'
  BY <1>2, NextIInv DEF AccountsInv
<1>3. CASE Check
  <2>1. PICK item, phase : batch' = [b EXCEPT !.item = item, !.phase = phase]
    BY <1>1, <1>3 DEF Check
  <2>2. batch'.saved = b.saved
    BY <2>1 DEF Batches
  <2>3. UNCHANGED vars
    BY <1>3 DEF Check
  <2> QED
    BY <1>1, <1>2, <2>2, <2>3 DEF AccountsInv, SavedKeyInv, vars
<1>4. CASE Debit \/ Execute
  <2>1. b.phase # "next"
    BY <1>1, <1>4 DEF Debit, Execute
  <2>2. PICK d \in Delegations : d = b.item.delegation
    BY <1>1, <2>1, ItemParts DEF BatchInv, Going
  <2>3. /\ d.delegator \in Accounts /\ d.delegator \in Principals /\ d.maxAmount \in Nat
        /\ Delegated = d
    BY <1>1, <2>2, DelegationAssumption, SpendCapAssumption DEF Delegated
  <2>4. CASE Debit
    <3>1. CapKey(d) \in Keys
      BY <1>1, <2>1, <2>2, <2>4, ItemParts DEF BatchInv, Going, Debit
    <3>2. SpendPermission(d.delegator, CapKey(d), d.maxAmount)
      BY <2>3, <2>4 DEF Debit
    <3>3. IInv' /\ UNCHANGED now
      BY <2>3, <3>1, <3>2, SpendIInv DEF AccountsInv, SpendPermission
    <3>4. batch' = [b EXCEPT !.phase = "execute"]
      BY <1>1, <2>4 DEF Debit
    <3>5. batch'.saved = b.saved
      BY <3>4 DEF Batches
    <3> QED
      BY <1>1, <3>3, <3>5 DEF AccountsInv, SavedKeyInv
  <2>5. CASE Execute
    <3>1. TargetCall(d.delegator)
      BY <2>3, <2>5 DEF Execute
    <3>2. IInv' /\ UNCHANGED now
      <4>1. ASSUME NEW k \in Keys, NEW max \in Limits, NEW length \in Periods,
                   NEW expiry \in Expiries, GrantPermission(d.delegator, k, max, length, expiry)
            PROVE  IInv' /\ UNCHANGED now
        <5>1. max \in Nat /\ length \in Nat /\ expiry \in Nat
          BY SpendCapAssumption
        <5> QED
          BY <2>3, <4>1, <5>1, GrantIInv DEF AccountsInv, GrantPermission
      <4>2. ASSUME NEW k \in Keys, RevokePermission(d.delegator, k)
            PROVE  IInv' /\ UNCHANGED now
        BY <2>3, <4>2, RevokeIInv DEF AccountsInv, RevokePermission
      <4>3. ASSUME NEW k \in Keys, NEW amount \in Amounts,
                   SpendPermission(d.delegator, k, amount)
            PROVE  IInv' /\ UNCHANGED now
        BY <2>3, <4>3, SpendIInv, SpendCapAssumption DEF AccountsInv, SpendPermission
      <4>4. CASE UNCHANGED vars
        BY <1>2, <4>4 DEF vars
      <4> QED
        BY <3>1, <4>1, <4>2, <4>3, <4>4, Zenon DEF TargetCall
    <3>3. CASE batch' = NoBatch
      BY <3>2, <3>3 DEF AccountsInv
    <3>4. CASE batch' = [batch EXCEPT !.phase = "next", !.done = @ \cup {Delegated}]
      <4>1. batch' = [b EXCEPT !.phase = "next", !.done = b.done \cup {Delegated}]
        BY <1>1, <3>4
      <4>2. batch'.saved = b.saved
        BY <4>1 DEF Batches
      <4> QED
        BY <1>1, <3>2, <4>2 DEF AccountsInv, SavedKeyInv
    <3> QED
      BY <2>5, <3>3, <3>4 DEF Execute
  <2> QED
    BY <1>4, <2>4, <2>5
<1> QED
  BY <1>3, <1>4

\* Between batches: the owners, the attestor and the clock.
LEMMA OutsideAccounts ==
  ASSUME AccountsInv, batch = NoBatch, DelegationNext
  PROVE  AccountsInv'
<1>1. ASSUME IInv', batch' = NoBatch PROVE AccountsInv'
  BY <1>1 DEF AccountsInv
<1>2. ASSUME UNCHANGED vars, batch' = NoBatch PROVE AccountsInv'
  BY <1>1, <1>2, NextIInv DEF AccountsInv
<1>3. ASSUME NEW caller \in Principals \ Accounts, RedeemDelegations(caller)
      PROVE  AccountsInv'
  <2>1. UNCHANGED vars /\ batch'.saved = State
    BY <1>3 DEF RedeemDelegations
  <2>2. IInv'
    BY <2>1, NextIInv DEF AccountsInv
  <2>3. \A k \in Keys : SavedKeyInv(State, k)
    BY SavedNow DEF AccountsInv, IInv
  <2>4. PICK s : s = State
    OBVIOUS
  <2>5. \A k \in Keys : SavedKeyInv(s, k)'
    BY <2>1, <2>3, <2>4 DEF SavedKeyInv, vars
  <2> QED
    BY <2>1, <2>2, <2>4, <2>5 DEF AccountsInv, SavedKeyInv
<1>4. ASSUME NEW caller \in Principals \ Accounts, Outside(caller) PROVE AccountsInv'
  <2>1. ASSUME NEW w \in Accounts, NEW m \in {ThisManager, OtherManager, NoManager},
               SetDelegationManager(caller, w, m)
        PROVE  AccountsInv'
    BY <1>2, <2>1 DEF SetDelegationManager
  <2>2. ASSUME NEW w \in Accounts, LockDelegationManager(caller, w) PROVE AccountsInv'
    BY <1>2, <2>2 DEF LockDelegationManager
  <2>3. ASSUME NEW k \in Keys, NEW max \in Limits, NEW length \in Periods,
               NEW expiry \in Expiries, GrantPermission(caller, k, max, length, expiry),
               UNCHANGED delegationVars
        PROVE  AccountsInv'
    <3>1. max \in Nat /\ length \in Nat /\ expiry \in Nat
      BY SpendCapAssumption
    <3>2. IInv'
      BY <2>3, <3>1, GrantIInv DEF AccountsInv
    <3> QED
      BY <1>1, <2>3, <3>2 DEF delegationVars
  <2>4. ASSUME NEW k \in Keys, RevokePermission(caller, k), UNCHANGED delegationVars
        PROVE  AccountsInv'
    <3>1. IInv'
      BY <2>4, RevokeIInv DEF AccountsInv
    <3> QED
      BY <1>1, <2>4, <3>1 DEF delegationVars
  <2> QED
    BY <1>3, <1>4, <2>1, <2>2, <2>3, <2>4, Zenon DEF Outside
<1>5. ASSUME NEW signer \in Owners, NEW d \in Delegations, Sign(signer, d) PROVE AccountsInv'
  BY <1>2, <1>5 DEF Sign
<1>6. ASSUME NEW w \in Accounts, NEW owner \in Owners \cup {Nobody}, SetOwner(w, owner)
      PROVE  AccountsInv'
  BY <1>2, <1>6 DEF SetOwner
<1>7. CASE Tick /\ UNCHANGED delegationVars
  BY <1>1, <1>7, TickIInv DEF AccountsInv, delegationVars
<1> QED
  BY <1>4, <1>5, <1>6, <1>7, Zenon DEF DelegationNext

\* What agents redeem in the wallets' names goes through the same accounts as every
\* other spend: over all batches, those that reverted half-way included, no period of
\* a cap, counted from its grant, is debited for more than the cap.
THEOREM DelegationWindowBound == DelegationSpec => []WindowBound
<1>1. DelegationInit => AccountsInv
  BY InitIInv DEF DelegationInit, AccountsInv
<1>2. ASSUME BatchInv, AccountsInv, [DelegationNext]_<<vars, delegationVars>>
      PROVE  AccountsInv'
  <2>1. CASE UNCHANGED <<vars, delegationVars>>
    <3>1. IInv'
      BY <1>2, <2>1, NextIInv DEF AccountsInv
    <3> QED
      BY <1>2, <2>1, <3>1 DEF AccountsInv, SavedKeyInv, vars, delegationVars
  <2>2. CASE batch = NoBatch /\ DelegationNext
    BY <1>2, <2>2, OutsideAccounts
  <2>3. CASE batch # NoBatch /\ DelegationNext
    BY <1>2, <2>3, CallAccounts, RevertAccounts, Zenon DEF DelegationNext
  <2> QED
    BY <1>2, <2>1, <2>2, <2>3
<1>3. AccountsInv => WindowBound
  BY DEF AccountsInv, IInv, KeyInv, WindowBound
<1> QED
  BY <1>1, <1>2, <1>3, DelegationInductive, PTL DEF DelegationSpec

=============================================================================
