----------------------------- MODULE Delegation -----------------------------
(***************************************************************************)
(* Delegated execution: contracts/src/DelegationManager.sol, the part of   *)
(* contracts/src/AgentReceiverWallet.sol it works through, and SpendCap,   *)
(* which it debits.                                                        *)
(*                                                                         *)
(* redeemDelegations is one transaction over a batch.  It is taken apart   *)
(* into the calls it makes: `batch' holds the item in hand and a copy of   *)
(* everything a revert restores, and nothing else moves while it is open.  *)
(* The items of a batch are picked one by one, which is to pick the batch  *)
(* beforehand: nothing outside changes meanwhile.  An item that fails its  *)
(* tests (by its mode, its caveats or a signature) reverts the batch.      *)
(***************************************************************************)
EXTENDS SpendCap, FiniteSets, Sums

CONSTANTS
  Owners,        \* the accounts that hold the wallets' iNFTs, and sign
  Nobody,        \* the owner of an iNFT that was burnt, or never mirrored
  Delegations,   \* the delegations that may be signed
  ThisManager, OtherManager, NoManager,
  CapTarget,     \* the SpendCap contract as the target of an execution
  NoAsset,       \* address(0): the delegation skips the cap
  Values,        \* the native amounts an execution may send
  Funds,         \* what a wallet holds at first
  MaxBatch,      \* bound on the length of a batch
  NoBatch

ASSUME DelegationAssumption ==
  /\ Owners \subseteq Principals \ Accounts /\ Nobody \notin Principals
  /\ Values \subseteq Nat /\ Funds \in Nat /\ MaxBatch \in Nat
  /\ \A d \in Delegations :
       /\ d.delegator \in Accounts /\ d.permissionId \in PermissionIds
       /\ d.asset \in Assets \cup {NoAsset}
       /\ d.maxValue \in Nat /\ d.expiresAt \in Nat /\ d.maxAmount \in Nat
  /\ NoAsset \notin Assets

VARIABLES
  nftOwner,     \* ownerOf the wallet's token, as OwnerMirror answers it
  manager,      \* delegationManager of a wallet
  locked,       \* delegationManagerLocked
  signed,       \* the signatures that exist
  redeemed,     \* DelegationManager.redeemed
  native,       \* what a wallet holds
  batch         \* the transaction in progress

walletVars == <<nftOwner, manager, locked, signed>>
delegationVars == <<walletVars, redeemed, native, batch>>

Salted(d) == <<d.delegator, d.salt>>

Executions ==
  [delegation : Delegations, signer : Owners, target : UNION {d.targets : d \in Delegations},
   value : Values]

\* What a revert restores.
State == [caps |-> caps, capOwner |-> capOwner, grantedAt |-> grantedAt,
          windowDebits |-> windowDebits, redeemed |-> redeemed, native |-> native]

States ==
  [caps : [Keys -> Cap], capOwner : [Keys -> Principals \cup {NoOwner}],
   grantedAt : [Keys -> Time], windowDebits : [Keys -> [Time -> Nat]],
   redeemed : SUBSET {Salted(d) : d \in Delegations}, native : [Accounts -> 0 .. Funds]]

Batches ==
  [caller : Principals, phase : {"next", "debit", "execute"}, item : Executions \cup {NoBatch},
   done : SUBSET Delegations, saved : States]

ASSUME BatchAssumption == NoBatch \notin Batches /\ NoBatch \notin Executions

DelegationTypeOK ==
  /\ TypeOK
  /\ nftOwner \in [Accounts -> Owners \cup {Nobody}]
  /\ manager \in [Accounts -> {ThisManager, OtherManager, NoManager}]
  /\ locked \in [Accounts -> BOOLEAN]
  /\ signed \subseteq Owners \X Delegations
  /\ redeemed \subseteq {Salted(d) : d \in Delegations}
  /\ native \in [Accounts -> 0 .. Funds]
  /\ batch \in Batches \cup {NoBatch}
  /\ batch # NoBatch /\ batch.phase # "next" => batch.item # NoBatch

DelegationInit ==
  /\ Init
  /\ nftOwner \in [Accounts -> Owners \cup {Nobody}]
  /\ manager = [w \in Accounts |-> NoManager]
  /\ locked = [w \in Accounts |-> FALSE]
  /\ signed = {}
  /\ redeemed = {}
  /\ native = [w \in Accounts |-> Funds]
  /\ batch = NoBatch

-----------------------------------------------------------------------------

\* The wallet and its owner.

SetDelegationManager(caller, w, m) ==
  /\ caller = nftOwner[w]
  /\ ~locked[w]
  /\ manager' = [manager EXCEPT ![w] = m]
  /\ UNCHANGED <<vars, nftOwner, locked, signed, redeemed, native, batch>>

LockDelegationManager(caller, w) ==
  /\ caller = nftOwner[w]
  /\ manager[w] # NoManager
  /\ locked' = [locked EXCEPT ![w] = TRUE]
  /\ UNCHANGED <<vars, nftOwner, manager, signed, redeemed, native, batch>>

\* An ERC-1271 signature is good for whoever owns the iNFT when it is checked.
IsValidSignature(w, signer) == signer = nftOwner[w]

Sign(signer, d) ==
  /\ signed' = signed \cup {<<signer, d>>}
  /\ UNCHANGED <<vars, nftOwner, manager, locked, redeemed, native, batch>>

\* The attestor of OwnerMirror, which the wallets ask on Base; to nobody after a burn.
SetOwner(w, owner) ==
  /\ nftOwner' = [nftOwner EXCEPT ![w] = owner]
  /\ UNCHANGED <<vars, manager, locked, signed, redeemed, native, batch>>

-----------------------------------------------------------------------------

\* The manager.

RedeemDelegations(caller) ==
  /\ batch' = [caller |-> caller, phase |-> "next", item |-> NoBatch, done |-> {}, saved |-> State]
  /\ UNCHANGED <<vars, walletVars, redeemed, native>>

CapKey(d) == [account |-> d.delegator, asset |-> d.asset, permissionId |-> d.permissionId]

\* Mutant of Redeemable: a pair may be used again.
RedeemableAgain(item, d) ==
  /\ d.targets # {}
  /\ batch.caller = d.delegate
  /\ now <= d.expiresAt
  /\ <<item.signer, d>> \in signed /\ IsValidSignature(d.delegator, item.signer)
  /\ item.target \in d.targets
  /\ item.value <= d.maxValue

\* The tests of _redeemOne.
Redeemable(item, d) ==
  /\ d.targets # {}
  /\ batch.caller = d.delegate
  /\ now <= d.expiresAt
  /\ Salted(d) \notin redeemed
  /\ <<item.signer, d>> \in signed /\ IsValidSignature(d.delegator, item.signer)
  /\ item.target \in d.targets
  /\ item.value <= d.maxValue

Check ==
  /\ batch.phase = "next"
  /\ \E item \in Executions :
       /\ Redeemable(item, item.delegation)
       /\ redeemed' = redeemed \cup {Salted(item.delegation)}
       /\ batch' = [batch EXCEPT !.item = item,
            !.phase = IF item.delegation.asset = NoAsset THEN "execute" ELSE "debit"]
  /\ UNCHANGED <<vars, walletVars, native>>

Delegated == batch.item.delegation

\* executeViaDelegation serves the configured manager only.
WalletObeys == manager[Delegated.delegator] = ThisManager

\* Mutant of Debit: a delegator's cap is debited once in a batch.
DebitOnce ==
  /\ batch.phase = "debit"
  /\ WalletObeys
  /\ \/ /\ batch.done = {}
        /\ SpendPermission(Delegated.delegator, CapKey(Delegated), Delegated.maxAmount)
     \/ batch.done # {} /\ UNCHANGED vars
  /\ batch' = [batch EXCEPT !.phase = "execute"]
  /\ UNCHANGED <<walletVars, redeemed, native>>

\* The wallet, as the capped account, spends from its own cap.
Debit ==
  /\ batch.phase = "debit"
  /\ WalletObeys
  /\ SpendPermission(Delegated.delegator, CapKey(Delegated), Delegated.maxAmount)
  /\ batch' = [batch EXCEPT !.phase = "execute"]
  /\ UNCHANGED <<walletVars, redeemed, native>>

\* A call to SpendCap in the wallet's name; any other target leaves its own traces.
TargetCall(w) ==
  IF batch.item.target = CapTarget
  THEN /\ batch.item.value = 0
       /\ \E k \in Keys :
            \/ \E max \in Limits, length \in Periods, expiry \in Expiries :
                 GrantPermission(w, k, max, length, expiry)
            \/ RevokePermission(w, k)
            \/ \E amount \in Amounts : SpendPermission(w, k, amount)
  ELSE UNCHANGED vars

Execute ==
  /\ batch.phase = "execute"
  /\ WalletObeys
  /\ batch.item.value <= native[Delegated.delegator]
  /\ native' = [native EXCEPT ![Delegated.delegator] = @ - batch.item.value]
  /\ TargetCall(Delegated.delegator)
  /\ \/ batch' = NoBatch
     \/ /\ Cardinality(batch.done) + 1 < MaxBatch
        /\ batch' = [batch EXCEPT !.phase = "next", !.done = @ \cup {Delegated}]
  /\ UNCHANGED <<walletVars, redeemed>>

\* A test fails, the cap refuses, the wallet refuses or the target reverts.
Fails ==
  \/ batch.phase = "next"
  \/ batch.phase = "debit" /\ ~(WalletObeys /\ SpendAllowed(CapKey(Delegated), Delegated.maxAmount))
  \/ batch.phase = "execute"

Revert ==
  /\ Fails
  /\ batch' = NoBatch
  /\ caps' = batch.saved.caps
  /\ capOwner' = batch.saved.capOwner
  /\ grantedAt' = batch.saved.grantedAt
  /\ windowDebits' = batch.saved.windowDebits
  /\ redeemed' = batch.saved.redeemed
  /\ native' = batch.saved.native
  /\ UNCHANGED <<now, walletVars>>

-----------------------------------------------------------------------------

Outside(caller) ==
  \/ \E w \in Accounts :
       \/ \E m \in {ThisManager, OtherManager, NoManager} : SetDelegationManager(caller, w, m)
       \/ LockDelegationManager(caller, w)
  \/ RedeemDelegations(caller)
  \/ /\ \E k \in Keys :
          \/ \E max \in Limits, length \in Periods, expiry \in Expiries :
               GrantPermission(caller, k, max, length, expiry)
          \/ RevokePermission(caller, k)
     /\ UNCHANGED delegationVars

DelegationNext ==
  \/ /\ batch = NoBatch
     /\ \/ \E caller \in Principals \ Accounts : Outside(caller)
        \/ \E signer \in Owners, d \in Delegations : Sign(signer, d)
        \/ \E w \in Accounts, owner \in Owners \cup {Nobody} : SetOwner(w, owner)
        \/ Tick /\ UNCHANGED delegationVars
  \/ /\ batch # NoBatch
     /\ Check \/ Debit \/ Execute \/ Revert

DelegationSpec == DelegationInit /\ [][DelegationNext]_<<vars, delegationVars>>

-----------------------------------------------------------------------------

\* What the items so far and the one in hand stand for.
Batched == batch.done \cup {Delegated}

MaxAmounts == [d \in Delegations |-> d.maxAmount]

\* What the transaction in progress has debited from a cap.
Debited(k) == SumOver({d \in Batched : d.asset # NoAsset /\ CapKey(d) = k}, MaxAmounts)

\* A cap that somebody else owns than the wallets of the batch bounds what
\* delegates do in the wallets' names: no batch gets through that debits it, over
\* all its delegations, by more than was left before the batch, or at all once it
\* is revoked or has expired.  It breaks if an item is executed without its debit.
CapBoundsBatch ==
  batch # NoBatch /\ batch.phase = "execute" =>
    \A k \in Keys :
      LET cap == batch.saved.caps[k]
      IN /\ batch.saved.capOwner[k] \notin {d.delegator : d \in Batched} \cup {NoOwner}
         /\ Debited(k) > 0
         => /\ ~cap.revoked /\ ~Expired(cap)
            /\ Debited(k) <= RolledOver(cap).maxPerPeriod - RolledOver(cap).consumed

\* Seen from outside, a transaction in progress has not happened yet.
Committed == IF batch = NoBatch THEN State ELSE batch.saved

\* The abstract promise: each pair of a delegator and a salt is used once, while
\* the delegator's owner of the moment stands by the delegation, and a batch moves
\* no more value than its delegations allow.
Promise == INSTANCE Authority WITH
  Wallets <- Accounts,
  authorised <- {d \in Delegations : <<nftOwner[d.delegator], d>> \in signed /\ now <= d.expiresAt},
  spent <- Committed.redeemed,
  native <- Committed.native

ImplementsAuthority == Promise!Spec

=============================================================================
