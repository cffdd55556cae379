---------------------------- MODULE MCDelegation ----------------------------
(* One wallet, whose iNFT may have two owners in turn, a delegate and       *)
(* three delegations: two with the same salt, one of them on the cap, and a *)
(* third one on the cap.  The cap's period is over after two instants.      *)
EXTENDS Delegation

CONSTANTS wallet, alice, bob, agent, shop, usdc, default, saltA, saltB

Signed(salt, asset, value, expiry, targets) ==
  [delegator |-> wallet, delegate |-> agent, targets |-> targets, maxValue |-> value,
   expiresAt |-> expiry, salt |-> salt, asset |-> asset, permissionId |-> default,
   maxAmount |-> 1]

MCDelegations ==
  {Signed(saltA, NoAsset, 0, 2, {shop}),
   Signed(saltA, usdc, 2, 2, {shop}),
   Signed(saltB, usdc, 2, 1, {shop, CapTarget})}
=============================================================================
