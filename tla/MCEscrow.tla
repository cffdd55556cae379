------------------------------- MODULE MCEscrow -------------------------------
(***************************************************************************)
(* Two instances that share nothing, for TLC to check in one run; `system' *)
(* says which one moves.                                                   *)
(*                                                                         *)
(* The escrow: a client and an agent; budget 7 at 25% pays a fee of 1 by   *)
(* rounding, and 11 overflows the arithmetic of `complete'.                *)
(*                                                                         *)
(* The wallet: two owners, two vaults, and amounts that leave dust: 6000   *)
(* is below the splitter's minimum, 10019 above it and not divisible by 20.*)
(* One of the vaults may fail in either way, or in both; the other is sound.*)
(***************************************************************************)
EXTENDS AgenticCommerce, ReceiverWallet

CONSTANT vaultA

VARIABLE system

MCFaults == {vaultA} \X {"money", "shares"}

MCInit ==
  /\ Init /\ WalletInit
  /\ \/ system = "escrow" /\ tokenOwner = (CHOOSE o \in TokenOwners : TRUE)
     \/ system = "wallet"

MCNext ==
  \/ system = "escrow" /\ Next /\ UNCHANGED <<receiverVars, system>>
  \/ system = "wallet" /\ WalletNext /\ UNCHANGED <<vars, system>>

\* The fairness of FairSpec, asked of the escrow when it is the one that moves.
MCSpec ==
  /\ MCInit /\ [][MCNext]_<<vars, receiverVars, system>>
  /\ WF_vars(system = "escrow" /\ Tick)
  /\ \A j \in JobIds : WF_vars(system = "escrow" /\ ClaimRefund(j))
=============================================================================
