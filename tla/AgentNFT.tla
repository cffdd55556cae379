------------------------------ MODULE AgentNFT ------------------------------
(***************************************************************************)
(* The identity contract, contracts/src/AgentNFT.sol: who owns an agent's  *)
(* iNFT, and its memory root.  The other contracts ask it for the owner at *)
(* every call.  Usage authorizations and data slots are left out: nothing  *)
(* modelled here reads them.                                               *)
(***************************************************************************)
EXTENDS Integers

CONSTANTS
  Tokens,      \* the iNFTs that were minted
  Callers,     \* the addresses that call the contracts
  Nobody,      \* address(0): the owner of a burnt iNFT
  Roots,       \* what a memory root may name
  NoRoot

ASSUME AgentNFTAssumption == Nobody \notin Callers /\ NoRoot \notin Roots

VARIABLES nftOwner, memoryRoot

nftVars == <<nftOwner, memoryRoot>>

NftTypeOK ==
  /\ nftOwner \in [Tokens -> Callers \cup {Nobody}]
  /\ memoryRoot \in [Tokens -> Roots \cup {NoRoot}]

\* mint is open and gives an iNFT to whoever is named.
NftInit ==
  /\ nftOwner \in [Tokens -> Callers]
  /\ memoryRoot = [t \in Tokens |-> NoRoot]

\* ownerOf reverts for a burnt iNFT, so nobody is its owner.
IsOwner(caller, token) == caller \in Callers /\ caller = nftOwner[token]

\* The only transfer: by the owner itself.  To address(0) it burns the iNFT.
ITransferFrom(caller, to, token) ==
  /\ IsOwner(caller, token)
  /\ nftOwner' = [nftOwner EXCEPT ![token] = to]
  /\ UNCHANGED memoryRoot

UpdateMemoryRoot(caller, token, root) ==
  /\ IsOwner(caller, token)
  /\ memoryRoot' = [memoryRoot EXCEPT ![token] = root]
  /\ UNCHANGED nftOwner

=============================================================================
