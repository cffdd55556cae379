----------------------------- MODULE AxiomCommit -----------------------------
(***************************************************************************)
(* The commit-and-reveal contract, contracts/src/AxiomCommit.sol.          *)
(*                                                                         *)
(* The hash that names a commit is injective, so a commit id is the record *)
(* of what is hashed, and the id's fields are what the contract stores.    *)
(* `reveals' is the log of PlanRevealed events.                            *)
(***************************************************************************)
EXTENDS AgentNFT

CONSTANTS
  Plans,
  Oversized,   \* the plans of more than MAX_PLAN_SIZE bytes
  Results,
  MaxBlock     \* bound on the block number

ASSUME AxiomAssumption == Oversized \subseteq Plans /\ MaxBlock \in Nat

VARIABLES operatorOf, commits, revealed, reveals, block

axiomVars == <<operatorOf, commits, revealed, reveals, block>>

CommitIds ==
  [token : Tokens, plan : Plans, committer : Callers, block : 0 .. MaxBlock]

Reveals == [token : Tokens, id : CommitIds, result : Results]

AxiomTypeOK ==
  /\ operatorOf \in [Tokens -> SUBSET Callers]
  /\ commits \subseteq CommitIds
  /\ revealed \subseteq commits
  /\ reveals \subseteq Reveals
  /\ block \in 0 .. MaxBlock

AxiomInit ==
  /\ operatorOf = [t \in Tokens |-> {}]
  /\ commits = {}
  /\ revealed = {}
  /\ reveals = {}
  /\ block = 0

-----------------------------------------------------------------------------

SetOperator(caller, token, operator, allowed) ==
  /\ IsOwner(caller, token)
  /\ operatorOf' = [operatorOf EXCEPT ![token] =
       IF allowed THEN @ \cup {operator} ELSE @ \ {operator}]
  /\ UNCHANGED <<commits, revealed, reveals, block>>

\* The owner or an operator.  The operators an owner named serve the next owner too.
MayCommit(caller, token) ==
  nftOwner[token] # Nobody /\ caller \in operatorOf[token] \cup {nftOwner[token]}

CommitId(caller, token, plan, height) ==
  [token |-> token, plan |-> plan, committer |-> caller, block |-> height]

\* Committing the same tuple twice in a block changes nothing and emits no event.
CommitPlan(caller, token, plan) ==
  /\ MayCommit(caller, token)
  /\ commits' = commits \cup {CommitId(caller, token, plan, block)}
  /\ UNCHANGED <<operatorOf, revealed, reveals, block>>

MayReveal(caller, id, plan) ==
  /\ id \in commits
  /\ id \notin revealed
  /\ caller = id.committer
  /\ plan \notin Oversized
  /\ plan = id.plan

\* The token of the event is the caller's word for it.
RevealPlan(caller, token, id, plan, result) ==
  /\ MayReveal(caller, id, plan)
  /\ revealed' = revealed \cup {id}
  /\ reveals' = reveals \cup {[token |-> token, id |-> id, result |-> result]}
  /\ UNCHANGED <<operatorOf, commits, block>>

NewBlock ==
  /\ block < MaxBlock
  /\ block' = block + 1
  /\ UNCHANGED <<operatorOf, commits, revealed, reveals>>

-----------------------------------------------------------------------------

=============================================================================
