----------------------------- MODULE MCAuditLoop -----------------------------
(***************************************************************************)
(* Two instances that share nothing, for TLC to check in one run.          *)
(*                                                                         *)
(* The loop: one run, of any mode, audits an agent with a wallet that the  *)
(* agent's owner may authorise, next to any number of other runs on that   *)
(* wallet, which may commit the same plan in the same block.               *)
(*                                                                         *)
(* The evidence: one audit, of any caller, with two probes.                *)
(***************************************************************************)
EXTENDS AuditLoop, Evidence

CONSTANTS a, other, agent, owner, wallet

MCAgentOf == [r \in Runs |-> agent]

\* One defect at a time.
MCEnvelopes ==
  LET good == [json |-> TRUE, missing |-> {}, valid |-> TRUE, algo |-> "ecdsa",
               quote |-> [hex |-> TRUE, whole |-> TRUE, tdx |-> TRUE, intel |-> TRUE,
                          address |-> "asked", nonce |-> "asked"]]
  IN {good, [good EXCEPT !.json = FALSE], [good EXCEPT !.valid = FALSE], [good EXCEPT !.algo = "other"]}
     \cup {[good EXCEPT !.missing = {field}] : field \in {"quote", "address", "algo", "nonce"}}
     \cup {[good EXCEPT !.quote.hex = FALSE], [good EXCEPT !.quote.whole = FALSE],
           [good EXCEPT !.quote.tdx = FALSE], [good EXCEPT !.quote.intel = FALSE],
           [good EXCEPT !.quote.address = "other"], [good EXCEPT !.quote.nonce = "other"],
           [good EXCEPT !.quote.nonce = "other", !.missing = {"nonce"}]}

Looping ==
  /\ Init
  /\ auditor = [by |-> "orchestrator", storage |-> "on", verifier |-> FALSE]
  /\ probes = <<>> /\ stage = "returned"
  /\ report = <<>> /\ pins = {} /\ feedback = NoFeedback

\* The loop's run is over.  With a sidecar, there is one probe.
Auditing ==
  /\ NftInit /\ AxiomInit
  /\ run = [r \in Runs |->
       [mode |-> "workflow", at |-> "returned", settle |-> "none", plan |-> None,
        commitId |-> None, verdict |-> "none", pinned |-> FALSE]]
  /\ payments = [r \in Runs |-> {}]
  /\ tx = [r \in Runs |-> [k \in Transactions |-> "none"]]
  /\ commitBlock = [r \in Runs |-> 0]
  /\ stored = {}
  /\ precommitted = [r \in Runs |-> FALSE]
  /\ auditor \in Auditors
  /\ auditor.by = "adapter" => auditor.storage = "off"
  /\ probes = [i \in 1 .. (IF auditor.verifier THEN 1 ELSE ProbeCount) |-> NotAsked]
  /\ stage = "probes"
  /\ report = <<>> /\ pins = {} /\ feedback = NoFeedback

MCInit == Looping \/ Auditing

MCNext ==
  \/ EvidenceNext /\ UNCHANGED vars
  \/ probes = <<>> /\ Next /\ UNCHANGED evidenceVars

\* Every await of the loop's run returns: by an answer, an error or its timeout.
MCSpec == MCInit /\ [][MCNext]_<<vars, evidenceVars>> /\ \A r \in Runs : WF_vars(Step(r))
=============================================================================
