------------------------------ MODULE Evidence ------------------------------
(***************************************************************************)
(* One audit from the inside: inferZG for each probe, runAudit, the        *)
(* canonical report of packages/workflow, its pinning to 0G Storage, and   *)
(* the ERC-8004 feedback that names it.  AuditLoop has the steps around.   *)
(*                                                                         *)
(* An audit is run by the orchestrator (cross-agent.ts), which may run it  *)
(* on a workflow's metadata only, or by the endpoint of zhgg-mcp-adapter.  *)
(* What the report says is kept to its evidence, its value and its         *)
(* anchors.  keccak256 is injective and a root of the storage names its    *)
(* bytes, so a hash and a root are written as what they are taken of.      *)
(***************************************************************************)
EXTENDS AuditCore, TeeVerifier, FiniteSetsExt, Integers, Sequences

CONSTANTS
  ProbeCount,     \* the length of PROBE_PROMPTS
  TeeProviders,
  Envelopes       \* the envelopes that arrive

ASSUME EvidenceAssumption == ProbeCount \in Nat /\ Envelopes \subseteq AllEnvelopes

VARIABLES auditor, probes, stage, report, pins, feedback

evidenceVars == <<auditor, probes, stage, report, pins, feedback>>

Auditors ==
  [by : {"orchestrator", "workflow", "adapter"}, storage : {"on", "off"},    \* off: disabled, or no client
   verifier : BOOLEAN]

ZERO_HASH == [of |-> "nothing", bytes |-> <<>>]
NoUri == [scheme |-> "empty", of |-> <<>>]
Root(bytes) == [scheme |-> "root", of |-> <<bytes>>]
Placeholder == [scheme |-> "placeholder", of |-> <<>>]

NotAsked ==
  [at |-> "fetch", ok |-> FALSE, said |-> "other", header |-> "none", env |-> <<>>,
   trace |-> "absent", provider |-> "none", locally |-> "null", checked |-> "none"]

NoFeedback == [status |-> "none", uri |-> NoUri, hash |-> ZERO_HASH, value |-> <<0, 0>>]

EvidenceTypeOK ==
  /\ auditor \in Auditors
  /\ \A i \in DOMAIN probes :
       /\ probes[i].at \in {"fetch", "body", "local", "done"}
       /\ probes[i].trace \in {"absent", "true", "other"}
       /\ probes[i].header \in {"none", "hex", "envelope"}
       /\ probes[i].locally \in {"null", "true", "false"}
  /\ stage \in {"probes", "post", "returned", "rejected"}
  /\ Len(report) <= 1
  /\ feedback.status \in {"none", "pending", "mined", "reverted"}

EvidenceInit ==
  /\ auditor \in Auditors
  /\ probes = [i \in 1 .. ProbeCount |-> NotAsked]
  /\ stage = "probes"
  /\ report = <<>> /\ pins = {}
  /\ feedback = NoFeedback

-----------------------------------------------------------------------------
(* inferZG                                                                 *)

Asking(i, step) == stage = "probes" /\ probes[i].at = step

Told(i, changed) == probes' = [probes EXCEPT ![i] = changed]

\* No key, no answer in time, another status: a failed probe, never a throw.
\* What is in an envelope matters to those who check it.
Fetch(i) ==
  /\ Asking(i, "fetch")
  /\ \/ Told(i, [probes[i] EXCEPT !.at = "done"])
     \/ \E header \in {"none", "hex"} : Told(i, [probes[i] EXCEPT !.at = "body", !.header = header])
     \/ \E env \in IF auditor.verifier THEN {<<e>> : e \in Envelopes} ELSE {<<>>} :
          Told(i, [probes[i] EXCEPT !.at = "body", !.header = "envelope", !.env = env])
  /\ UNCHANGED <<auditor, stage, report, pins, feedback>>

\* The router's trace names its verdict and its provider, or neither.
Body(i) ==
  /\ Asking(i, "body")
  /\ \/ Told(i, [NotAsked EXCEPT !.at = "done"])
     \/ \E said \in {"yes", "no", "other"}, trace \in {"absent", "true", "other"},
           provider \in TeeProviders \cup {"none"} :
          Told(i, [probes[i] EXCEPT !.at = IF auditor.verifier THEN "local" ELSE "done",
                     !.ok = TRUE, !.said = said, !.trace = trace, !.provider = provider])
  /\ UNCHANGED <<auditor, stage, report, pins, feedback>>

\* With teeVerifierUrl set, the envelope is checked once more.
Local(i) ==
  /\ Asking(i, "local")
  /\ \E verdict \in IF probes[i].env = <<>> THEN {"null"}
                    ELSE reverifyAttestationLocally(probes[i].env[1]) :
       Told(i, [probes[i] EXCEPT !.at = "done", !.locally = verdict])
  /\ UNCHANGED <<auditor, stage, report, pins, feedback>>

\* Whoever holds the header may check it with the library.
Attest(i) ==
  /\ probes[i].at = "done" /\ probes[i].env # <<>> /\ probes[i].checked = "none"
  /\ auditor.verifier
  /\ \E strict, hasVerifier \in BOOLEAN, signed \in {"not", "by the signer", "by another"} :
     \E verdict \in verifyTeeAttestation(probes[i].env[1], strict, hasVerifier, signed) :
       Told(i, [probes[i] EXCEPT !.checked = verdict])
  /\ UNCHANGED <<auditor, stage, report, pins, feedback>>

attestation_root(i) == IF probes[i].trace = "true" THEN "sentinel" ELSE probes[i].header

\* A missing trace is unknown, not a refusal.
tee_verified(i) ==
  CASE probes[i].trace = "absent" -> "null"
    [] probes[i].trace = "true"   -> "true"
    [] probes[i].trace = "other"  -> "false"

-----------------------------------------------------------------------------
(* runAudit                                                                *)

\* What the last probe to tell told, of what `field' says of each.
LastTold(field, nothing) ==
  LET told == {i \in DOMAIN probes : probes[i].ok /\ field[i] # nothing}
  IN IF told = {} THEN nothing ELSE field[Max(told)]

ProbeRoots == [i \in DOMAIN probes |-> attestation_root(i)]
ProbeTraces == [i \in DOMAIN probes |-> tee_verified(i)]
ProbeProviders == [i \in DOMAIN probes |-> probes[i].provider]

Verdict ==
  AggregateVerdict([i \in DOMAIN probes |->
    IF probes[i].ok THEN parseProbeResponse(probes[i].said) ELSE "null"])

\* What runAudit posts: the value, and its decimals.
PostedValue ==
  CASE Verdict = "compliant"     -> <<100, 0>>
    [] Verdict = "non_compliant" -> <<0, 0>>
    [] Verdict = "unclear"       -> <<50, 0>>

Draft(evidence, value) ==
  [evidence |-> evidence, value |-> value, uri |-> NoUri, hash |-> ZERO_HASH, feedbackTx |-> FALSE]

\* The orchestrator's report: the header is evidence if it is hexadecimal.
OrchestratorDraft ==
  Draft([verdict |-> Verdict, tee |-> LastTold(ProbeTraces, "null"),
         provider |-> LastTold(ProbeProviders, "none"),
         attestation |-> IF LastTold(ProbeRoots, "none") = "hex" THEN "hex" ELSE "none"],
        CASE Verdict = "compliant"     -> <<100, 2>>
          [] Verdict = "non_compliant" -> <<-100, 2>>
          [] Verdict = "unclear"       -> <<0, 2>>)

\* The adapter's report: whatever the root is, and nothing of the trace.
AdapterDraft ==
  Draft([verdict |-> Verdict, tee |-> "null", provider |-> "none",
         attestation |-> LastTold(ProbeRoots, "none")],
        PostedValue)

\* The canonical bytes have neither the feedback's hash nor its transaction.
canonicalizeAuditReport(r) ==
  LET bytes == [evidence |-> r.evidence, value |-> r.value, uri |-> r.uri]
  IN [bytes |-> bytes, hash |-> [of |-> "report", bytes |-> <<bytes>>]]

\* The bytes are kept, or an error of the storage or of its SDK is thrown, which
\* is no proof that they are not.
upload(bytes) ==
  {[ok |-> TRUE, kept |-> {bytes}]} \cup {[ok |-> FALSE, kept |-> k] : k \in {{}, {bytes}}}

Populated(draft, canonical) ==
  [draft EXCEPT !.uri = Root(canonical.bytes), !.hash = canonical.hash]

\* Mutant of writeAuditReport: the hash is that of the report it returns.
writeAuditReportLate(draft) ==
  LET early == canonicalizeAuditReport(draft)
      late == canonicalizeAuditReport(Populated(draft, early))
  IN {[report |-> [Populated(draft, early) EXCEPT !.hash = late.hash], kept |-> {early.bytes}]}

\* The report is populated only if it could be pinned.
writeAuditReport(draft) ==
  LET canonical == canonicalizeAuditReport(draft)
  IN IF auditor.storage # "on" THEN {[report |-> draft, kept |-> {}]}
     ELSE {[report |-> IF up.ok THEN Populated(draft, canonical) ELSE draft, kept |-> up.kept]
             : up \in upload(canonical.bytes)}

AllDone == \A i \in DOMAIN probes : probes[i].at = "done"

\* skipReceiptPost: a workflow is in no registry.
AfterReport == IF auditor.by = "workflow" THEN "returned" ELSE "post"

\* buildFeedbackAnchor.  buildAuditReport throws on an identity of the
\* environment that is not hexadecimal, and the audit with it.
Anchor ==
  /\ stage = "probes" /\ AllDone
  /\ \/ stage' = "rejected" /\ UNCHANGED <<report, pins>>
     \/ /\ auditor.by = "adapter"
        /\ report' = <<[AdapterDraft EXCEPT !.hash = canonicalizeAuditReport(AdapterDraft).hash]>>
        /\ stage' = AfterReport /\ UNCHANGED pins
     \/ /\ auditor.by # "adapter"
        /\ \E written \in writeAuditReport(OrchestratorDraft) :
             report' = <<written.report>> /\ pins' = pins \cup written.kept
        /\ stage' = AfterReport
  /\ UNCHANGED <<auditor, probes, feedback>>

\* What giveFeedback is called with: the adapter has no anchor, and the hash is
\* that of the feedback's own fields.
Feedback ==
  [status |-> "pending", value |-> PostedValue,
   uri |-> IF auditor.by = "adapter" THEN Placeholder ELSE report[1].uri,
   hash |-> IF auditor.by = "adapter" THEN [of |-> "feedback", bytes |-> <<>>] ELSE report[1].hash]

stampFeedbackTx == report' = <<[report[1] EXCEPT !.feedbackTx = TRUE]>>

\* postReceipt: an error after the transaction was sent is an error.
Post ==
  /\ stage = "post"
  /\ stage' = "returned"
  /\ \/ feedback' \in {feedback, Feedback} /\ UNCHANGED report
     \/ /\ feedback' = Feedback
        /\ IF auditor.by = "adapter" THEN UNCHANGED report ELSE stampFeedbackTx
  /\ UNCHANGED <<auditor, probes, pins>>

MinePost ==
  /\ feedback.status = "pending"
  /\ \E status \in {"mined", "reverted"} : feedback' = [feedback EXCEPT !.status = status]
  /\ UNCHANGED <<auditor, probes, stage, report, pins>>

EvidenceNext ==
  \/ \E i \in DOMAIN probes : Fetch(i) \/ Body(i) \/ Local(i) \/ Attest(i)
  \/ Anchor \/ Post \/ MinePost

-----------------------------------------------------------------------------
(* Properties                                                              *)

\* The feedback on chain can be checked (audit-report.ts:240): if it names a
\* root, the storage has the bytes, and they hash to what was posted; if it names
\* nothing its hash is nothing; and only the adapter posts a placeholder.  What
\* the audit returns is the report that was hashed.
EvidenceChecksOut ==
  /\ feedback.status = "mined" =>
       CASE feedback.uri.scheme = "root" ->
              \E bytes \in pins : /\ feedback.uri = Root(bytes)
                                  /\ feedback.hash = canonicalizeAuditReport(bytes).hash
         [] feedback.uri.scheme = "empty" -> feedback.hash = ZERO_HASH
         [] feedback.uri.scheme = "placeholder" -> auditor.by = "adapter"
  /\ \A k \in DOMAIN report :
       /\ report[k].feedbackTx => feedback.status # "none"
       /\ report[k].uri # NoUri => report[k].uri.of[1] \in pins
       /\ report[k].hash # ZERO_HASH => report[k].hash.bytes[1].evidence = report[k].evidence

\* A claim about a TEE is somebody's (zg-router.ts:43 and :199): a report says that
\* a probe was attested, or was not, only if the router said so of a probe, and is
\* silent only if the router was; and what the sidecar accepted is a TDX quote
\* made for the address, and for the nonce, that the envelope names.
TeeClaimIsTraced ==
  /\ \A k \in DOMAIN report :
       LET Said(trace) == \E i \in DOMAIN probes : probes[i].ok /\ probes[i].trace = trace
           tee == report[k].evidence.tee
       IN /\ tee = "true" => Said("true")
          /\ tee = "false" => Said("other")
          /\ tee = "null" /\ auditor.by # "adapter" => ~Said("true") /\ ~Said("other")
          /\ report[k].evidence.attestation = "hex" => \E i \in DOMAIN probes : probes[i].ok /\ probes[i].header = "hex"
  /\ \A i \in DOMAIN probes :
       probes[i].locally = "true" \/ probes[i].checked = "strict" => Bound(probes[i].env[1])

=============================================================================
