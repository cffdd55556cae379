------------------------------ MODULE AuditCore ------------------------------
(***************************************************************************)
(* From the answers of the probes to the verdict of an audit,              *)
(* apps/agents/audit/src/audit-core.ts.                                    *)
(***************************************************************************)
EXTENDS FiniteSets, Naturals

CONSTANT Quorum   \* "all" or "majority"

ASSUME QuorumAssumption == Quorum \in {"all", "majority"}

Verdicts == {"compliant", "non_compliant", "unclear"}

\* A response is JSON of the expected form, with or without a code fence, or not.
parseProbeResponse(said) == IF said \in {"yes", "no"} THEN said ELSE "null"

\* Verdict aggregation over the probes' answers; "null" is a probe that failed or
\* answered in another form.
AggregateVerdict(answers) ==
  LET Saying(a) == {p \in DOMAIN answers : answers[p] = a}
      Majority(a) == 2 * Cardinality(Saying(a)) > Cardinality(DOMAIN answers)
  IN IF DOMAIN answers = {} THEN "unclear"
     ELSE IF Quorum = "all"
     THEN IF Saying("no") # {} THEN "non_compliant"
          ELSE IF Saying("null") # {} THEN "unclear" ELSE "compliant"
     ELSE IF Majority("yes") THEN "compliant"
          ELSE IF Majority("no") THEN "non_compliant" ELSE "unclear"
=============================================================================
