------------------------------ MODULE MCRouter ------------------------------
(***************************************************************************)
(* The router and its audit writer, two instances that TLC checks in one   *)
(* run; `system' says which one moves.  What the router hands to the       *)
(* writer is what `logged' tells; the writer is checked under any sequence *)
(* of enqueue calls.                                                       *)
(*                                                                         *)
(* The router: one route at a time, two x402 providers cheaper than the    *)
(* budget of a consensus call and one at its edge, and a provider in a TEE.*)
(* The writer: six events through a queue of two, a storage that fails    *)
(* and recovers.                                                           *)
(***************************************************************************)
EXTENDS Router, AuditWriter

VARIABLE system

MCProviders == 1 .. 4
MCPrice == <<1, 1, 2, 3>>
MCLatency == <<2, 1, 1, 2>>
Want(requested, cost, type, critical) ==
  [requested |-> requested, cost |-> cost, latency |-> 2, type |-> type,
   critical |-> critical, allowUpgrade |-> TRUE, allowDowngrade |-> TRUE]
MCIntents ==
  {Want("fast", 1, "freeform", FALSE), Want("verified", 3, "freeform", TRUE),
   Want("pipeline", 6, "freeform", FALSE),
   Want("pipeline", 5, "freeform", FALSE), Want("consensus", 6, "categorical", FALSE)}
    \cup {Want("consensus", 9, type, FALSE) : type \in {"freeform", "categorical", "numeric", "json"}}
MCClassifications ==
  {[score |-> 2, recommended |-> "fast", confidence |-> 8],
   [score |-> 2, recommended |-> "fast", confidence |-> 6],
   [score |-> 7, recommended |-> "consensus", confidence |-> 7]}
MCRootScope ==
  [modes |-> DOMAIN Tier, cost |-> 9, latency |-> 2, ttl |-> 2, expiresAt |-> 2]
MCOverrides ==
  {[modes |-> DOMAIN Tier, cost |-> 6, latency |-> 2, ttl |-> 2],
   [modes |-> {"fast", "verified"}, cost |-> 9, latency |-> 1, ttl |-> 1]}
Objects == UNION {[S -> {0, 1}] : S \in SUBSET {"a", "b"}} \cup {Malformed}
\* Two objects may deviate in three of five keys and score the threshold.
WideObjects == [{"a", "b", "c", "d", "e"} -> {0, 1}]
MCAnswers ==
  [categorical |-> [n \in {2, 3} |-> [1 .. n -> {0, 1, 2}]],
   freeform |-> [n \in {2, 3} |-> {[sim |-> s, n |-> n] : s \in [Pairs(n) -> {0, 6, 7, 10}] \cup {Blank}}],
   numeric |-> [n \in {2, 3} |-> [1 .. n -> {NaN, 0, 1, 10, 11, 13, 100}]],
   json |-> [n \in {2, 3} |-> [1 .. n -> Objects] \cup IF n = 2 THEN [1 .. n -> WideObjects] ELSE {}]]

MCInit == Init /\ WriterInit /\ system \in {"router", "writer"}

MCNext ==
  \/ system = "router" /\ Next /\ UNCHANGED <<writerVars, system>>
  \/ system = "writer" /\ WriterNext /\ UNCHANGED <<vars, system>>

\* The fairness of both, Router's FairSpec and WriterFairSpec; the one that does
\* not move has no fair action enabled.
MCSpec ==
  /\ MCInit /\ [][MCNext]_<<vars, writerVars, system>>
  /\ \A r \in Requests :
       WF_vars(Select(r)) /\ WF_vars(Conclude(r)) /\ \A k \in 1 .. 3 : WF_vars(Call(r, k))
  /\ WF_writerVars(TimerFlush) /\ WF_writerVars(Upload) /\ SF_writerVars(UploadOk)
=============================================================================
