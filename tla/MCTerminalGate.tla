---------------------------- MODULE MCTerminalGate ----------------------------
(***************************************************************************)
(* The terminal and the gate of a spend cap, two instances that share      *)
(* nothing, for TLC to check in one run; `system' says which one moves.    *)
(* The terminal has two dispatchers side by side; what the gate does       *)
(* inside an await of one is checked with two enforced runs on one cap.    *)
(***************************************************************************)
EXTENDS Terminal, MCSpendCapGate

VARIABLE system

\* One command of each pattern: the others have the awaits of one of these.
MCKinds == {"audit", "askOracle", "aaDeploy", "khHire", "reveal"}

\* The cap could not be read.
NoGate ==
  /\ Init
  /\ step = [r \in Runs |-> "done"]
  /\ outcome = [r \in Runs |-> "threw"]
  /\ tx = [r \in Runs |-> "none"]
  /\ seen = [r \in Runs |-> NoCap]

MCInit ==
  /\ TerminalInit
  /\ \/ system = "terminal" /\ NoGate
     \/ system = "gate" /\ GateInit

MCNext ==
  \/ system = "terminal" /\ TerminalNext /\ UNCHANGED <<allVars, system>>
  \/ system = "gate" /\ GateNext /\ UNCHANGED <<terminalVars, system>>

\* The fairness of FairTerminalSpec and of FairGateSpec; the one that does not
\* move has no fair action enabled.
MCSpec ==
  /\ MCInit /\ [][MCNext]_<<terminalVars, allVars, system>>
  /\ \A t \in 1 .. MaxDispatches : WF_terminalVars(t \in DOMAIN tasks /\ Step(t))
  /\ \A r \in Runs : WF_allVars(Settle(r))
=============================================================================
