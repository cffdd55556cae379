---------------------------- MODULE MCAgentsRelay ----------------------------
(* The agents and the relay, two instances that share nothing, for TLC to    *)
(* check in one run; `system' says which one moves.  The other has nothing   *)
(* to do, or is done.                                                        *)
EXTENDS MCAgents, MCMultiLegRelay

VARIABLE system

NoAgents == MintInit({}) /\ Quiet /\ MarketInit({}, Items)

\* The nonce store threw at every call, and the clock has run out.
NoRelay ==
  /\ now = MaxTime
  /\ used = {}
  /\ pc = [c \in Calls |-> "done"]
  /\ results = [c \in Calls |-> <<>>]
  /\ rejection = [c \in Calls |-> "threw"]
  /\ mempool = [ch \in Executors |-> <<>>]
  /\ receipt = [c \in Calls |-> [i \in LegIndexes(c) |-> Unsent]]
  /\ allowance = [ch \in Executors |-> 0]
  /\ balance = [ch \in Executors |-> RelayerFunds]
  /\ startedAt = [c \in Calls |-> 0]
  /\ retries = {}

MCInit ==
  \/ system = "agents" /\ Init /\ NoRelay
  \/ system = "relay" /\ NoAgents /\ RelayInit

MCNext ==
  \/ system = "agents" /\ Next /\ UNCHANGED <<relayVars, system>>
  \/ system = "relay" /\ RelayNext /\ UNCHANGED <<vars, system>>

\* The fairness of Spec and of FairRelaySpec, asked of the one that moves.
MCSpec ==
  /\ MCInit /\ [][MCNext]_<<vars, relayVars, system>>
  /\ WF_vars(system = "agents" /\ AgentStep)
  /\ \A c \in Calls : WF_relayVars(system = "relay" /\ Step(c))
=============================================================================
