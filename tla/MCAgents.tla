------------------------------ MODULE MCAgents ------------------------------
(***************************************************************************)
(* Three instances that share nothing, for TLC to check in one run; the    *)
(* parts that do not move are empty.                                       *)
(*                                                                         *)
(* Provisioning: two programs of mint-agent.  Operating: two commands of   *)
(* an operator.  Buying: one purchase of an agent's service, whose payload *)
(* may be sent three times.                                                *)
(***************************************************************************)
EXTENDS MintAgent, Operator, Marketplace

CONSTANTS m1, m2

MCCommands ==
  {Transfer("USDC", 2, TRUE), Transfer("ETH", 2, FALSE), Transfer("USDC", 0, TRUE),
   Swap("USDC", "ETH", 2), Swap("ETH", "USDC", 2), Swap("WETH", "USDC", 2), Swap("ETH", "WETH", 1),
   Park(1), Unpark(2), AaSend(2)}

\* One refusal at a time, and each service that fits at either price.
Items ==
  {i \in Catalog : Cardinality({f \in {"slug", "inputs", "bearer", "wired"} :
     \/ f = "slug" /\ ~i.slug
     \/ f = "inputs" /\ i.inputs # "fit"
     \/ f = "bearer" /\ ~i.bearer
     \/ f = "wired" /\ ~i.wired}) <= 1}

Quiet == OpInit(0) /\ vault.idle = 0 /\ ~vault.owned /\ account.deployed

\* The first program is the CLI's, with a receiver wallet; the second is the
\* library's, or claims a name.
Provisioning ==
  /\ MintInit(Minters)
  /\ minters[m1].args.ens /\ minters[m1].args.factory
  /\ minters[m2].args.ens # minters[m2].args.factory \/ minters[m2].args.library
  /\ Quiet /\ MarketInit({}, Items)

Operating == MintInit({}) /\ OpInit(MaxCommands) /\ MarketInit({}, Items)

Buying == MintInit({}) /\ Quiet /\ MarketInit(Purchases, Items)

Init == Provisioning \/ Operating \/ Buying

Next ==
  \/ MintNext /\ UNCHANGED <<opVars, marketVars>>
  \/ OpNext /\ UNCHANGED <<mintVars, marketVars>>
  \/ MarketNext /\ UNCHANGED <<mintVars, opVars>>

vars == <<mintVars, opVars, marketVars>>

AgentStep ==
  /\ \/ (\E m \in Minters : MintStep(m)) /\ UNCHANGED opVars
     \/ (\E r \in DOMAIN runs : RunStep(r)) /\ UNCHANGED mintVars
  /\ UNCHANGED marketVars

\* Every call of an endpoint returns or runs out of time; nothing is assumed of the
\* chains, nor of a purchase.  The fetches of the bundler have no timeout of their own
\* (userop.ts:278, :341), and are assumed to return.
Spec == Init /\ [][Next]_vars /\ WF_vars(AgentStep)

\* Every program and every command ends, whatever the chains and the endpoints
\* do (index.ts:453 of mint-agent, and the catch blocks of the agents).
EveryAgentEnds ==
  []<>(/\ \A m \in DOMAIN minters : minters[m].end # "none"
       /\ \A r \in DOMAIN runs : runs[r].at = "ended")
=============================================================================
