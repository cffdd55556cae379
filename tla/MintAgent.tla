----------------------------- MODULE MintAgent -----------------------------
(***************************************************************************)
(* apps/mint-agent: the program that provisions an agent with a chain of   *)
(* transactions on three chains (index.ts, main): it mints the iNFT and    *)
(* registers the agent on 0G, claims a subname and grants a spend cap at   *)
(* the same time, writes the text records, and deploys the receiver        *)
(* wallet; and mintAgent, which the terminal calls to mint an iNFT only.   *)
(* Every call is simulated, written and waited for; the simulation tells   *)
(* the ids, the status of the receipt is not read, and a wait that runs    *)
(* out of time fails the step although its transaction may be mined later. *)
(* On failure the program prints the steps it has completed, and exits.    *)
(*                                                                         *)
(* Several programs run at a time, each with a signer and an owner of its  *)
(* own.  The values of the metadata that are not ids are left out.         *)
(***************************************************************************)
EXTENDS Integers, Sequences, FiniteSets

CONSTANTS
  Minters,     \* the programs
  Labels,      \* the names they are given
  Unclaimed    \* the holder of a label nobody has claimed

ASSUME MintersAssumption == Unclaimed \notin Minters

VARIABLES
  nft,         \* the program that minted each iNFT, by token id
  registry,    \* the program and the token of each agent, by agent id
  names,       \* what each label's name holds
  capped,      \* the programs that granted their cap
  receivers,   \* the tokens whose receiver wallet is deployed
  sent,        \* the transactions
  minters      \* the state of each program that was started

chains == <<nft, registry, names, capped, receivers>>
mintVars == <<chains, sent, minters>>

-----------------------------------------------------------------------------
(* What a program does: its steps, and when each can start                 *)

STEPS == {"mint", "register", "subname", "cap", "resolver", "records", "deploy"}

\* The arguments and the environment: mintAgent is the library entry, which
\* stops after the mint.
CliArgs == {[library |-> FALSE, ens |-> e, factory |-> f, label |-> l] :
              e \in BOOLEAN, f \in BOOLEAN, l \in Labels}
mintAgent == {[library |-> TRUE, ens |-> FALSE, factory |-> FALSE, label |-> l] : l \in Labels}

Planned(args) ==
  IF args.library THEN {"mint"}
  ELSE {"mint", "register", "cap"}
         \cup (IF args.ens THEN {"subname", "resolver", "records"} ELSE {})
         \cup (IF args.factory THEN {"deploy"} ELSE {})

Running(m) == minters[m].end = "none"
Is(m, step, state) == minters[m].at[step] = state
Did(m, step) == Is(m, step, "done")
Ended(m, step) == Did(m, step) \/ Is(m, step, "failed")

Named(m) == names[minters[m].args.label]

Ready(m, step) ==
  /\ Running(m) /\ step \in Planned(minters[m].args) /\ Is(m, step, "todo")
  /\ CASE step = "mint"     -> TRUE
       [] step = "register" -> Did(m, "mint")
       [] step = "cap"      -> Did(m, "register")
       [] step = "subname"  -> Did(m, "register")
       [] step = "resolver" -> {"subname", "cap"} \subseteq minters[m].completed
       [] step = "records"  -> Did(m, "resolver")
       [] step = "deploy"   -> IF minters[m].args.ens THEN Did(m, "records")
                               ELSE "cap" \in minters[m].completed

-----------------------------------------------------------------------------
MintTypeOK ==
  /\ nft \in Seq(Minters)
  /\ capped \subseteq Minters
  /\ DOMAIN minters \subseteq Minters
  /\ \A m \in DOMAIN minters : /\ minters[m].completed \subseteq STEPS
                               /\ minters[m].end \in {"none", "done", "failed"}
  /\ \A tx \in sent : tx.state \in {"pending", "mined", "reverted"}

\* What the programs of the set start from.
MintInit(started) ==
  /\ nft = <<>> /\ registry = <<>> /\ capped = {} /\ receivers = {} /\ sent = {}
  /\ names = [l \in Labels |-> [holder |-> Unclaimed, resolver |-> FALSE, inft |-> 0]]
  /\ minters \in [started ->
       {[args |-> args, at |-> [s \in STEPS |-> "todo"], token |-> 0, agent |-> 0,
         completed |-> {}, lost |-> {}, end |-> "none"] : args \in CliArgs \cup mintAgent}]

-----------------------------------------------------------------------------
(* The chains                                                              *)

\* Whether the contract takes the call of a step: a label is claimed once, its
\* holder writes its records, and a receiver wallet is deployed once.
Accepts(m, step) ==
  /\ step \in {"resolver", "records"} => Named(m).holder = m
  /\ step = "subname" => Named(m).holder = Unclaimed
  /\ step = "deploy" => minters[m].token \notin receivers

SetName(m, field, value) ==
  names' = [names EXCEPT ![minters[m].args.label][field] = value]

Effect(m, step) ==
  \/ step = "mint" /\ nft' = Append(nft, m) /\ UNCHANGED <<registry, names, capped, receivers>>
  \/ /\ step = "register"
     /\ registry' = Append(registry, [by |-> m, token |-> minters[m].token])
     /\ UNCHANGED <<nft, names, capped, receivers>>
  \/ step = "cap" /\ capped' = capped \cup {m} /\ UNCHANGED <<nft, registry, names, receivers>>
  \/ step = "subname" /\ SetName(m, "holder", m) /\ UNCHANGED <<nft, registry, capped, receivers>>
  \/ step = "resolver" /\ SetName(m, "resolver", TRUE) /\ UNCHANGED <<nft, registry, capped, receivers>>
  \/ /\ step = "records" /\ SetName(m, "inft", minters[m].token)
     /\ UNCHANGED <<nft, registry, capped, receivers>>
  \/ /\ step = "deploy" /\ receivers' = receivers \cup {minters[m].token}
     /\ UNCHANGED <<nft, registry, names, capped>>

Mine(tx) ==
  /\ tx.state = "pending"
  /\ IF Accepts(tx.by, tx.step)
       THEN Effect(tx.by, tx.step) /\ sent' = (sent \ {tx}) \cup {[tx EXCEPT !.state = "mined"]}
       ELSE sent' = (sent \ {tx}) \cup {[tx EXCEPT !.state = "reverted"]} /\ UNCHANGED chains
  /\ UNCHANGED minters

Landed(m, step) == \E tx \in sent : tx.by = m /\ tx.step = step /\ tx.state # "pending"

-----------------------------------------------------------------------------
(* The executor: simulate, write, wait for the receipt                     *)

\* The next token and agent are those of the simulation.
SendStep(m, step) ==
  /\ Ready(m, step) /\ Accepts(m, step)
  /\ sent' = sent \cup {[by |-> m, step |-> step, state |-> "pending"]}
  /\ minters' = [minters EXCEPT
       ![m].at[step] = "sent",
       ![m].token = IF step = "mint" THEN Len(nft) + 1 ELSE @,
       ![m].agent = IF step = "register" THEN Len(registry) + 1 ELSE @]
  /\ UNCHANGED chains

\* failPartial, at once or when Promise.all has both results.
Failing(m, step) == IF step \in {"subname", "cap"} THEN "none" ELSE "failed"

\* The simulation reverts, or the endpoint does not answer.
SendFails(m, step) ==
  /\ Ready(m, step)
  /\ minters' = [minters EXCEPT ![m].at[step] = "failed", ![m].end = Failing(m, step)]
  /\ UNCHANGED <<chains, sent>>

\* The step is not answered in time: what became of it is not known.
WaitFails(m, step) ==
  /\ Running(m) /\ Is(m, step, "sent")
  /\ minters' = [minters EXCEPT ![m].at[step] = "failed", ![m].end = Failing(m, step),
                                ![m].lost = @ \cup {step}]
  /\ UNCHANGED <<chains, sent>>

\* The steps a receipt adds to what is printed: those of Promise.all are added
\* by Join, and the resolver's with the records.
Completes(m, step) ==
  CASE step \in {"subname", "cap", "resolver"} -> {}
    [] step = "records" -> {"resolver", "records"}
    [] OTHER -> {step}

EndOf(m, completed) == IF completed = Planned(minters[m].args) THEN "done" ELSE "none"

Complete(m, step, more) ==
  LET completed == minters[m].completed \cup more IN
    minters' = [minters EXCEPT ![m].at = [s \in STEPS |-> IF s = step THEN "done" ELSE @[s]],
                               ![m].completed = completed, ![m].end = EndOf(m, completed)]

Receipt(m, step) ==
  /\ Running(m) /\ Is(m, step, "sent") /\ Landed(m, step)
  /\ Complete(m, step, Completes(m, step))
  /\ UNCHANGED <<chains, sent>>

\* Mutant of Join: the subname's result is not looked at.
JoinUnchecked(m) ==
  /\ Running(m) /\ "cap" \notin minters[m].completed /\ Ended(m, "cap")
  /\ minters[m].args.ens => Ended(m, "subname")
  /\ IF Did(m, "cap")
       THEN Complete(m, "cap", {"subname", "cap"} \cap Planned(minters[m].args))
       ELSE minters' = [minters EXCEPT ![m].end = "failed"]
  /\ UNCHANGED <<chains, sent>>

\* The cap has its result, and the subname if there is one; the subname's is
\* looked at first.
Join(m) ==
  /\ Running(m) /\ "cap" \notin minters[m].completed /\ Ended(m, "cap")
  /\ minters[m].args.ens => Ended(m, "subname")
  /\ IF Did(m, "cap") /\ (minters[m].args.ens => Did(m, "subname"))
       THEN Complete(m, "cap", {"subname", "cap"} \cap Planned(minters[m].args))
       ELSE minters' = [minters EXCEPT
              ![m].end = "failed",
              ![m].completed = @ \cup (IF minters[m].args.ens /\ Did(m, "subname")
                                         THEN {"subname"} ELSE {})]
  /\ UNCHANGED <<chains, sent>>

MintStep(m) ==
  /\ m \in DOMAIN minters
  /\ \/ \E step \in STEPS : SendStep(m, step) \/ SendFails(m, step) \/ WaitFails(m, step) \/ Receipt(m, step)
     \/ Join(m)

MintNext == (\E m \in Minters : MintStep(m)) \/ (\E tx \in sent : Mine(tx))

-----------------------------------------------------------------------------
(* Properties                                                              *)

\* What a program prints when it ends (index.ts:280, 439), as far as the code keeps
\* to "a clear PARTIAL ON-CHAIN block listing every tx that DID land" (:218): each
\* step it lists was mined, well or as a revert; a success lists them all; and of
\* what was mined a failure leaves out at most the steps it got no answer for in
\* time, and two that the block omits although they landed: the cap, when the
\* subname failed (the check of the subname comes first, :368), and the resolver,
\* when the records failed (its hash is lost with the exception, :398).
ReportIsTrue ==
  \A m \in DOMAIN minters :
    /\ \A step \in minters[m].completed : Landed(m, step)
    /\ minters[m].end = "done" => minters[m].completed = Planned(minters[m].args)
    /\ minters[m].end = "failed" =>
         \A step \in STEPS \ minters[m].completed :
           Landed(m, step) =>
             \/ step \in minters[m].lost
             \/ step = "cap" /\ Is(m, "subname", "failed")
             \/ step = "resolver" /\ Is(m, "records", "failed")

=============================================================================
