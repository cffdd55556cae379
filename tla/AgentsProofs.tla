----------------------------- MODULE AgentsProofs -----------------------------
(***************************************************************************)
(* The programs that act for an agent or for its buyer, each proved for    *)
(* any number of itself and however the chains, the endpoints and the      *)
(* services answer:                                                        *)
(*                                                                         *)
(*   MintAgent    what a provisioning program prints is what was mined;    *)
(*   Operator     what an agent of the operator answers is what became of  *)
(*                its transaction, no balance is ever negative, and the    *)
(*                swap router keeps nothing;                               *)
(*   Marketplace  a paid call is worked for at most once and settled only  *)
(*                for work, and the buyer is told what became of its money.*)
(*                                                                         *)
(* ZeroHashIsFree fails: it holds when the gate tells the hash of what it  *)
(* settled, where the buyer looks for it.                                  *)
(***************************************************************************)
EXTENDS MintAgent, Operator, Marketplace, FiniteSetTheorems, SequenceTheorems, TLAPS

-----------------------------------------------------------------------------
(* MintAgent                                                               *)

MintSpec == MintInit(Minters) /\ [][MintNext]_mintVars

Arguments == CliArgs \cup mintAgent

MinterStates ==
  [args : Arguments, at : [STEPS -> {"todo", "sent", "done", "failed"}],
   token : Nat, agent : Nat, completed : SUBSET STEPS, lost : SUBSET STEPS,
   end : {"none", "done", "failed"}]

Entries == [by : Minters, token : Nat]

MintTxs == [by : Minters, step : STEPS, state : {"pending", "mined", "reverted"}]

SentIn(S, m, step) == \E tx \in S : tx.by = m /\ tx.step = step
LandedIn(S, m, step) == \E tx \in S : tx.by = m /\ tx.step = step /\ tx.state # "pending"

\* The order of the steps, and which are printed: a step follows the ones it
\* needs, and what is done is printed except for the steps that are printed later.
Ordered(st) ==
  /\ \A s \in STEPS : st.at[s] # "todo" => s \in Planned(st.args)
  /\ \A s \in st.completed : st.at[s] = "done"
  /\ \A s \in {"mint", "register", "records", "deploy"} : st.at[s] = "done" => s \in st.completed
  /\ st.at["register"] # "todo" => st.at["mint"] = "done"
  /\ st.at["cap"] # "todo" \/ st.at["subname"] # "todo" => st.at["register"] = "done"
  /\ "cap" \in st.completed /\ st.args.ens => "subname" \in st.completed
  /\ st.at["resolver"] # "todo" => {"subname", "cap"} \subseteq st.completed
  /\ st.at["records"] # "todo" => st.at["resolver"] = "done"
  /\ st.at["records"] = "done" => "resolver" \in st.completed
  /\ st.at["deploy"] # "todo" =>
       "cap" \in st.completed /\ (st.args.ens => st.at["records"] = "done")

\* Why a step that was sent is not among those a failure prints.
Excused(st, step) ==
  \/ step \in st.lost
  \/ step = "cap" /\ st.at["subname"] = "failed"
  \/ step = "resolver" /\ st.at["records"] = "failed"

\* A transaction that is pending when its program fails may be mined later: what
\* a failure leaves out is explained for what was sent, mined or not.
MinterOk(st, m, S) ==
  /\ st \in MinterStates
  /\ Ordered(st)
  /\ \A s \in STEPS : st.at[s] = "done" => LandedIn(S, m, s)
  /\ \A s \in STEPS : SentIn(S, m, s) => st.at[s] \in {"sent", "done"} \/ s \in st.lost
  /\ st.end = "done" => st.completed = Planned(st.args)
  /\ st.end = "failed" => \A s \in STEPS \ st.completed : SentIn(S, m, s) => Excused(st, s)

MintInv ==
  /\ nft \in Seq(Minters) /\ registry \in Seq(Entries)
  /\ capped \subseteq Minters
  /\ sent \subseteq MintTxs
  /\ DOMAIN minters \subseteq Minters
  /\ minters = [m \in DOMAIN minters |-> minters[m]]
  /\ \A tx \in sent : tx.by \in DOMAIN minters
  /\ \A m \in DOMAIN minters : MinterOk(minters[m], m, sent)

-----------------------------------------------------------------------------

\* A step of one program, which may send a transaction of its own.
LEMMA MinterKeeps ==
  ASSUME MintInv, NEW m \in DOMAIN minters, NEW new, MinterOk(new, m, sent'),
         minters' = [minters EXCEPT ![m] = new],
         NEW mine \in SUBSET MintTxs, \A tx \in mine : tx.by = m, sent' = sent \cup mine,
         UNCHANGED chains
  PROVE  MintInv'
<1>1. /\ DOMAIN minters' = DOMAIN minters /\ minters'[m] = new
      /\ minters' = [k \in DOMAIN minters' |-> minters'[k]]
      /\ \A k \in DOMAIN minters \ {m} : minters'[k] = minters[k]
  BY DEF MintInv
<1>2. ASSUME NEW k \in DOMAIN minters PROVE MinterOk(minters'[k], k, sent')
  <2>1. CASE k = m
    BY <1>1, <2>1
  <2>2. CASE k # m
    <3>1. MinterOk(minters[k], k, sent) /\ minters'[k] = minters[k]
      BY <1>1, <2>2 DEF MintInv
    <3>2. \A s : /\ SentIn(sent', k, s) <=> SentIn(sent, k, s)
                 /\ LandedIn(sent', k, s) <=> LandedIn(sent, k, s)
      BY <2>2 DEF SentIn, LandedIn
    <3> QED
      BY <3>1, <3>2 DEF MinterOk
  <2> QED
    BY <2>1, <2>2
<1>3. sent' \subseteq MintTxs /\ \A tx \in sent' : tx.by \in DOMAIN minters'
  BY <1>1 DEF MintInv
<1> QED
  BY <1>1, <1>2, <1>3 DEF MintInv, chains

\* A transaction is mined: what was sent stays sent, what landed stays landed.
LEMMA MineKeepsMint ==
  ASSUME MintInv, NEW tx \in sent, Mine(tx)
  PROVE  MintInv'
<1>1. tx \in MintTxs /\ tx.by \in DOMAIN minters /\ tx.state = "pending"
  BY DEF MintInv, Mine
<1>2. PICK done \in MintTxs : /\ sent' = (sent \ {tx}) \cup {done}
                              /\ done.by = tx.by /\ done.step = tx.step
  <2>1. /\ [tx EXCEPT !.state = "mined"] \in MintTxs
        /\ [tx EXCEPT !.state = "mined"].by = tx.by
        /\ [tx EXCEPT !.state = "mined"].step = tx.step
        /\ [tx EXCEPT !.state = "reverted"] \in MintTxs
        /\ [tx EXCEPT !.state = "reverted"].by = tx.by
        /\ [tx EXCEPT !.state = "reverted"].step = tx.step
    BY <1>1 DEF MintTxs
  <2> QED
    BY <2>1 DEF Mine
<1>3. \A m, s : /\ SentIn(sent', m, s) => SentIn(sent, m, s)
                /\ LandedIn(sent, m, s) => LandedIn(sent', m, s)
  BY <1>1, <1>2 DEF SentIn, LandedIn
<1>4. minters' = minters
  BY DEF Mine
<1>5. \A m \in DOMAIN minters' : MinterOk(minters'[m], m, sent')
  BY <1>3, <1>4 DEF MintInv, MinterOk
<1>6. sent' \subseteq MintTxs /\ \A t \in sent' : t.by \in DOMAIN minters'
  BY <1>1, <1>2, <1>4 DEF MintInv
<1>7. /\ nft' \in Seq(Minters) /\ registry' \in Seq(Entries)
      /\ capped' \subseteq Minters
  <2>1. tx.by \in Minters /\ minters[tx.by].token \in Nat
    BY <1>1 DEF MintInv, MinterOk, MinterStates
  <2>2. CASE UNCHANGED chains
    BY <2>2 DEF chains, MintInv
  <2>3. CASE Effect(tx.by, tx.step)
    <3>1. nft' = nft \/ nft' = Append(nft, tx.by)
      BY <2>3 DEF Effect
    <3>2. \/ registry' = registry
          \/ registry' = Append(registry, [by |-> tx.by, token |-> minters[tx.by].token])
      BY <2>3 DEF Effect
    <3>3. capped' \subseteq capped \cup {tx.by}
      BY <2>3 DEF Effect
    <3>4. nft' \in Seq(Minters)
      BY <2>1, <3>1 DEF MintInv
    <3>5. [by |-> tx.by, token |-> minters[tx.by].token] \in Entries
      BY <2>1 DEF Entries
    <3>6. registry' \in Seq(Entries)
      <4>1. registry \in Seq(Entries)
        BY DEF MintInv
      <4> DEFINE entry == [by |-> tx.by, token |-> minters[tx.by].token]
      <4>2. entry \in Entries
        BY <3>5
      <4> HIDE DEF entry
      <4>3. registry' = registry \/ registry' = Append(registry, entry)
        BY <3>2 DEF entry
      <4> QED
        BY <4>1, <4>2, <4>3, AppendProperties
    <3> QED
      BY <2>1, <3>3, <3>4, <3>6 DEF MintInv
  <2> QED
    BY <2>2, <2>3 DEF Mine
<1> QED
  BY <1>4, <1>5, <1>6, <1>7 DEF MintInv

-----------------------------------------------------------------------------
(* The steps of a program                                                  *)

\* Nothing of this program is sent by a step it does not send.
LEMMA QuietKeeps ==
  ASSUME MintInv, NEW m \in DOMAIN minters, NEW new, MinterOk(new, m, sent),
         minters' = [minters EXCEPT ![m] = new], UNCHANGED <<chains, sent>>
  PROVE  MintInv'
<1>1. sent' = sent \cup {} /\ {} \in SUBSET MintTxs
  OBVIOUS
<1>2. MinterOk(new, m, sent')
  OBVIOUS
<1> QED
  BY <1>1, <1>2, MinterKeeps

LEMMA PlannedSteps ==
  ASSUME NEW args \in Arguments
  PROVE  /\ Planned(args) \subseteq STEPS
         /\ args.ens \in BOOLEAN /\ args.library \in BOOLEAN
         /\ "subname" \in Planned(args) <=> args.ens
         /\ "resolver" \in Planned(args) <=> args.ens
         /\ "records" \in Planned(args) <=> args.ens
         /\ args.library => Planned(args) = {"mint"}
<1>1. CASE args \in CliArgs
  <2>1. args.ens \in BOOLEAN /\ args.library = FALSE
    BY <1>1 DEF CliArgs
  <2> QED
    BY <2>1 DEF Planned, STEPS
<1>2. CASE args \in mintAgent
  <2>1. args.ens = FALSE /\ args.library = TRUE
    BY <1>2 DEF mintAgent
  <2> QED
    BY <2>1 DEF Planned, STEPS
<1> QED
  BY <1>1, <1>2 DEF Arguments

\* What Ready says of the steps before, in terms of the program's own record.
LEMMA ReadyOrdered ==
  ASSUME NEW m, NEW step \in STEPS, Ready(m, step), MinterOk(minters[m], m, sent)
  PROVE  LET st == minters[m]
         IN  /\ st.end = "none" /\ step \in Planned(st.args) /\ st.at[step] = "todo"
             /\ step = "register" => st.at["mint"] = "done"
             /\ step \in {"cap", "subname"} => st.at["register"] = "done"
             /\ step = "resolver" => {"subname", "cap"} \subseteq st.completed
             /\ step = "records" => st.at["resolver"] = "done"
             /\ step = "deploy" => "cap" \in st.completed
                                  /\ (st.args.ens => st.at["records"] = "done")
<1>1. minters[m].args \in Arguments /\ Ordered(minters[m])
  BY DEF MinterOk, MinterStates
<1>2. CASE step = "deploy"
  BY <1>1, <1>2, PlannedSteps DEF Ready, Running, Is, Did, Ordered
<1>3. CASE step # "deploy"
  BY <1>3 DEF Ready, Running, Is, Did
<1> QED
  BY <1>2, <1>3

\* A step that leaves "todo" or fails keeps the order.
LEMMA OrderedAt ==
  ASSUME NEW st \in MinterStates, Ordered(st), NEW step \in STEPS, NEW state \in {"sent", "failed"},
         st.at[step] \in {"todo", "sent"}, step \in Planned(st.args),
         st.at[step] = "todo" =>
             /\ step = "register" => st.at["mint"] = "done"
             /\ step \in {"cap", "subname"} => st.at["register"] = "done"
             /\ step = "resolver" => {"subname", "cap"} \subseteq st.completed
             /\ step = "records" => st.at["resolver"] = "done"
             /\ step = "deploy" => "cap" \in st.completed
                                  /\ (st.args.ens => st.at["records"] = "done"),
         NEW new \in MinterStates, new.args = st.args, new.completed = st.completed,
         new.at = [st.at EXCEPT ![step] = state]
  PROVE  Ordered(new)
<1>1. st.at \in [STEPS -> {"todo", "sent", "done", "failed"}] /\ st.completed \subseteq STEPS
  BY DEF MinterStates
<1>2. /\ new.at[step] = state
      /\ \A s \in STEPS \ {step} : new.at[s] = st.at[s]
      /\ \A s \in STEPS : st.at[s] = "done" => new.at[s] = "done"
      /\ \A s \in STEPS : new.at[s] = "done" => st.at[s] = "done"
      /\ \A s \in STEPS : new.at[s] = "todo" => st.at[s] = "todo"
      /\ \A s \in STEPS : new.at[s] # "todo" => s = step \/ st.at[s] # "todo"
  BY <1>1
<1>3. {"mint", "register", "subname", "cap", "resolver", "records", "deploy"} \subseteq STEPS
  BY DEF STEPS
<1> QED
  BY <1>1, <1>2, <1>3 DEF Ordered

\* When a step other than the two of Promise.all fails, everything else that was
\* sent has been printed, or is the resolver behind the records.
LEMMA FailureExplained ==
  ASSUME NEW st \in MinterStates, Ordered(st), NEW x \in STEPS \ {"subname", "cap"},
         st.at[x] \in {"todo", "sent"},
         x \in Planned(st.args),
         x = "register" => st.at["mint"] = "done",
         x = "resolver" => {"subname", "cap"} \subseteq st.completed,
         x = "records" => st.at["resolver"] = "done",
         x = "deploy" => "cap" \in st.completed /\ (st.args.ens => st.at["records"] = "done"),
         NEW s \in STEPS \ st.completed, s # x, st.at[s] \in {"sent", "done"}
  PROVE  s = "resolver" /\ x = "records"
<1>1. st.args \in Arguments /\ st.at \in [STEPS -> {"todo", "sent", "done", "failed"}]
  BY DEF MinterStates
<1>2. st.at[s] # "todo" /\ st.at[x] # "done" /\ s \in Planned(st.args)
  BY DEF Ordered
<1>3. /\ "subname" \in Planned(st.args) <=> st.args.ens
      /\ "resolver" \in Planned(st.args) <=> st.args.ens
      /\ "records" \in Planned(st.args) <=> st.args.ens
  BY <1>1, PlannedSteps
<1>4. CASE x = "mint"
  BY <1>1, <1>2, <1>3, <1>4 DEF Ordered, STEPS
<1>5. CASE x = "register"
  BY <1>1, <1>2, <1>3, <1>5 DEF Ordered, STEPS
<1>6. CASE x = "resolver"
  BY <1>1, <1>2, <1>3, <1>6 DEF Ordered, STEPS
<1>7. CASE x = "records"
  BY <1>1, <1>2, <1>3, <1>7 DEF Ordered, STEPS
<1>8. CASE x = "deploy"
  BY <1>1, <1>2, <1>3, <1>8 DEF Ordered, STEPS
<1> QED
  BY <1>4, <1>5, <1>6, <1>7, <1>8 DEF STEPS

LEMMA SendStepKeeps ==
  ASSUME MintInv, NEW m \in DOMAIN minters, NEW step \in STEPS, SendStep(m, step)
  PROVE  MintInv'
<1> DEFINE st == minters[m]
           tx == [by |-> m, step |-> step, state |-> "pending"]
           new == [st EXCEPT !.at = [st.at EXCEPT ![step] = "sent"],
                             !.token = IF step = "mint" THEN Len(nft) + 1 ELSE st.token,
                             !.agent = IF step = "register" THEN Len(registry) + 1 ELSE st.agent]
<1>1. MinterOk(st, m, sent) /\ m \in Minters /\ Ready(m, step)
  BY DEF MintInv, SendStep
<1>2. /\ st \in MinterStates /\ st.at \in [STEPS -> {"todo", "sent", "done", "failed"}]
      /\ st.end = "none" /\ st.at[step] = "todo" /\ Ordered(st) /\ step \in Planned(st.args)
  BY <1>1, ReadyOrdered DEF MinterOk, MinterStates
<1>3. Len(nft) + 1 \in Nat /\ Len(registry) + 1 \in Nat
  BY DEF MintInv
<1>4. /\ new \in MinterStates /\ new.args = st.args /\ new.completed = st.completed
      /\ new.at = [st.at EXCEPT ![step] = "sent"] /\ new.lost = st.lost /\ new.end = "none"
  BY <1>2, <1>3 DEF MinterStates
<1>5. minters' = [minters EXCEPT ![m] = new] /\ sent' = sent \cup {tx}
  BY <1>2 DEF SendStep, MintInv, MinterStates
<1>6. tx \in MintTxs /\ tx.by = m /\ tx.step = step
  BY <1>1 DEF MintTxs
<1> HIDE DEF new, tx
<1>7. Ordered(new)
  BY <1>1, <1>2, <1>4, ReadyOrdered, OrderedAt
<1>8. \A s \in STEPS : new.at[s] = "done" => LandedIn(sent', m, s)
  BY <1>1, <1>2, <1>4, <1>5 DEF MinterOk, LandedIn
<1>9. \A s \in STEPS : SentIn(sent', m, s) => new.at[s] \in {"sent", "done"} \/ s \in new.lost
  BY <1>1, <1>2, <1>4, <1>5, <1>6 DEF MinterOk, SentIn
<1>10. MinterOk(new, m, sent')
  BY <1>4, <1>7, <1>8, <1>9 DEF MinterOk
<1>11. {tx} \in SUBSET MintTxs /\ \A t \in {tx} : t.by = m
  BY <1>6
<1> QED
  BY <1>5, <1>10, <1>11, MinterKeeps DEF SendStep

\* A step fails, before it is sent or while it is waited for.
LEMMA FailsKeepMint ==
  ASSUME MintInv, NEW m \in DOMAIN minters, NEW step \in STEPS,
         SendFails(m, step) \/ WaitFails(m, step)
  PROVE  MintInv'
<1> DEFINE st == minters[m]
           lost == IF Is(m, step, "sent") THEN st.lost \cup {step} ELSE st.lost
           new == [st EXCEPT !.at = [st.at EXCEPT ![step] = "failed"],
                             !.end = Failing(m, step), !.lost = lost]
<1>1. MinterOk(st, m, sent) /\ Ordered(st) /\ st \in MinterStates
  BY DEF MintInv, MinterOk
<1>2. /\ st.at \in [STEPS -> {"todo", "sent", "done", "failed"}] /\ st.lost \subseteq STEPS
      /\ st.end = "none" /\ st.at[step] \in {"todo", "sent"} /\ step \in Planned(st.args)
  BY <1>1, ReadyOrdered DEF SendFails, WaitFails, Running, Is, MinterStates, Ordered
<1>3. Failing(m, step) = IF step \in {"subname", "cap"} THEN "none" ELSE "failed"
  BY DEF Failing
<1>4. /\ new \in MinterStates /\ new.args = st.args /\ new.completed = st.completed
      /\ new.at = [st.at EXCEPT ![step] = "failed"] /\ new.lost = lost
      /\ new.end = Failing(m, step)
  BY <1>1, <1>2, <1>3 DEF MinterStates
<1>5. minters' = [minters EXCEPT ![m] = new] /\ UNCHANGED <<chains, sent>>
  <2>1. CASE SendFails(m, step)
    <3>1. ~Is(m, step, "sent")
      BY <2>1 DEF SendFails, Ready, Is
    <3> QED
      BY <1>1, <2>1, <3>1 DEF SendFails, MinterStates
  <2>2. CASE WaitFails(m, step)
    BY <1>1, <2>2 DEF WaitFails, MinterStates
  <2> QED
    BY <2>1, <2>2
<1> HIDE DEF new
<1>6. st.at[step] = "todo" =>
        /\ step = "register" => st.at["mint"] = "done"
        /\ step \in {"cap", "subname"} => st.at["register"] = "done"
        /\ step = "resolver" => {"subname", "cap"} \subseteq st.completed
        /\ step = "records" => st.at["resolver"] = "done"
        /\ step = "deploy" => "cap" \in st.completed
                             /\ (st.args.ens => st.at["records"] = "done")
  BY <1>1, ReadyOrdered DEF SendFails, WaitFails, Is
<1>7. Ordered(new)
  BY <1>1, <1>2, <1>4, <1>6, OrderedAt
<1>8. \A s \in STEPS : new.at[s] = "done" => LandedIn(sent, m, s)
  BY <1>1, <1>2, <1>4 DEF MinterOk
<1>9. \A s \in STEPS : SentIn(sent, m, s) => new.at[s] \in {"sent", "done"} \/ s \in new.lost
  <2> SUFFICES ASSUME NEW s \in STEPS, SentIn(sent, m, s)
               PROVE  new.at[s] \in {"sent", "done"} \/ s \in new.lost
    OBVIOUS
  <2>1. st.at[s] \in {"sent", "done"} \/ s \in st.lost
    BY <1>1 DEF MinterOk
  <2> QED
    BY <1>2, <1>4, <2>1 DEF Is
<1>10. ASSUME new.end = "failed", NEW s \in STEPS \ new.completed, SentIn(sent, m, s)
       PROVE  Excused(new, s)
  <2>1. step \notin {"subname", "cap"}
    BY <1>3, <1>4, <1>10
  <2>2. CASE s \in new.lost
    BY <2>2 DEF Excused
  <2>3. CASE s \notin new.lost
    <3>1. s # step /\ st.at[s] \in {"sent", "done"}
      BY <1>2, <1>4, <1>9, <1>10, <2>3
    <3>2. s = "resolver" /\ step = "records"
      <4>1. /\ step = "register" => st.at["mint"] = "done"
            /\ step = "resolver" => {"subname", "cap"} \subseteq st.completed
            /\ step = "records" => st.at["resolver"] = "done"
            /\ step = "deploy" => "cap" \in st.completed
                                 /\ (st.args.ens => st.at["records"] = "done")
        BY <1>1, <1>2, <1>6 DEF Ordered
      <4>2. s \in STEPS \ st.completed /\ step \in STEPS \ {"subname", "cap"}
        BY <1>4, <1>10, <2>1
      <4> HIDE DEF st
      <4> QED
        BY <1>1, <1>2, <3>1, <4>1, <4>2, FailureExplained
    <3> QED
      BY <1>2, <1>4, <3>2 DEF Excused, STEPS
  <2> QED
    BY <2>2, <2>3
<1>11. MinterOk(new, m, sent)
  BY <1>3, <1>4, <1>7, <1>8, <1>9, <1>10 DEF MinterOk
<1> QED
  BY <1>5, <1>11, QuietKeeps

\* A receipt: the step is done, and printed if it is one that is printed at once.
LEMMA ReceiptKeepsMint ==
  ASSUME MintInv, NEW m \in DOMAIN minters, NEW step \in STEPS, Receipt(m, step)
  PROVE  MintInv'
<1> DEFINE st == minters[m]
           completed == st.completed \cup Completes(m, step)
           at == [s \in STEPS |-> IF s = step THEN "done" ELSE st.at[s]]
           new == [st EXCEPT !.at = at, !.completed = completed, !.end = EndOf(m, completed)]
<1>1. MinterOk(st, m, sent) /\ Ordered(st) /\ st \in MinterStates
  BY DEF MintInv, MinterOk
<1>2. /\ st.at \in [STEPS -> {"todo", "sent", "done", "failed"}] /\ st.completed \subseteq STEPS
      /\ st.end = "none" /\ st.at[step] = "sent" /\ step \in Planned(st.args)
      /\ LandedIn(sent, m, step)
  BY <1>1 DEF Receipt, Running, Is, MinterStates, Ordered, Landed, LandedIn
<1>3. EndOf(m, completed) = IF completed = Planned(st.args) THEN "done" ELSE "none"
  BY DEF EndOf
<1>4. /\ Completes(m, step) \subseteq STEPS
      /\ step \in {"subname", "cap", "resolver"} => Completes(m, step) = {}
      /\ step = "records" => Completes(m, step) = {"resolver", "records"}
      /\ step \notin {"subname", "cap", "resolver", "records"} => Completes(m, step) = {step}
  BY DEF Completes, STEPS
<1>5. at \in [STEPS -> {"todo", "sent", "done", "failed"}] /\ completed \subseteq STEPS
  BY <1>2, <1>4
<1>6. minters' = [minters EXCEPT ![m] = new] /\ UNCHANGED <<chains, sent>>
  BY <1>1 DEF Receipt, Complete, MinterStates
<1> HIDE DEF at, completed
<1>7. /\ new \in MinterStates /\ new.args = st.args /\ new.completed = completed
      /\ new.at = at /\ new.lost = st.lost
      /\ new.end = IF completed = Planned(st.args) THEN "done" ELSE "none"
  BY <1>1, <1>3, <1>5 DEF MinterStates
<1> HIDE DEF new
<1>8. \A s \in STEPS : at[s] = IF s = step THEN "done" ELSE st.at[s]
  BY DEF at
<1>9. Ordered(new)
  <2>1. {"mint", "register", "subname", "cap", "resolver", "records", "deploy"} \subseteq STEPS
    BY DEF STEPS
  <2>2. step = "records" => st.at["resolver"] = "done"
    BY <1>1, <1>2 DEF Ordered
  <2>3. \A s \in STEPS : new.at[s] # "todo" => st.at[s] # "todo"
    BY <1>2, <1>7, <1>8
  <2>4. \A s \in STEPS : st.at[s] = "done" => new.at[s] = "done"
    BY <1>7, <1>8
  <2>5. \A s \in STEPS : new.at[s] = "done" => s = step \/ st.at[s] = "done"
    BY <1>7, <1>8
  <2>6. st.completed \subseteq new.completed /\ new.completed = st.completed \cup Completes(m, step)
    BY <1>7 DEF completed
  <2>7. "cap" \notin Completes(m, step) /\ "subname" \notin Completes(m, step)
    BY <1>4
  <2>8. \A s \in new.completed : new.at[s] = "done"
    BY <1>1, <1>2, <1>4, <1>7, <1>8, <2>1, <2>2, <2>6 DEF Ordered
  <2>9. \A s \in {"mint", "register", "records", "deploy"} : new.at[s] = "done" => s \in new.completed
    BY <1>1, <1>4, <2>1, <2>5, <2>6 DEF Ordered
  <2>10. new.at["records"] = "done" => "resolver" \in new.completed
    BY <1>1, <1>4, <2>1, <2>5, <2>6 DEF Ordered
  <2> QED
    BY <1>1, <1>7, <2>1, <2>3, <2>4, <2>6, <2>7, <2>8, <2>9, <2>10 DEF Ordered
<1>10. \A s \in STEPS : new.at[s] = "done" => LandedIn(sent, m, s)
  BY <1>1, <1>2, <1>7, <1>8 DEF MinterOk
<1>11. \A s \in STEPS : SentIn(sent, m, s) => new.at[s] \in {"sent", "done"} \/ s \in new.lost
  BY <1>1, <1>7, <1>8 DEF MinterOk
<1>12. MinterOk(new, m, sent)
  BY <1>7, <1>9, <1>10, <1>11 DEF MinterOk
<1> QED
  BY <1>6, <1>12, QuietKeeps

\* The two steps of Promise.all are judged together, when both have ended.
LEMMA JoinKeeps ==
  ASSUME MintInv, NEW m \in DOMAIN minters, Join(m)
  PROVE  MintInv'
<1> DEFINE st == minters[m]
<1>1. MinterOk(st, m, sent) /\ Ordered(st) /\ st \in MinterStates
  BY DEF MintInv, MinterOk
<1>2. /\ st.at \in [STEPS -> {"todo", "sent", "done", "failed"}] /\ st.completed \subseteq STEPS
      /\ st.args \in Arguments
      /\ st.end = "none" /\ st.at["cap"] \in {"done", "failed"} /\ "cap" \notin st.completed
      /\ st.args.ens => st.at["subname"] \in {"done", "failed"}
  BY <1>1 DEF Join, Running, Ended, Did, Is, MinterStates
<1>3. {"mint", "register", "subname", "cap", "resolver", "records", "deploy"} \subseteq STEPS
  BY DEF STEPS
<1>4. /\ "subname" \in Planned(st.args) <=> st.args.ens
      /\ "resolver" \in Planned(st.args) <=> st.args.ens
      /\ "records" \in Planned(st.args) <=> st.args.ens
      /\ "cap" \in Planned(st.args)
  BY <1>1, <1>2, <1>3, PlannedSteps DEF Ordered
<1>5. /\ st.at["mint"] = "done" /\ st.at["register"] = "done"
      /\ st.at["resolver"] = "todo" /\ st.at["records"] = "todo" /\ st.at["deploy"] = "todo"
  BY <1>1, <1>2, <1>3 DEF Ordered
<1>6. CASE Did(m, "cap") /\ (st.args.ens => Did(m, "subname"))
  <2> DEFINE more == {"subname", "cap"} \cap Planned(st.args)
             completed == st.completed \cup more
             at == [s \in STEPS |-> IF s = "cap" THEN "done" ELSE st.at[s]]
             new == [st EXCEPT !.at = at, !.completed = completed, !.end = EndOf(m, completed)]
  <2>1. at = st.at
    BY <1>2, <1>3, <1>6 DEF Did, Is
  <2>2. /\ more \subseteq STEPS /\ "cap" \in more /\ ("subname" \in more <=> st.args.ens)
        /\ \A s \in more : st.at[s] = "done"
    BY <1>3, <1>4, <1>6 DEF Did, Is
  <2>3. EndOf(m, completed) = IF completed = Planned(st.args) THEN "done" ELSE "none"
    BY DEF EndOf
  <2>4. minters' = [minters EXCEPT ![m] = new] /\ UNCHANGED <<chains, sent>>
    BY <1>1, <1>6 DEF Join, Complete, MinterStates
  <2>5. /\ new \in MinterStates /\ new.args = st.args /\ new.completed = completed
        /\ new.at = st.at /\ new.lost = st.lost
        /\ new.end = IF completed = Planned(st.args) THEN "done" ELSE "none"
    BY <1>1, <1>2, <2>1, <2>2, <2>3 DEF MinterStates
  <2> HIDE DEF new, more
  <2>6. Ordered(new)
    BY <1>1, <1>2, <1>5, <2>2, <2>5 DEF Ordered
  <2>7. MinterOk(new, m, sent)
    BY <1>1, <2>5, <2>6 DEF MinterOk
  <2> QED
    BY <2>4, <2>7, QuietKeeps
<1>7. CASE ~(Did(m, "cap") /\ (st.args.ens => Did(m, "subname")))
  <2> DEFINE more == IF st.args.ens /\ Did(m, "subname") THEN {"subname"} ELSE {}
             completed == st.completed \cup more
             new == [st EXCEPT !.end = "failed", !.completed = completed]
  <2>1. /\ more \subseteq STEPS /\ "cap" \notin more
        /\ \A s \in more : st.at[s] = "done"
        /\ st.at["subname"] = "done" => "subname" \in more
    BY <1>1, <1>3, <1>4 DEF Did, Is, Ordered
  <2>2. minters' = [minters EXCEPT ![m] = new] /\ UNCHANGED <<chains, sent>>
    BY <1>1, <1>7 DEF Join, MinterStates
  <2>3. /\ new \in MinterStates /\ new.args = st.args /\ new.completed = completed
        /\ new.at = st.at /\ new.lost = st.lost /\ new.end = "failed"
    BY <1>1, <1>2, <2>1 DEF MinterStates
  <2> HIDE DEF new, more
  <2>4. Ordered(new)
    BY <1>1, <1>2, <1>5, <2>1, <2>3 DEF Ordered
  <2>5. ASSUME NEW s \in STEPS \ new.completed, SentIn(sent, m, s) PROVE Excused(new, s)
    <3>1. st.at[s] \in {"sent", "done"} \/ s \in st.lost
      BY <1>1, <2>5 DEF MinterOk
    <3>2. s \notin st.completed /\ s \notin more
      BY <2>3, <2>5
    <3>3. CASE s = "cap"
      <4>1. st.at["cap"] = "done" => st.at["subname"] = "failed"
        BY <1>2, <1>7 DEF Did, Is
      <4> QED
        BY <1>2, <2>3, <3>1, <3>3, <4>1 DEF Excused
    <3>4. CASE s = "subname"
      <4>1. st.at[s] # "todo" => st.args.ens
        BY <1>1, <1>3, <1>4, <3>4 DEF Ordered
      <4> QED
        BY <1>2, <2>1, <2>3, <3>1, <3>2, <3>4, <4>1 DEF Excused
    <3>5. CASE s \notin {"cap", "subname"}
      <4>1. s \in {"mint", "register", "resolver", "records", "deploy"}
        BY <2>5, <3>5 DEF STEPS
      <4>2. s \notin {"mint", "register"}
        BY <1>1, <1>5, <3>2 DEF Ordered
      <4> QED
        BY <1>5, <2>3, <3>1, <4>1, <4>2 DEF Excused
    <3> QED
      BY <3>3, <3>4, <3>5
  <2>6. MinterOk(new, m, sent)
    BY <1>1, <2>3, <2>4, <2>5 DEF MinterOk
  <2> QED
    BY <2>2, <2>6, QuietKeeps
<1> QED
  BY <1>6, <1>7

-----------------------------------------------------------------------------
(* The theorems                                                            *)

LEMMA InitMintInv == MintInit(Minters) => MintInv
<1> SUFFICES ASSUME MintInit(Minters) PROVE MintInv
  OBVIOUS
<1>1. ASSUME NEW m \in Minters PROVE MinterOk(minters[m], m, sent)
  <2>1. PICK args \in Arguments :
          minters[m] = [args |-> args, at |-> [s \in STEPS |-> "todo"], token |-> 0, agent |-> 0,
                        completed |-> {}, lost |-> {}, end |-> "none"]
    BY DEF MintInit, Arguments
  <2>2. minters[m] \in MinterStates
    BY <2>1 DEF MinterStates
  <2>3. Ordered(minters[m])
    BY <2>1 DEF Ordered, STEPS
  <2> QED
    BY <2>1, <2>2, <2>3 DEF MinterOk, MintInit, SentIn
<1> QED
  BY <1>1 DEF MintInit, MintInv

LEMMA MintStepKeeps == MintInv /\ [MintNext]_mintVars => MintInv'
<1> SUFFICES ASSUME MintInv, [MintNext]_mintVars PROVE MintInv'
  OBVIOUS
<1>1. CASE UNCHANGED mintVars
  BY <1>1 DEF mintVars, chains, MintInv
<1>2. ASSUME NEW m \in Minters, MintStep(m) PROVE MintInv'
  BY <1>2, SendStepKeeps, FailsKeepMint, ReceiptKeepsMint, JoinKeeps DEF MintStep
<1> QED
  BY <1>1, <1>2, MineKeepsMint DEF MintNext

\* The inductive invariant of the mint programs.
THEOREM MintInductive == MintSpec => []MintInv
  BY InitMintInv, MintStepKeeps, PTL DEF MintSpec

\* Types.
THEOREM MintTypeCorrect == MintSpec => []MintTypeOK
<1>1. MintInv => MintTypeOK
  BY DEF MintInv, MinterOk, MinterStates, MintTxs, MintTypeOK
<1> QED
  BY <1>1, MintInductive, PTL

\* What a program prints when it ends (index.ts:280, :439): what it lists was mined,
\* and what a failure leaves out was unanswered, or is one of the two the code
\* omits, a cap behind a subname that failed (:368) and a resolver behind records
\* that failed (:398).
THEOREM MintReportIsTrue == MintSpec => []ReportIsTrue
<1>1. MintInv => ReportIsTrue
  <2> SUFFICES ASSUME MintInv, NEW m \in DOMAIN minters
      PROVE /\ \A step \in minters[m].completed : Landed(m, step)
            /\ minters[m].end = "done" => minters[m].completed = Planned(minters[m].args)
            /\ minters[m].end = "failed" =>
                 \A step \in STEPS \ minters[m].completed :
                   Landed(m, step) =>
                     \/ step \in minters[m].lost
                     \/ step = "cap" /\ Is(m, "subname", "failed")
                     \/ step = "resolver" /\ Is(m, "records", "failed")
    BY DEF ReportIsTrue
  <2>1. MinterOk(minters[m], m, sent) /\ minters[m].completed \subseteq STEPS
    BY DEF MintInv, MinterOk, MinterStates
  <2>2. \A s : /\ LandedIn(sent, m, s) => Landed(m, s)
               /\ Landed(m, s) => SentIn(sent, m, s)
    BY DEF LandedIn, Landed, SentIn
  <2> QED
    BY <2>1, <2>2 DEF MinterOk, Ordered, Excused, Is
<1> QED
  BY <1>1, MintInductive, PTL

\* "a clear PARTIAL ON-CHAIN block listing every tx that DID land"
\* (mint-agent/src/index.ts:218), of the programs that claim no name: the block
\* leaves out only what its program got no answer for in time.
UnnamedListsWhatLanded ==
  \A m \in DOMAIN minters :
    minters[m].end = "failed" /\ ~minters[m].args.ens =>
      \A step \in STEPS \ minters[m].lost : Landed(m, step) => step \in minters[m].completed

\* What the block omits, it omits of the ENS steps only: without a name, the doc
\* comment is true.
THEOREM MintUnnamedListsWhatLanded == MintSpec => []UnnamedListsWhatLanded
<1>1. MintInv => UnnamedListsWhatLanded
  <2> SUFFICES ASSUME MintInv, NEW m \in DOMAIN minters, minters[m].end = "failed",
                      ~minters[m].args.ens, NEW step \in STEPS \ minters[m].lost, Landed(m, step)
               PROVE  step \in minters[m].completed
    BY DEF UnnamedListsWhatLanded
  <2>1. MinterOk(minters[m], m, sent) /\ SentIn(sent, m, step)
    BY DEF MintInv, Landed, SentIn
  <2>2. "subname" \notin Planned(minters[m].args) /\ "records" \notin Planned(minters[m].args)
    BY <2>1, PlannedSteps DEF MinterOk, MinterStates
  <2>3. minters[m].at["subname"] = "todo" /\ minters[m].at["records"] = "todo"
    BY <2>1, <2>2 DEF MinterOk, Ordered, STEPS
  <2> QED
    BY <2>1, <2>3 DEF MinterOk, Excused
<1> QED
  BY <1>1, MintInductive, PTL

-----------------------------------------------------------------------------
(* Operator                                                                *)

OpSpec == OpInit(MaxCommands) /\ [][OpNext]_opVars

\* The steps before the call that moves the money, and the others.
Before == {"resolve", "check", "pool", "allowance", "approval", "code", "nonce", "price", "send"}

RunStates ==
  [cmd : Commands, at : Before \cup {"wait", "ended"}, answer : {"none", "ok", "failed"},
   tx : Nat, lost : BOOLEAN, asked : Nat, nonce : Nat, init : BOOLEAN]

Deeds == {"pay", "wrap", "approve", "swap", "park", "unpark", "userop"}

TxStates ==
  [by : Nat, does : Deeds, asset : ASSETS, to : ASSETS \cup {"payee", "vault"}, amount : Nat,
   nonce : Nat, init : BOOLEAN, state : {"pending", "mined", "reverted"}, success : BOOLEAN]

\* Nothing the operator, the vault or the account owns is ever negative, and the
\* router holds nothing between two transactions.
LedgerOk ==
  /\ purse \in [ASSETS -> Nat] /\ approved \subseteq ASSETS
  /\ router = [a \in ASSETS |-> 0]
  /\ vault \in [idle : Nat, shares : Nat, owned : BOOLEAN]
  /\ account \in [deployed : BOOLEAN, nonce : Nat, eth : Nat]

\* A swap that got so far trades something, and for another token.
Trades(t) == t.does \in {"swap", "wrap"} => t.to \in ASSETS /\ t.asset # t.to /\ t.amount > 0

TxOk(t) ==
  /\ t \in TxStates /\ t.by \in DOMAIN runs
  /\ t.success => t.state # "pending"
  /\ Trades(t)

Undone(t) == t.state # "pending" /\ ~t.success

\* What stands behind an answer "ok" to this command.
Behind(c, t) ==
  /\ c.kind \in {"transfer", "aa-send"} => t.success
  /\ c.kind \in {"park", "unpark"} => t.state # "pending"

\* A run has no transaction that moves money before it sends one, exactly that
\* one while it waits, and in the end what its answer says.
RunOk(run, r) ==
  /\ run \in RunStates /\ run.tx <= Len(txs)
  /\ run.at = "ended" <=> run.answer # "none"
  /\ run.at # "ended" => ~Refused(run.cmd)
  /\ run.at \in Before => Moves(r) = {}
  /\ run.at = "wait" => run.cmd.kind # "swap" /\ run.tx > 0 /\ Moves(r) = {run.tx}
  /\ run.answer = "ok" => \E i \in DOMAIN txs : Moves(r) = {i} /\ Behind(run.cmd, txs[i])
  /\ run.answer = "failed" /\ ~run.lost => \A i \in Moves(r) : Undone(txs[i])

OpInv ==
  /\ LedgerOk
  /\ runs \in Seq(RunStates) /\ txs \in Seq(TxStates)
  /\ \A i \in DOMAIN txs : TxOk(txs[i])
  /\ \A r \in DOMAIN runs : RunOk(runs[r], r)

-----------------------------------------------------------------------------
(* The ledger                                                              *)

\* A transaction that is accepted finds what it spends.
LEMMA SettleKeepsLedger ==
  ASSUME LedgerOk, NEW t \in TxStates, Trades(t), Accepted(t), Settle(t)
  PROVE  LedgerOk'
<1>0. t.asset \in ASSETS /\ t.amount \in Nat /\ t.does \in Deeds
  BY DEF TxStates
<1> USE <1>0 DEF LedgerOk
<1>1. CASE t.does = "pay"
  <2>1. purse[t.asset] - t.amount \in Nat
    BY <1>1 DEF Accepted
  <2>2. /\ purse' = [purse EXCEPT ![t.asset] = purse[t.asset] - t.amount]
        /\ UNCHANGED <<router, approved, vault, account>>
    BY <1>1 DEF Settle
  <2>3. purse' \in [ASSETS -> Nat]
    BY <2>1, <2>2
  <2> QED
    BY <2>2, <2>3
<1>2. CASE t.does = "wrap"
  <2>1. purse[t.asset] - t.amount \in Nat /\ t.to \in ASSETS /\ t.asset # t.to
    BY <1>2 DEF Accepted, Trades
  <2>2. purse[t.to] + t.amount \in Nat
    BY <2>1
  <2>3. purse' = [purse EXCEPT ![t.asset] = purse[t.asset] - t.amount,
                               ![t.to] = purse[t.to] + t.amount]
    BY <1>2, <2>1 DEF Settle, Move
  <2>4. purse' \in [ASSETS -> Nat]
    BY <2>1, <2>2, <2>3
  <2>5. UNCHANGED <<router, approved, vault, account>>
    BY <1>2 DEF Settle
  <2> QED
    BY <2>4, <2>5
<1>3. CASE t.does = "approve"
  BY <1>3 DEF Settle
<1>4. CASE t.does = "swap"
  <2>1. PICK k \in {t.amount, t.amount - 1} :
          /\ purse' = SwapLegs(t, k).purse /\ router' = SwapLegs(t, k).router
          /\ UNCHANGED <<approved, vault, account>>
    BY <1>4 DEF Settle
  <2>2. /\ t.to \in ASSETS /\ t.asset # t.to /\ t.amount > 0
        /\ purse[t.asset] >= t.amount
    BY <1>4 DEF Trades, Accepted
  <2>3. k \in Nat /\ k <= t.amount /\ {"ETH", "WETH"} \subseteq ASSETS
    BY <2>2 DEF ASSETS
  <2>4. /\ router["ETH"] + t.amount - k = t.amount - k
        /\ router["WETH"] + k = k
        /\ purse[t.asset] - k \in Nat
        /\ \A a \in ASSETS : purse[a] + k \in Nat
        /\ purse[t.asset] - t.amount + (t.amount - k) \in Nat
    BY <2>2, <2>3
  <2>5. [router EXCEPT !["ETH"] = 0] = router /\ [router EXCEPT !["WETH"] = 0] = router
    BY <2>3
  <2>6. CASE t.asset = "ETH"
    <3>1. router' = router
      BY <2>1, <2>5, <2>6 DEF SwapLegs
    <3>2. purse' = [purse EXCEPT !["ETH"] = purse["ETH"] - t.amount + (t.amount - k),
                                 ![t.to] = purse[t.to] + k]
      BY <2>1, <2>2, <2>4, <2>6 DEF SwapLegs
    <3> QED
      BY <2>1, <2>2, <2>4, <2>6, <3>1, <3>2
  <2>7. CASE t.asset # "ETH" /\ t.to = "ETH"
    <3>1. router' = router
      BY <2>1, <2>5, <2>7 DEF SwapLegs
    <3>2. purse' = [purse EXCEPT ![t.asset] = purse[t.asset] - k, !["ETH"] = purse["ETH"] + k]
      BY <2>1, <2>2, <2>4, <2>7 DEF SwapLegs
    <3> QED
      BY <2>1, <2>2, <2>4, <2>7, <3>1, <3>2
  <2>8. CASE t.asset # "ETH" /\ t.to # "ETH"
    <3>1. router' = router
      BY <2>1, <2>8 DEF SwapLegs
    <3>2. purse' = [purse EXCEPT ![t.asset] = purse[t.asset] - k, ![t.to] = purse[t.to] + k]
      BY <2>1, <2>2, <2>8 DEF SwapLegs
    <3> QED
      BY <2>1, <2>2, <2>4, <2>8, <3>1, <3>2
  <2> QED
    BY <2>6, <2>7, <2>8
<1>5. CASE t.does = "park"
  <2>1. vault.shares + vault.idle \in Nat
    OBVIOUS
  <2>2. vault' = [vault EXCEPT !.idle = 0, !.shares = vault.shares + vault.idle]
    BY <1>5 DEF Settle
  <2> QED
    BY <1>5, <2>1, <2>2 DEF Settle
<1>6. CASE t.does = "unpark"
  <2>1. vault.idle + t.amount \in Nat /\ vault.shares - t.amount \in Nat
    BY <1>6 DEF Accepted
  <2>2. vault' = [vault EXCEPT !.idle = vault.idle + t.amount,
                               !.shares = vault.shares - t.amount]
    BY <1>6 DEF Settle
  <2> QED
    BY <1>6, <2>1, <2>2 DEF Settle
<1>7. CASE t.does = "userop"
  <2>1. PICK n \in Nat :
          account' = [deployed |-> TRUE, nonce |-> account.nonce + 1, eth |-> n]
    BY <1>7 DEF Settle, Included
  <2>2. account.nonce + 1 \in Nat
    OBVIOUS
  <2>3. account' \in [deployed : BOOLEAN, nonce : Nat, eth : Nat]
    BY <2>1, <2>2
  <2>4. UNCHANGED <<purse, router, approved, vault>>
    BY <1>7 DEF Settle
  <2> QED
    BY <2>3, <2>4
<1> QED
  BY <1>1, <1>2, <1>3, <1>4, <1>5, <1>6, <1>7 DEF Deeds

-----------------------------------------------------------------------------
(* The chain                                                               *)

LEMMA MineKeepsOp ==
  ASSUME OpInv, NEW i \in DOMAIN txs, MineTx(i)
  PROVE  OpInv'
<1>1. txs[i] \in TxStates /\ TxOk(txs[i]) /\ txs[i].state = "pending"
  BY DEF OpInv, MineTx
<1> DEFINE ok == Accepted(txs[i])
           good == ok /\ (txs[i].does = "userop" => account.eth >= txs[i].amount)
           t == [txs[i] EXCEPT !.state = IF ok THEN "mined" ELSE "reverted", !.success = good]
<1>2. t \in TxStates
  BY <1>1 DEF TxStates
<1>3. /\ t.by = txs[i].by /\ t.does = txs[i].does /\ t.asset = txs[i].asset
      /\ t.to = txs[i].to /\ t.amount = txs[i].amount /\ t.state # "pending"
  BY <1>1 DEF TxStates
<1>4. txs' = [txs EXCEPT ![i] = t]
  BY DEF MineTx
<1> HIDE DEF t
<1>5. LedgerOk'
  <2>1. CASE ok
    BY <1>1, <2>1, SettleKeepsLedger DEF OpInv, MineTx, TxOk
  <2>2. CASE ~ok
    BY <2>2 DEF OpInv, MineTx, ledger, LedgerOk
  <2> QED
    BY <2>1, <2>2
<1>6. txs' \in Seq(TxStates) /\ DOMAIN txs' = DOMAIN txs /\ Len(txs') = Len(txs)
  BY <1>2, <1>4 DEF OpInv
<1>7. txs'[i] = t /\ \A j \in DOMAIN txs \ {i} : txs'[j] = txs[j]
  BY <1>4 DEF OpInv
<1>8. runs' = runs
  BY DEF MineTx
<1>9. \A j \in DOMAIN txs : TxOk(txs[j])'
  BY <1>1, <1>2, <1>3, <1>6, <1>7, <1>8 DEF OpInv, TxOk, Trades
<1>10. \A r \in DOMAIN runs : {j \in DOMAIN txs' : txs'[j].by = r /\ txs'[j].does # "approve"}
                             = Moves(r)
  BY <1>3, <1>6, <1>7 DEF Moves
<1>11. ASSUME NEW r \in DOMAIN runs PROVE RunOk(runs[r], r)'
  <2>1. RunOk(runs[r], r)
    BY DEF OpInv
  <2>2. \A j \in DOMAIN txs : txs[j].success \/ txs[j].state # "pending" => txs'[j] = txs[j]
    BY <1>1, <1>7 DEF TxOk
  <2>3. \A j \in Moves(r) : j \in DOMAIN txs
    BY DEF Moves
  <2>4. runs[r].answer = "ok" =>
          \E j \in DOMAIN txs' : Moves(r) = {j} /\ Behind(runs[r].cmd, txs'[j])
    <3>1. ASSUME NEW j \in DOMAIN txs, Behind(runs[r].cmd, txs[j])
          PROVE  Behind(runs[r].cmd, txs'[j])
      <4>1. CASE j = i
        BY <1>1, <1>3, <1>7, <3>1, <4>1 DEF Behind, TxOk
      <4>2. CASE j # i
        BY <1>7, <3>1, <4>2
      <4> QED
        BY <4>1, <4>2
    <3> QED
      BY <1>6, <2>1, <3>1 DEF RunOk
  <2>5. runs[r].answer = "failed" /\ ~runs[r].lost => \A j \in Moves(r) : Undone(txs'[j])
    BY <2>1, <2>2, <2>3 DEF RunOk, Undone
  <2> QED
    BY <1>6, <1>8, <1>10, <2>1, <2>4, <2>5 DEF RunOk, Moves
<1> QED
  BY <1>5, <1>6, <1>8, <1>9, <1>11 DEF OpInv

\* A step that changes neither a transaction nor a run.
LEMMA LedgerOnly ==
  ASSUME OpInv, LedgerOk', runs' = runs, txs' = txs
  PROVE  OpInv'
<1>1. \A i \in DOMAIN txs : TxOk(txs[i])'
  BY DEF OpInv, TxOk
<1>2. ASSUME NEW r \in DOMAIN runs PROVE RunOk(runs[r], r)'
  <2>1. RunOk(runs[r], r)
    BY DEF OpInv
  <2> QED
    BY <2>1 DEF RunOk, Moves
<1> QED
  BY <1>1, <1>2 DEF OpInv

LEMMA OthersKeep == OpInv /\ Others => OpInv'
<1> SUFFICES ASSUME OpInv, Others PROVE OpInv'
  OBVIOUS
<1>1. vault' \in [idle : Nat, shares : Nat, owned : BOOLEAN]
  <2>1. vault \in [idle : Nat, shares : Nat, owned : BOOLEAN]
    BY DEF OpInv, LedgerOk
  <2>2. vault' = [vault EXCEPT !.idle = 0] \/ vault' = [vault EXCEPT !.owned = FALSE]
    BY DEF Others
  <2>3. /\ [vault EXCEPT !.idle = 0] \in [idle : Nat, shares : Nat, owned : BOOLEAN]
        /\ [vault EXCEPT !.owned = FALSE] \in [idle : Nat, shares : Nat, owned : BOOLEAN]
    BY <2>1
  <2> QED
    BY <2>2, <2>3
<1>2. LedgerOk' /\ runs' = runs /\ txs' = txs
  BY <1>1 DEF OpInv, Others, LedgerOk
<1> QED
  BY <1>2, LedgerOnly

-----------------------------------------------------------------------------
(* The agents                                                              *)

\* A step that only a run's own record shows.
LEMMA RunKeeps ==
  ASSUME OpInv, NEW r \in DOMAIN runs, NEW new, RunOk(new, r),
         runs' = [runs EXCEPT ![r] = new], UNCHANGED <<ledger, txs>>
  PROVE  OpInv'
<1>1. new \in RunStates
  BY DEF RunOk
<1>2. /\ runs' \in Seq(RunStates) /\ DOMAIN runs' = DOMAIN runs
      /\ runs'[r] = new /\ \A s \in DOMAIN runs \ {r} : runs'[s] = runs[s]
  BY <1>1 DEF OpInv
<1>3. LedgerOk' /\ txs' = txs
  BY DEF OpInv, LedgerOk, ledger
<1>4. ASSUME NEW s \in DOMAIN runs PROVE RunOk(runs[s], s)'
  <2>1. RunOk(runs'[s], s)
    BY <1>2 DEF OpInv
  <2> QED
    BY <1>3, <2>1 DEF RunOk, Moves
<1> QED
  BY <1>2, <1>3, <1>4 DEF OpInv, TxOk

\* The deeds a run can send at a step.
MaySend(run, does) ==
  \/ run.at = "send" /\ does = DoesOf(run.cmd)
  \/ run.at = "allowance" /\ does = "approve"

\* What the run can say once its transaction is out: it is lost, it has ended
\* with a swap, it waits for the move or for the approval.
Sent(run, does, new) ==
  /\ new \in RunStates /\ new.cmd = run.cmd
  /\ \/ new.at = "ended" /\ new.answer = "failed" /\ new.lost /\ new.tx = run.tx
     \/ /\ new.tx = Len(txs) + 1
        /\ \/ new.at = "approval" /\ new.answer = "none" /\ does = "approve"
           \/ /\ new.at = AfterSend(run.cmd) /\ run.at = "send"
              /\ new.answer = IF new.at = "ended" THEN "ok" ELSE "none"

LEMMA CallOk ==
  ASSUME OpInv, NEW r \in DOMAIN runs, NEW does, MaySend(runs[r], does)
  PROVE  Call(r, does) \in TxStates /\ TxOk(Call(r, does))
<1>1. /\ runs[r] \in RunStates /\ runs[r].cmd \in Commands /\ ~Refused(runs[r].cmd)
      /\ r \in Nat
  BY DEF OpInv, RunOk, RunStates, MaySend
<1> DEFINE c == runs[r].cmd
<1>2. /\ c.asset \in ASSETS /\ c.to \in ASSETS \cup {"payee", "vault"} /\ c.amount \in Nat
      /\ c.kind \in {"transfer", "swap", "park", "unpark", "aa-send"}
      /\ c.kind = "swap" <=> c.to \in ASSETS
  BY <1>1, OperatorAssumption
<1>3. c.asset # c.to /\ (c.kind \in {"transfer", "swap"} => c.amount > 0)
  BY <1>1, <1>2 DEF Refused
<1>4. does \in Deeds /\ (does \in {"swap", "wrap"} => c.kind = "swap")
  BY <1>2 DEF MaySend, DoesOf, Deeds
<1>5. runs[r].nonce \in Nat /\ runs[r].init \in BOOLEAN
  BY <1>1 DEF RunStates
<1> QED
  BY <1>1, <1>2, <1>3, <1>4, <1>5 DEF Call, Command, TxStates, TxOk, Trades

LEMMA SendKeeps ==
  ASSUME OpInv, NEW r \in DOMAIN runs, NEW does, MaySend(runs[r], does),
         NEW new, Sent(runs[r], does, new),
         runs' = [runs EXCEPT ![r] = new], txs' = Append(txs, Call(r, does)),
         UNCHANGED ledger
  PROVE  OpInv'
<1> DEFINE t == Call(r, does)
           n == Len(txs) + 1
<1>1. t \in TxStates /\ TxOk(t) /\ t.by = r /\ t.does = does
  BY CallOk DEF Call
<1> HIDE DEF t
<1>2. /\ txs' \in Seq(TxStates) /\ Len(txs') = n /\ txs'[n] = t /\ n \in DOMAIN txs' /\ n \in Nat
      /\ \A i \in DOMAIN txs : i \in DOMAIN txs' /\ txs'[i] = txs[i]
      /\ \A i \in DOMAIN txs' : i = n \/ i \in DOMAIN txs
      /\ n \notin DOMAIN txs /\ Len(txs) < n
  BY <1>1 DEF OpInv, t
<1> HIDE DEF n
<1>3. /\ runs' \in Seq(RunStates) /\ DOMAIN runs' = DOMAIN runs
      /\ runs'[r] = new /\ \A s \in DOMAIN runs \ {r} : runs'[s] = runs[s]
  BY DEF OpInv, Sent
<1>4. LedgerOk'
  BY DEF OpInv, LedgerOk, ledger
<1>5. \A i \in DOMAIN txs' : TxOk(txs[i])'
  BY <1>1, <1>2, <1>3 DEF OpInv, TxOk, Trades
<1>6. \A s \in DOMAIN runs :
        {i \in DOMAIN txs' : txs'[i].by = s /\ txs'[i].does # "approve"} =
          Moves(s) \cup (IF s = r /\ does # "approve" THEN {n} ELSE {})
  BY <1>1, <1>2 DEF Moves
<1>7. ASSUME NEW s \in DOMAIN runs \ {r} PROVE RunOk(runs[s], s)'
  <2>1. RunOk(runs[s], s) /\ runs'[s] = runs[s]
    BY <1>3 DEF OpInv
  <2>2. {i \in DOMAIN txs' : txs'[i].by = s /\ txs'[i].does # "approve"} = Moves(s)
    BY <1>6
  <2>3. Moves(s) \subseteq DOMAIN txs
    BY DEF Moves
  <2>4. runs[s].tx \in Nat /\ Len(txs) \in Nat
    BY <2>1 DEF RunOk, RunStates, OpInv
  <2>5. runs[s].answer = "ok" =>
          \E i \in DOMAIN txs' : Moves(s) = {i} /\ Behind(runs[s].cmd, txs'[i])
    BY <1>2, <2>1 DEF RunOk
  <2>6. runs[s].answer = "failed" /\ ~runs[s].lost => \A i \in Moves(s) : Undone(txs'[i])
    BY <1>2, <2>1, <2>3 DEF RunOk
  <2>7. runs[s].tx <= Len(txs')
    BY <1>2, <2>1, <2>4 DEF RunOk
  <2> QED
    BY <2>1, <2>2, <2>5, <2>6, <2>7 DEF RunOk, Moves
<1>8. RunOk(runs[r], r)'
  <2>1. RunOk(runs[r], r) /\ Moves(r) = {} /\ runs'[r] = new /\ ~Refused(new.cmd)
    BY <1>3 DEF OpInv, RunOk, MaySend, Before, Sent
  <2>2. {i \in DOMAIN txs' : txs'[i].by = r /\ txs'[i].does # "approve"} =
          IF does # "approve" THEN {n} ELSE {}
    BY <1>6, <2>1
  <2>3. new.tx <= Len(txs')
    <3>1. new.tx = runs[r].tx \/ new.tx = n
      BY DEF Sent, n
    <3>2. runs[r].tx \in Nat /\ runs[r].tx <= Len(txs) /\ Len(txs) \in Nat
      BY <2>1 DEF RunOk, RunStates, OpInv
    <3> QED
      BY <1>2, <3>1, <3>2
  <2>4. CASE new.at = "ended" /\ new.answer = "failed" /\ new.lost
    BY <2>1, <2>2, <2>3, <2>4 DEF Sent, RunOk, Moves, Before
  <2>5. CASE new.at = "approval" /\ new.answer = "none" /\ does = "approve"
    BY <2>1, <2>2, <2>3, <2>5 DEF Sent, RunOk, Moves, Before
  <2>6. CASE /\ new.tx = n /\ new.at = AfterSend(runs[r].cmd) /\ runs[r].at = "send"
             /\ new.answer = IF new.at = "ended" THEN "ok" ELSE "none"
    <3>1. does # "approve" /\ new.cmd = runs[r].cmd /\ new \in RunStates
      <4>1. runs[r].cmd.kind \in {"transfer", "swap", "park", "unpark", "aa-send"}
        BY <2>1, OperatorAssumption DEF RunOk, RunStates
      <4> QED
        BY <2>6, <4>1 DEF MaySend, DoesOf, Sent
    <3>2. n > 0 /\ n \in DOMAIN txs'
      BY <1>2 DEF n, OpInv
    <3> QED
      BY <2>1, <2>2, <2>3, <2>6, <3>1, <3>2 DEF AfterSend, RunOk, Moves, Before, Behind
  <2> QED
    BY <2>4, <2>5, <2>6 DEF Sent, n
<1> QED
  BY <1>2, <1>3, <1>4, <1>5, <1>7, <1>8 DEF OpInv

LEMMA GoKeeps ==
  ASSUME OpInv, NEW r \in DOMAIN runs, runs[r].at \in Before,
         NEW step \in Before, Go(r, step), UNCHANGED <<ledger, txs>>
  PROVE  OpInv'
<1> DEFINE new == [runs[r] EXCEPT !.at = step]
<1>1. RunOk(runs[r], r)
  BY DEF OpInv
<1>2. /\ new \in RunStates /\ new.at = step /\ new.cmd = runs[r].cmd
      /\ new.answer = runs[r].answer /\ new.tx = runs[r].tx
  BY <1>1 DEF RunOk, RunStates
<1>3. runs' = [runs EXCEPT ![r] = new]
  BY DEF Go
<1> HIDE DEF new
<1>4. RunOk(new, r)
  BY <1>1, <1>2 DEF RunOk, Before
<1> QED
  BY <1>3, <1>4, RunKeeps

\* What an agent must know to answer.
Knows(r, answer) ==
  /\ answer = "ok" => \E i \in DOMAIN txs : Moves(r) = {i} /\ Behind(runs[r].cmd, txs[i])
  /\ answer = "failed" => \A i \in Moves(r) : Undone(txs[i])

LEMMA AnswerKeeps ==
  ASSUME OpInv, NEW r \in DOMAIN runs, runs[r].at # "ended",
         NEW answer \in {"ok", "failed"}, Knows(r, answer),
         Answer(r, answer), UNCHANGED <<ledger, txs>>
  PROVE  OpInv'
<1> DEFINE new == [runs[r] EXCEPT !.at = "ended", !.answer = answer]
<1>1. RunOk(runs[r], r)
  BY DEF OpInv
<1>2. /\ new \in RunStates /\ new.at = "ended" /\ new.cmd = runs[r].cmd
      /\ new.answer = answer /\ new.tx = runs[r].tx
  BY <1>1 DEF RunOk, RunStates
<1>3. runs' = [runs EXCEPT ![r] = new]
  BY DEF Answer
<1> HIDE DEF new
<1>4. RunOk(new, r)
  BY <1>1, <1>2 DEF RunOk, Before, Knows
<1> QED
  BY <1>3, <1>4, RunKeeps

\* Before it sends anything a run may always fail.
LEMMA FailKeeps ==
  ASSUME OpInv, NEW r \in DOMAIN runs, runs[r].at \in Before,
         Answer(r, "failed"), UNCHANGED <<ledger, txs>>
  PROVE  OpInv'
<1>1. Moves(r) = {} /\ runs[r].at # "ended"
  BY DEF OpInv, RunOk, Before
<1> QED
  BY <1>1, AnswerKeeps DEF Knows

LEMMA LoseKeeps ==
  ASSUME OpInv, NEW r \in DOMAIN runs, runs[r].at # "ended",
         Lose(r), UNCHANGED <<ledger, txs>>
  PROVE  OpInv'
<1> DEFINE new == [runs[r] EXCEPT !.at = "ended", !.answer = "failed", !.lost = TRUE]
<1>1. RunOk(runs[r], r)
  BY DEF OpInv
<1>2. /\ new \in RunStates /\ new.at = "ended" /\ new.cmd = runs[r].cmd
      /\ new.answer = "failed" /\ new.tx = runs[r].tx /\ new.lost
  BY <1>1 DEF RunOk, RunStates
<1>3. runs' = [runs EXCEPT ![r] = new]
  BY DEF Lose
<1> HIDE DEF new
<1>4. RunOk(new, r)
  BY <1>1, <1>2 DEF RunOk, Before
<1> QED
  BY <1>3, <1>4, RunKeeps

\* A call is written, its answer comes or is lost.
LEMMA WriteKeeps ==
  ASSUME OpInv, NEW r \in DOMAIN runs, NEW does, MaySend(runs[r], does), NEW next,
         \/ does = "approve" /\ runs[r].at = "allowance" /\ next = "approval"
         \/ runs[r].at = "send" /\ next = AfterSend(runs[r].cmd),
         Write(r, does, next) \/ WriteLost(r, does) \/ WriteFails(r)
  PROVE  OpInv'
<1>1. runs[r] \in RunStates /\ runs[r].at \in Before
  BY DEF OpInv, RunOk, MaySend, Before
<1>2. CASE Write(r, does, next)
  <2> DEFINE new == [runs[r] EXCEPT !.at = next, !.tx = Len(txs) + 1,
                                    !.answer = IF next = "ended" THEN "ok" ELSE "none"]
  <2>1. next \in {"approval", "wait", "ended"} /\ Len(txs) + 1 \in Nat
    BY DEF AfterSend, OpInv
  <2>2. /\ new \in RunStates /\ new.cmd = runs[r].cmd /\ new.at = next
        /\ new.tx = Len(txs) + 1 /\ new.answer = IF next = "ended" THEN "ok" ELSE "none"
    BY <1>1, <2>1 DEF RunStates, Before
  <2>3. /\ runs' = [runs EXCEPT ![r] = new] /\ txs' = Append(txs, Call(r, does))
        /\ UNCHANGED ledger
    BY <1>2 DEF Write
  <2> HIDE DEF new
  <2>4. Sent(runs[r], does, new)
    BY <2>2 DEF Sent
  <2> QED
    BY <2>3, <2>4, SendKeeps
<1>3. CASE WriteLost(r, does)
  <2> DEFINE new == [runs[r] EXCEPT !.at = "ended", !.answer = "failed", !.lost = TRUE]
  <2>1. /\ new \in RunStates /\ new.cmd = runs[r].cmd /\ new.at = "ended" /\ new.lost
        /\ new.tx = runs[r].tx /\ new.answer = "failed"
    BY <1>1 DEF RunStates
  <2>2. /\ runs' = [runs EXCEPT ![r] = new] /\ txs' = Append(txs, Call(r, does))
        /\ UNCHANGED ledger
    BY <1>3 DEF WriteLost, Lose
  <2> HIDE DEF new
  <2>3. Sent(runs[r], does, new)
    BY <2>1 DEF Sent
  <2> QED
    BY <2>2, <2>3, SendKeeps
<1>4. CASE WriteFails(r)
  BY <1>1, <1>4, FailKeeps DEF WriteFails
<1> QED
  BY <1>2, <1>3, <1>4

\* Whatever a name is asked of, nothing is sent meanwhile.
LEMMA ResolveKeeps ==
  ASSUME OpInv, NEW r \in DOMAIN runs, Resolve(r)
  PROVE  OpInv'
<1>1. runs[r].at = "resolve" /\ runs[r].at \in Before /\ UNCHANGED <<ledger, txs>>
  BY DEF Resolve, At, Before
<1>2. CASE Go(r, "check")
  BY <1>1, <1>2, GoKeeps DEF Before
<1>3. CASE Answer(r, "failed")
  BY <1>1, <1>3, FailKeeps
<1>4. CASE runs' = [runs EXCEPT ![r].asked = @ + 1]
  <2> DEFINE new == [runs[r] EXCEPT !.asked = runs[r].asked + 1]
  <2>1. RunOk(runs[r], r)
    BY DEF OpInv
  <2>2. /\ new \in RunStates /\ new.at = "resolve" /\ new.cmd = runs[r].cmd
        /\ new.answer = runs[r].answer /\ new.tx = runs[r].tx
    BY <1>1, <2>1 DEF RunOk, RunStates
  <2>3. runs' = [runs EXCEPT ![r] = new]
    BY <1>4
  <2> HIDE DEF new
  <2>4. RunOk(new, r)
    BY <1>1, <2>1, <2>2 DEF RunOk, Before
  <2> QED
    BY <1>1, <2>3, <2>4, RunKeeps
<1> QED
  BY <1>2, <1>3, <1>4 DEF Resolve

\* What a user operation reads of its account.
LEMMA AccountReadKeeps ==
  ASSUME OpInv, NEW r \in DOMAIN runs, GetCode(r) \/ GetNonce(r)
  PROVE  OpInv'
<1>1. RunOk(runs[r], r) /\ account.deployed \in BOOLEAN /\ account.nonce \in Nat
  BY DEF OpInv, LedgerOk
<1> DEFINE new == IF GetCode(r) THEN [runs[r] EXCEPT !.at = "nonce", !.init = ~account.deployed]
                  ELSE [runs[r] EXCEPT !.at = "price", !.nonce = account.nonce]
<1>2. /\ new \in RunStates /\ new.at \in {"nonce", "price"} /\ new.cmd = runs[r].cmd
      /\ new.answer = runs[r].answer /\ new.tx = runs[r].tx
  BY <1>1 DEF RunOk, RunStates, Before
<1>3. runs' = [runs EXCEPT ![r] = new] /\ runs[r].at \in Before /\ UNCHANGED <<ledger, txs>>
  BY DEF GetCode, GetNonce, At, Before
<1> HIDE DEF new
<1>4. RunOk(new, r)
  BY <1>1, <1>2, <1>3 DEF RunOk, Before
<1> QED
  BY <1>3, <1>4, RunKeeps

\* The receipt a run reads is that of its one transaction.
LEMMA ReceiptKeeps ==
  ASSUME OpInv, NEW r \in DOMAIN runs,
         TransferReceipt(r) \/ VaultReceipt(r) \/ PollReceipt(r)
  PROVE  OpInv'
<1>1. /\ runs[r].at = "wait" /\ RunOk(runs[r], r) /\ Mined(r)
      /\ UNCHANGED <<ledger, txs>>
  BY DEF OpInv, TransferReceipt, VaultReceipt, PollReceipt, At
<1>2. PICK i \in DOMAIN txs :
        Moves(r) = {i} /\ i = runs[r].tx /\ txs[i].state # "pending"
  BY <1>1 DEF RunOk, Mined, Moves
<1>3. PICK answer \in {"ok", "failed"} : Answer(r, answer) /\ Knows(r, answer)
  <2>1. CASE TransferReceipt(r) \/ PollReceipt(r)
    <3>1. Answer(r, IF txs[i].success THEN "ok" ELSE "failed")
      BY <1>2, <2>1 DEF TransferReceipt, PollReceipt
    <3>2. runs[r].cmd.kind \in {"transfer", "aa-send"}
      BY <2>1 DEF TransferReceipt, PollReceipt, Command
    <3> QED
      BY <1>2, <3>1, <3>2 DEF Knows, Behind, Undone
  <2>2. CASE VaultReceipt(r)
    BY <1>2, <2>2 DEF VaultReceipt, Command, Knows, Behind
  <2> QED
    BY <2>1, <2>2
<1> QED
  BY <1>1, <1>3, AnswerKeeps

\* A command that is refused at once is answered at once.
LEMMA TypeKeeps ==
  ASSUME OpInv, NEW c \in Commands, Type(c)
  PROVE  OpInv'
<1> DEFINE new == [cmd |-> c, at |-> IF Refused(c) THEN "ended" ELSE FirstStep(c),
                   answer |-> IF Refused(c) THEN "failed" ELSE "none", tx |-> 0, lost |-> FALSE,
                   asked |-> 0, nonce |-> 0, init |-> FALSE]
           n == Len(runs) + 1
<1>1. /\ new \in RunStates /\ new.cmd = c /\ new.tx = 0
      /\ new.at \in Before \cup {"ended"} /\ new.answer \in {"none", "failed"}
      /\ new.at = "ended" <=> new.answer # "none"
      /\ new.at # "ended" => ~Refused(c)
  <2>1. FirstStep(c) \in Before
    BY OperatorAssumption DEF FirstStep, Before
  <2> QED
    BY <2>1 DEF RunStates, Before
<1>2. runs' = Append(runs, new) /\ UNCHANGED <<ledger, txs>>
  BY DEF Type
<1> HIDE DEF new
<1>3. /\ runs' \in Seq(RunStates) /\ runs'[n] = new /\ n \in DOMAIN runs' /\ n \notin DOMAIN runs
      /\ \A r \in DOMAIN runs : r \in DOMAIN runs' /\ runs'[r] = runs[r]
      /\ \A r \in DOMAIN runs' : r = n \/ r \in DOMAIN runs
  BY <1>1, <1>2 DEF OpInv
<1> HIDE DEF n
<1>4. LedgerOk' /\ txs' = txs /\ \A i \in DOMAIN txs : TxOk(txs[i])'
  BY <1>2, <1>3 DEF OpInv, LedgerOk, ledger, TxOk
<1>5. Moves(n) = {}
  BY <1>3 DEF Moves, OpInv, TxOk
<1>6. ASSUME NEW r \in DOMAIN runs' PROVE RunOk(runs[r], r)'
  <2>1. CASE r = n
    <3>1. 0 <= Len(txs)
      BY DEF OpInv
    <3>2. RunOk(new, n)
      BY <1>1, <1>5, <3>1 DEF RunOk, Before
    <3> QED
      BY <1>2, <1>3, <2>1, <3>2 DEF RunOk, Moves
  <2>2. CASE r # n
    <3>1. RunOk(runs[r], r) /\ runs'[r] = runs[r]
      BY <1>3, <2>2 DEF OpInv
    <3> QED
      BY <1>2, <3>1 DEF RunOk, Moves
  <2> QED
    BY <2>1, <2>2
<1> QED
  BY <1>3, <1>4, <1>6 DEF OpInv

LEMMA RunStepKeeps ==
  ASSUME OpInv, NEW r \in DOMAIN runs, RunStep(r)
  PROVE  OpInv'
<1> USE DEF Before, At
<1>1. CASE Resolve(r)
  BY <1>1, ResolveKeeps
<1>2. CASE CheckBalance(r)
  BY <1>2, GoKeeps, FailKeeps DEF CheckBalance
<1>3. CASE TransferReceipt(r) \/ VaultReceipt(r) \/ PollReceipt(r)
  BY <1>3, ReceiptKeeps
<1>4. CASE FindPool(r)
  BY <1>4, GoKeeps, FailKeeps DEF FindPool
<1>5. CASE Allowance(r)
  <2>1. CASE Command(r).asset \in approved
    BY <1>5, <2>1, GoKeeps DEF Allowance
  <2>2. CASE Command(r).asset \notin approved
    BY <1>5, <2>2, WriteKeeps DEF Allowance, MaySend
  <2> QED
    BY <2>1, <2>2
<1>6. CASE ApprovalReceipt(r)
  BY <1>6, GoKeeps DEF ApprovalReceipt
<1>7. CASE CheckVault(r)
  BY <1>7, GoKeeps, FailKeeps DEF CheckVault
<1>8. CASE GetCode(r) \/ GetNonce(r)
  BY <1>8, AccountReadKeeps
<1>9. CASE PriceAndSign(r)
  BY <1>9, GoKeeps DEF PriceAndSign
<1>10. CASE Send(r)
  BY <1>10, WriteKeeps DEF Send, MaySend, Command
<1>11. CASE ReadFails(r)
  BY <1>11, FailKeeps DEF ReadFails
<1>12. CASE Timeout(r)
  BY <1>12, LoseKeeps DEF Timeout
<1> QED
  BY <1>1, <1>2, <1>3, <1>4, <1>5, <1>6, <1>7, <1>8, <1>9, <1>10, <1>11, <1>12 DEF RunStep

-----------------------------------------------------------------------------
(* The theorems                                                            *)

LEMMA InitOpInv == OpInit(MaxCommands) => OpInv
<1> SUFFICES ASSUME OpInit(MaxCommands) PROVE OpInv
  OBVIOUS
<1>1. LedgerOk
  <2>1. Funds \in Nat
    BY OperatorAssumption
  <2> QED
    BY <2>1 DEF OpInit, LedgerOk
<1>2. runs = <<>> /\ txs = <<>>
  BY DEF OpInit
<1> QED
  BY <1>1, <1>2 DEF OpInv

LEMMA OpStep == OpInv /\ [OpNext]_opVars => OpInv'
<1> SUFFICES ASSUME OpInv, [OpNext]_opVars PROVE OpInv'
  OBVIOUS
<1>1. CASE UNCHANGED opVars
  <2>1. LedgerOk' /\ runs' = runs /\ txs' = txs
    BY <1>1 DEF opVars, ledger, OpInv, LedgerOk
  <2> QED
    BY <2>1, LedgerOnly
<1> QED
  BY <1>1, TypeKeeps, RunStepKeeps, MineKeepsOp, OthersKeep DEF OpNext

\* The inductive invariant of the commands.
THEOREM OperatorInductive == OpSpec => []OpInv
  BY InitOpInv, OpStep, PTL DEF OpSpec

\* No balance of the operator, its vault or its account is ever negative, however
\* many commands read and spend the same balances at a time: what a command has
\* checked may be gone when its transaction is mined, which then reverts.
THEOREM OperatorTypeCorrect == OpSpec => []OpTypeOK
<1>1. OpInv => OpTypeOK
  <2> SUFFICES ASSUME OpInv PROVE OpTypeOK
    OBVIOUS
  <2>1. router \in [ASSETS -> Nat]
    BY DEF OpInv, LedgerOk
  <2>2. \A r \in DOMAIN runs : runs[r].answer \in {"none", "ok", "failed"} /\ runs[r].tx \in 0 .. Len(txs)
    BY DEF OpInv, RunOk, RunStates
  <2>3. \A i \in DOMAIN txs : txs[i].state \in {"pending", "mined", "reverted"}
    BY DEF OpInv, TxOk, TxStates
  <2> QED
    BY <2>1, <2>2, <2>3 DEF OpInv, LedgerOk, OpTypeOK
<1> QED
  BY <1>1, OperatorInductive, PTL

\* What an agent answers is what its code waited to know: the invariant of the run.
THEOREM OperatorOutcomeIsTrue == OpSpec => []OutcomeIsTrue
<1>1. OpInv => OutcomeIsTrue
  <2> SUFFICES ASSUME OpInv, NEW r \in DOMAIN runs
      PROVE
        /\ runs[r].answer = "ok" =>
             /\ Cardinality(Moves(r)) = 1
             /\ Command(r).kind \in {"transfer", "aa-send"} => \A i \in Moves(r) : txs[i].success
             /\ Command(r).kind \in {"park", "unpark"} => \A i \in Moves(r) : txs[i].state # "pending"
        /\ runs[r].answer = "failed" /\ ~runs[r].lost =>
             \A i \in Moves(r) : txs[i].state # "pending" /\ ~txs[i].success
    BY DEF OutcomeIsTrue
  <2>1. RunOk(runs[r], r)
    BY DEF OpInv
  <2>2. ASSUME runs[r].answer = "ok"
        PROVE  /\ Cardinality(Moves(r)) = 1
               /\ Command(r).kind \in {"transfer", "aa-send"} => \A i \in Moves(r) : txs[i].success
               /\ Command(r).kind \in {"park", "unpark"} => \A i \in Moves(r) : txs[i].state # "pending"
    <3>1. PICK i \in DOMAIN txs : Moves(r) = {i} /\ Behind(runs[r].cmd, txs[i])
      BY <2>1, <2>2 DEF RunOk
    <3>2. Cardinality({i}) = 1
      BY FS_Singleton
    <3> QED
      BY <3>1, <3>2 DEF Behind, Command
  <2> QED
    BY <2>1, <2>2 DEF RunOk, Undone
<1> QED
  BY <1>1, OperatorInductive, PTL

\* Nothing of the operator's is left with the router.
THEOREM OperatorRouterKeepsNothing == OpSpec => []RouterKeepsNothing
<1>1. OpInv => RouterKeepsNothing
  BY DEF OpInv, LedgerOk, RouterKeepsNothing
<1> QED
  BY <1>1, OperatorInductive, PTL

-----------------------------------------------------------------------------
(* What a swap's answer leaves open                                        *)

\* A transaction by which a swap moves money.
Swapping(i) == runs[txs[i].by].cmd.kind = "swap" /\ txs[i].does # "approve"

\* While the transaction of a swap waits to be mined, nothing else spends what it
\* is about to spend.
UnspentMeanwhile ==
  [][\A i \in DOMAIN txs :
       Swapping(i) /\ txs[i].state = "pending" /\ txs'[i].state = "pending" =>
         purse'[txs[i].asset] >= purse[txs[i].asset]]_opVars

\* The move of a swap is a wrap or a call of the router, and the chain still takes
\* it as it did when it was simulated.
SwapOk(i) ==
  /\ txs[i].does \in {"wrap", "swap"}
  /\ txs[i].state # "reverted"
  /\ txs[i].state = "pending" => Accepted(txs[i])

SwapInv == \A i \in DOMAIN txs : Swapping(i) => SwapOk(i)

\* Whose command a run is, it stays.
SameCommands ==
  \A r \in DOMAIN runs : r \in DOMAIN runs' /\ runs'[r].cmd = runs[r].cmd

\* A step that sends nothing and mines nothing.
LEMMA QuietSwap ==
  ASSUME OpInv, SwapInv, SameCommands, UNCHANGED <<txs, purse, approved>>
  PROVE  SwapInv'
<1> SUFFICES ASSUME NEW i \in DOMAIN txs', Swapping(i)' PROVE SwapOk(i)'
  BY DEF SwapInv
<1>1. i \in DOMAIN txs /\ txs[i].by \in DOMAIN runs
  BY DEF OpInv, TxOk
<1>2. SwapOk(i)
  BY <1>1 DEF Swapping, SwapInv, SameCommands
<1>3. txs[i].does \in {"wrap", "swap"}
  BY <1>2 DEF SwapOk
<1> QED
  BY <1>1, <1>2, <1>3 DEF SwapOk, Accepted

\* A call is sent only if the chain would take it now.
LEMMA SendingSwap ==
  ASSUME OpInv, SwapInv, SameCommands, UNCHANGED ledger, NEW r \in DOMAIN runs,
         NEW does, MaySend(runs[r], does), Accepted(Call(r, does)),
         txs' = Append(txs, Call(r, does))
  PROVE  SwapInv'
<1> DEFINE t == Call(r, does)
           n == Len(txs) + 1
<1>1. t \in TxStates /\ t.by = r /\ t.does = does /\ t.state = "pending"
  BY CallOk DEF Call
<1>2. /\ txs'[n] = t
      /\ \A i \in DOMAIN txs : txs'[i] = txs[i]
      /\ \A i \in DOMAIN txs' : i = n \/ i \in DOMAIN txs
  BY <1>1 DEF OpInv
<1> SUFFICES ASSUME NEW i \in DOMAIN txs', Swapping(i)' PROVE SwapOk(i)'
  BY DEF SwapInv
<1>3. UNCHANGED <<purse, approved>> /\ Accepted(t)
  BY DEF ledger
<1> HIDE DEF t, n
<1>4. CASE i = n
  <2>1. runs[r].cmd.kind = "swap" /\ does # "approve"
    BY <1>1, <1>2, <1>4 DEF Swapping, SameCommands
  <2>2. does \in {"wrap", "swap"}
    BY <2>1 DEF MaySend, DoesOf
  <2>3. /\ purse[t.asset] >= t.amount
        /\ t.does = "swap" => t.asset \in approved \cup {"ETH"}
    BY <1>1, <1>3, <2>2 DEF Accepted
  <2>4. txs'[i] = t /\ purse' = purse /\ approved' = approved
    BY <1>2, <1>3, <1>4
  <2>5. Accepted(txs[i])'
    BY <1>1, <2>2, <2>3, <2>4 DEF Accepted
  <2> QED
    BY <1>1, <2>2, <2>4, <2>5 DEF SwapOk
<1>5. CASE i # n
  <2>1. i \in DOMAIN txs /\ txs'[i] = txs[i] /\ txs[i].by \in DOMAIN runs
    BY <1>2, <1>5 DEF OpInv, TxOk
  <2>2. SwapOk(i)
    BY <2>1 DEF Swapping, SwapInv, SameCommands
  <2> QED
    BY <1>3, <2>1, <2>2 DEF SwapOk, Accepted
<1> QED
  BY <1>4, <1>5

\* What is mined was acceptable, and takes nothing from what still waits.
LEMMA MiningSwap ==
  ASSUME OpInv, SwapInv, NEW j \in DOMAIN txs, MineTx(j),
         \A i \in DOMAIN txs :
           Swapping(i) /\ txs[i].state = "pending" /\ txs'[i].state = "pending" =>
             purse'[txs[i].asset] >= purse[txs[i].asset],
         purse' \in [ASSETS -> Nat]
  PROVE  SwapInv'
<1>1. /\ runs' = runs /\ DOMAIN txs' = DOMAIN txs
      /\ \A i \in DOMAIN txs \ {j} : txs'[i] = txs[i]
      /\ txs[j].state = "pending"
      /\ txs'[j].by = txs[j].by /\ txs'[j].does = txs[j].does
      /\ txs'[j].state = IF Accepted(txs[j]) THEN "mined" ELSE "reverted"
  <2>1. txs[j] \in TxStates /\ txs \in Seq(TxStates) /\ j \in 1 .. Len(txs)
    BY DEF OpInv, TxOk
  <2>2. PICK new \in TxStates :
          /\ txs' = [txs EXCEPT ![j] = new]
          /\ new.by = txs[j].by /\ new.does = txs[j].does
          /\ new.state = IF Accepted(txs[j]) THEN "mined" ELSE "reverted"
    <3> DEFINE mined == [txs[j] EXCEPT
                           !.state = IF Accepted(txs[j]) THEN "mined" ELSE "reverted",
                           !.success = /\ Accepted(txs[j])
                                       /\ txs[j].does = "userop" => account.eth >= txs[j].amount]
    <3>1. txs' = [txs EXCEPT ![j] = mined]
      BY DEF MineTx
    <3>2. /\ mined \in TxStates /\ mined.by = txs[j].by /\ mined.does = txs[j].does
          /\ mined.state = IF Accepted(txs[j]) THEN "mined" ELSE "reverted"
      BY <2>1 DEF TxStates
    <3> QED
      BY <3>1, <3>2
  <2> QED
    BY <2>1, <2>2 DEF MineTx
<1>2. approved \subseteq approved'
  <2>1. CASE Accepted(txs[j])
    BY <2>1 DEF MineTx, Settle
  <2>2. CASE ~Accepted(txs[j])
    BY <2>2 DEF MineTx, ledger
  <2> QED
    BY <2>1, <2>2
<1> SUFFICES ASSUME NEW i \in DOMAIN txs', Swapping(i)' PROVE SwapOk(i)'
  BY DEF SwapInv
<1>3. i \in DOMAIN txs /\ Swapping(i) /\ SwapOk(i)
  BY <1>1 DEF Swapping, SwapInv
<1>4. CASE i = j
  BY <1>1, <1>3, <1>4 DEF SwapOk
<1>5. CASE i # j
  <2>1. txs'[i] = txs[i] /\ txs[i] \in TxStates
    BY <1>1, <1>3, <1>5 DEF OpInv, TxOk
  <2>2. CASE txs[i].state = "pending"
    <3>1. purse'[txs[i].asset] >= purse[txs[i].asset] /\ Accepted(txs[i])
      BY <1>3, <2>1, <2>2 DEF SwapOk
    <3>2. /\ txs[i].asset \in ASSETS /\ txs[i].amount \in Nat
          /\ purse[txs[i].asset] \in Nat /\ purse'[txs[i].asset] \in Nat
      BY <2>1 DEF TxStates, OpInv, LedgerOk
    <3>3. purse[txs[i].asset] >= txs[i].amount
      BY <1>3, <3>1 DEF SwapOk, Accepted
    <3>4. purse'[txs[i].asset] >= txs[i].amount
      BY <3>1, <3>2, <3>3
    <3>5. txs[i].does = "swap" => txs[i].asset \in approved' \cup {"ETH"}
      BY <1>2, <3>1 DEF Accepted
    <3> QED
      BY <1>3, <2>1, <3>4, <3>5 DEF SwapOk, Accepted
  <2> QED
    BY <1>3, <2>1, <2>2 DEF SwapOk
<1> QED
  BY <1>4, <1>5

\* A step of a run keeps its command, and sends a call that is accepted or none.
LEMMA RunStepSends ==
  ASSUME OpInv, NEW r \in DOMAIN runs, RunStep(r)
  PROVE  /\ SameCommands /\ UNCHANGED ledger
         /\ \/ UNCHANGED txs
            \/ \E does : /\ MaySend(runs[r], does) /\ Accepted(Call(r, does))
                         /\ txs' = Append(txs, Call(r, does))
<1>1. runs \in Seq(RunStates) /\ runs[r] \in RunStates
  BY DEF OpInv, RunOk
<1>2. ASSUME NEW new, new.cmd = runs[r].cmd, runs' = [runs EXCEPT ![r] = new]
      PROVE  SameCommands
  BY <1>1, <1>2 DEF SameCommands
<1>3. ASSUME NEW step, Go(r, step) PROVE SameCommands
  BY <1>1, <1>3 DEF Go, RunStates, SameCommands
<1>4. ASSUME NEW answer, Answer(r, answer) PROVE SameCommands
  BY <1>1, <1>4 DEF Answer, RunStates, SameCommands
<1>5. ASSUME Lose(r) PROVE SameCommands
  BY <1>1, <1>5 DEF Lose, RunStates, SameCommands
<1>6. ASSUME NEW does, MaySend(runs[r], does), NEW next,
             Write(r, does, next) \/ WriteLost(r, does) \/ WriteFails(r)
      PROVE  /\ SameCommands /\ UNCHANGED ledger
             /\ \/ UNCHANGED txs
                \/ Accepted(Call(r, does)) /\ txs' = Append(txs, Call(r, does))
  <2>1. CASE Write(r, does, next)
    <3>1. SameCommands
      BY <1>1, <2>1 DEF Write, RunStates, SameCommands
    <3> QED
      BY <2>1, <3>1 DEF Write
  <2>2. CASE WriteLost(r, does)
    BY <1>5, <2>2 DEF WriteLost
  <2>3. CASE WriteFails(r)
    BY <1>4, <2>3 DEF WriteFails
  <2> QED
    BY <1>6, <2>1, <2>2, <2>3
<1>7. CASE Resolve(r)
  <2>1. ASSUME runs' = [runs EXCEPT ![r].asked = @ + 1] PROVE SameCommands
    BY <1>1, <2>1 DEF SameCommands, RunStates
  <2> QED
    BY <1>3, <1>4, <1>7, <2>1 DEF Resolve
<1>8. CASE CheckBalance(r) \/ FindPool(r) \/ ApprovalReceipt(r) \/ CheckVault(r) \/ PriceAndSign(r)
  BY <1>3, <1>4, <1>8 DEF CheckBalance, FindPool, ApprovalReceipt, CheckVault, PriceAndSign
<1>9. CASE TransferReceipt(r) \/ VaultReceipt(r) \/ PollReceipt(r) \/ ReadFails(r)
  BY <1>4, <1>9 DEF TransferReceipt, VaultReceipt, PollReceipt, ReadFails
<1>10. CASE GetCode(r)
  BY <1>1, <1>10 DEF GetCode, At, SameCommands, RunStates
<1>11. CASE GetNonce(r)
  BY <1>1, <1>11 DEF GetNonce, At, SameCommands, RunStates
<1>12. CASE Timeout(r)
  BY <1>5, <1>12 DEF Timeout
<1>13. CASE Allowance(r)
  <2>1. MaySend(runs[r], "approve")
    BY <1>13 DEF Allowance, At, MaySend
  <2> QED
    BY <1>3, <1>6, <1>13, <2>1 DEF Allowance
<1>14. CASE Send(r)
  <2>1. MaySend(runs[r], DoesOf(Command(r)))
    BY <1>14 DEF Send, At, MaySend, Command
  <2> QED
    BY <1>6, <1>14, <2>1 DEF Send
<1> QED
  BY <1>7, <1>8, <1>9, <1>10, <1>11, <1>12, <1>13, <1>14 DEF RunStep

LEMMA SwapStep ==
  ASSUME OpInv, OpInv', SwapInv, OpNext,
         \A i \in DOMAIN txs :
           Swapping(i) /\ txs[i].state = "pending" /\ txs'[i].state = "pending" =>
             purse'[txs[i].asset] >= purse[txs[i].asset]
  PROVE  SwapInv'
<1>1. ASSUME NEW c \in Commands, Type(c) PROVE SwapInv'
  <2>1. SameCommands
    <3>1. PICK new : runs' = Append(runs, new)
      BY <1>1 DEF Type
    <3> QED
      BY <3>1 DEF OpInv, SameCommands
  <2> QED
    BY <1>1, <2>1, QuietSwap DEF Type, ledger
<1>2. ASSUME NEW r \in DOMAIN runs, RunStep(r) PROVE SwapInv'
  <2>1. SameCommands /\ UNCHANGED ledger
    BY <1>2, RunStepSends
  <2>2. CASE UNCHANGED txs
    BY <2>1, <2>2, QuietSwap DEF ledger
  <2>3. CASE txs' # txs
    BY <1>2, <2>1, <2>3, RunStepSends, SendingSwap
  <2> QED
    BY <2>2, <2>3
<1>3. ASSUME NEW j \in DOMAIN txs, MineTx(j) PROVE SwapInv'
  BY <1>3, MiningSwap DEF OpInv, LedgerOk
<1>4. CASE Others
  BY <1>4, QuietSwap DEF Others, SameCommands
<1> QED
  BY <1>1, <1>2, <1>3, <1>4 DEF OpNext

\* The race is all there is to it: a swap that is answered with its hash is mined
\* as a revert only if something else spends its money meanwhile, which the answer
\* does not wait to see (uniswap-v3.ts:225, :253, :287; wrap-fallback.ts:63, :76).
THEOREM OperatorSwapFailsOnlyInARace ==
  OpSpec /\ UnspentMeanwhile => []SwapFailuresSurface
<1>1. OpInit(MaxCommands) => SwapInv
  BY DEF OpInit, SwapInv
<1>2. /\ OpInv /\ OpInv' /\ SwapInv /\ [OpNext]_opVars
      /\ [\A i \in DOMAIN txs :
            Swapping(i) /\ txs[i].state = "pending" /\ txs'[i].state = "pending" =>
              purse'[txs[i].asset] >= purse[txs[i].asset]]_opVars
      => SwapInv'
  <2>1. ASSUME OpInv, SwapInv, UNCHANGED opVars PROVE SwapInv'
    BY <2>1, QuietSwap DEF opVars, ledger, SameCommands
  <2> QED
    BY <2>1, SwapStep DEF opVars
<1>3. OpInv /\ SwapInv => SwapFailuresSurface
  BY DEF OpInv, SwapInv, SwapFailuresSurface, Swapping, SwapOk, Moves, Command
<1> QED
  BY <1>1, <1>2, <1>3, OperatorInductive, PTL DEF OpSpec, UnspentMeanwhile

-----------------------------------------------------------------------------
(* Marketplace                                                             *)

MarketSpec == MarketInit(Purchases, Catalog) /\ [][MarketNext]_marketVars

\* As much of the shape of an order, or of a request, as EXCEPT needs to keep it.
IsOrder(o) ==
  /\ o = [f \in DOMAIN o |-> o[f]]
  /\ {"kind", "item", "at", "answer", "lost"} \subseteq DOMAIN o

IsRequest(r) ==
  /\ r = [f \in DOMAIN r |-> r[f]]
  /\ {"by", "send", "at", "reply", "status", "hash"} \subseteq DOMAIN r

Priced(p) == Item(p).price > 0

Untouched(p) == works[p] = 0 /\ auths[p] = "none" /\ \A r \in requests : r.by # p

\* What is known of a purchase: its money and the work done for it, ...
MoneyInv(p) ==
  /\ works[p] \in Nat
  /\ auths[p] # "none" => Priced(p)
  /\ Priced(p) => works[p] <= 1
  /\ Priced(p) /\ p \notin seen => works[p] = 0
  /\ auths[p] = "settled" => works[p] = 1

\* ... and how far its buyer has come, and what it was told.
OrderInv(p) ==
  /\ IsOrder(orders[p])
  /\ Item(p).price \in {0, 1} /\ Item(p).service \in SERVICES
  /\ orders[p].at \in {"inspect", "audit", "call"} => Untouched(p)
  /\ orders[p].answer = "refused" => Untouched(p) /\ p \notin splits
  /\ orders[p].at = "asked" => auths[p] = "none"
  /\ orders[p].at # "ended" => orders[p].answer = "none" /\ p \notin splits
  /\ orders[p].at = "split" => orders[p].lost
  /\ orders[p].answer = "paid" => auths[p] = "settled" /\ p \notin splits
  /\ orders[p].answer = "split" => p \in splits
  /\ p \in splits => orders[p].lost

\* A request that is being worked for or settled.
Served(r) == r.send > 0 /\ r.at \in {"work", "settle"}

RequestInv(r) ==
  /\ IsRequest(r)
  /\ r.by \in Purchases /\ r.send \in Nat
  /\ r.send > 0 => auths[r.by] # "none"
  /\ r.send = 0 => r.at \in {"verify", "work", "answered"} /\ ~r.hash
  /\ r.send = 0 /\ r.at = "work" => ~Priced(r.by)
  /\ r.send = 0 /\ r.status = "402" => Priced(r.by)
  /\ Served(r) => r.by \in seen /\ works[r.by] = (IF r.at = "settle" THEN 1 ELSE 0)
  /\ r.hash => auths[r.by] = "settled"

\* The host looks at the fingerprint and adds it in one step.
ServedAlone == \A r, s \in requests : Served(r) /\ Served(s) /\ r.by = s.by => r = s

ShapeInv ==
  /\ DOMAIN orders = Purchases /\ orders = [p \in Purchases |-> orders[p]]
  /\ DOMAIN auths = Purchases /\ auths = [p \in Purchases |-> auths[p]]
  /\ DOMAIN works = Purchases /\ works = [p \in Purchases |-> works[p]]
  /\ IsFiniteSet(requests)

MarketInv ==
  /\ ShapeInv
  /\ \A p \in Purchases : MoneyInv(p) /\ OrderInv(p)
  /\ \A r \in requests : RequestInv(r)
  /\ ServedAlone

-----------------------------------------------------------------------------
(* Records                                                                 *)

LEMMA RequestAt ==
  ASSUME NEW r, IsRequest(r), NEW at
  PROVE LET s == [r EXCEPT !.at = at]
        IN  /\ IsRequest(s) /\ s.by = r.by /\ s.send = r.send /\ s.at = at
            /\ s.status = r.status /\ s.hash = r.hash
BY DEF IsRequest

-----------------------------------------------------------------------------
(* The gate and the agents                                                 *)

\* A success of an endpoint is the work of its agent, and no endpoint asks for a
\* payment itself.
LEMMA EndpointAnswers ==
  ASSUME NEW item, item.service \in SERVICES, NEW answer \in createFetchHandler(item)
  PROVE /\ answer.acted \in BOOLEAN
        /\ answer.status = "200" => answer.acted
        /\ answer.status # "402"
<1>1. CASE ~checkBearer(item)
  <2>1. answer = Answered("401", FALSE)
    BY <1>1 DEF createFetchHandler
  <2>2. answer.status = "401" /\ answer.acted = FALSE
    BY <2>1 DEF Answered
  <2> QED
    BY <2>2
<1>2. CASE checkBearer(item) /\ ~validateAgentInput(item)
  <2>1. answer = Answered("400", FALSE)
    BY <1>2 DEF createFetchHandler
  <2>2. answer.status = "400" /\ answer.acted = FALSE
    BY <2>1 DEF Answered
  <2> QED
    BY <2>2
<1>3. CASE checkBearer(item) /\ validateAgentInput(item)
  <2>1. answer \in handleAuditCall(item) \cup handleOracleCall \cup handleSwapCall(item)
    BY <1>3, Zenon DEF createFetchHandler, SERVICES
  <2>2. \E status \in {"500", "200", "502"}, acted \in BOOLEAN :
           answer = Answered(status, acted) /\ (status = "200" => acted)
    BY <2>1 DEF handleAuditCall, handleOracleCall, handleSwapCall
  <2>3. PICK status \in {"500", "200", "502"}, acted \in BOOLEAN :
           answer = Answered(status, acted) /\ (status = "200" => acted)
    BY <2>2
  <2>4. answer.status = status /\ answer.acted = acted
    BY <2>3 DEF Answered
  <2> QED
    BY <2>3, <2>4
<1> QED
  BY <1>1, <1>2, <1>3

-----------------------------------------------------------------------------
(* A step of a request: what it becomes, and what that does to its purchase *)

LEMMA RequestStep ==
  ASSUME MarketInv, NEW r \in requests, NEW s, s.by = r.by, s.send = r.send,
         requests' = (requests \ {r}) \cup {s}, UNCHANGED <<orders, splits>>,
         DOMAIN auths' = Purchases /\ auths' = [p \in Purchases |-> auths'[p]],
         DOMAIN works' = Purchases /\ works' = [p \in Purchases |-> works'[p]],
         \A p \in Purchases \ {r.by} :
            auths'[p] = auths[p] /\ works'[p] = works[p] /\ (p \in seen' <=> p \in seen),
         (auths'[r.by] = "none") <=> (auths[r.by] = "none"),
         auths[r.by] = "settled" => auths'[r.by] = "settled",
         r.by \in seen => r.by \in seen',
         Served(r) \/ works'[r.by] = works[r.by] \/ ~Priced(r.by),
         Served(s) => Served(r) \/ r.by \notin seen,
         MoneyInv(r.by)', RequestInv(s)'
  PROVE MarketInv'
<1>1. RequestInv(r) /\ r.by \in Purchases
  BY DEF MarketInv, RequestInv
<1>2. ShapeInv'
  <2>1. IsFiniteSet(requests')
    BY FS_AddElement, FS_RemoveElement DEF MarketInv, ShapeInv
  <2> QED
    BY <2>1 DEF MarketInv, ShapeInv
<1>3. ASSUME NEW p \in Purchases PROVE MoneyInv(p)'
  BY <1>3 DEF MarketInv, MoneyInv, Priced, Item
<1>4. ASSUME NEW p \in Purchases PROVE OrderInv(p)'
  <2>1. \A q \in requests' : q.by # p \/ \E o \in requests : o.by = p
    BY <1>4
  <2>2. Untouched(p) => Untouched(p)'
    <3>1. Untouched(p) => p # r.by
      BY DEF Untouched
    <3> QED
      BY <2>1, <3>1 DEF Untouched
  <2> QED
    BY <2>2, <1>4 DEF MarketInv, OrderInv, Item
<1>5. ASSUME NEW q \in requests \ {r} PROVE RequestInv(q)'
  <2>1. RequestInv(q)
    BY DEF MarketInv
  <2>2. CASE q.by # r.by
    BY <2>1, <2>2 DEF RequestInv, Priced, Item, Served
  <2>3. CASE q.by = r.by
    <3>1. Served(q) => ~Served(r)
      BY <2>3 DEF MarketInv, ServedAlone
    <3>2. Served(q) => Priced(r.by)
      BY <2>1, <2>3, <1>1 DEF RequestInv, Served, MarketInv, MoneyInv
    <3>3. Served(q) => works'[q.by] = works[q.by]
      BY <2>3, <3>1, <3>2
    <3>4. Served(q) => r.by \in seen'
      BY <2>1, <2>3 DEF RequestInv
    <3> QED
      BY <2>1, <2>3, <3>3, <3>4 DEF RequestInv, Priced, Item, Served
  <2> QED
    BY <2>2, <2>3
<1>6. ServedAlone'
  <2> SUFFICES ASSUME NEW q \in requests', NEW o \in requests',
                      Served(q), Served(o), q.by = o.by
               PROVE q = o
    BY DEF ServedAlone, Served
  <2>1. ASSUME NEW x \in requests, Served(x), x.by = r.by, Served(s) PROVE x = r
    BY <2>1 DEF MarketInv, ServedAlone, RequestInv
  <2> QED
    BY <2>1 DEF MarketInv, ServedAlone
<1> QED
  BY <1>2, <1>3, <1>4, <1>5, <1>6 DEF MarketInv

LEMMA NoHeaderKeeps ==
  ASSUME MarketInv, NEW r \in requests, NoHeader(r)
  PROVE MarketInv'
<1>0. IsRequest(r)
  BY DEF MarketInv, RequestInv
<1>1. RequestInv(r) /\ MoneyInv(r.by) /\ OrderInv(r.by) /\ ~Served(r)
  BY DEF MarketInv, RequestInv, NoHeader, Served
<1>2. CASE Item(r.by).price = 0
  <2> DEFINE s == [r EXCEPT !.at = "work"]
  <2>1. /\ IsRequest(s) /\ s.by = r.by /\ s.send = r.send /\ s.at = "work"
        /\ s.status = r.status /\ s.hash = r.hash
    BY <1>1, RequestAt DEF RequestInv
  <2>2. requests' = (requests \ {r}) \cup {s}
    BY <1>2 DEF NoHeader, Update
  <2> HIDE DEF s
  <2>3. RequestInv(s)' /\ ~Served(s)
    BY <1>1, <1>2, <2>1 DEF RequestInv, NoHeader, Priced, Item, Served
  <2>4. MoneyInv(r.by)'
    BY <1>1 DEF MoneyInv, NoHeader, Priced, Item
  <2> QED
    BY <1>1, <2>1, <2>2, <2>3, <2>4, RequestStep DEF NoHeader, MarketInv, ShapeInv
<1>3. CASE Item(r.by).price # 0
  <2> PICK status : status = verifyPayment(r)
    OBVIOUS
  <2> DEFINE s == [r EXCEPT !.at = "answered", !.status = status]
  <2>1. /\ IsRequest(s) /\ s.by = r.by /\ s.send = r.send /\ s.at = "answered"
        /\ s.hash = r.hash
    BY <1>0 DEF IsRequest
  <2>2. requests' = (requests \ {r}) \cup {s}
    BY <1>3 DEF NoHeader, Update, Reply
  <2> HIDE DEF s
  <2>3. RequestInv(s)' /\ ~Served(s)
    BY <1>1, <1>3, <2>1 DEF RequestInv, OrderInv, NoHeader, Priced, Item, Served
  <2>4. MoneyInv(r.by)'
    BY <1>1 DEF MoneyInv, NoHeader, Priced, Item
  <2> QED
    BY <1>1, <2>1, <2>2, <2>3, <2>4, RequestStep DEF NoHeader, MarketInv, ShapeInv
<1> QED
  BY <1>2, <1>3

LEMMA JudgeKeeps ==
  ASSUME MarketInv, NEW r \in requests, Judge(r)
  PROVE MarketInv'
<1>0. IsRequest(r)
  BY DEF MarketInv, RequestInv
<1>1. RequestInv(r) /\ MoneyInv(r.by) /\ OrderInv(r.by) /\ ~Served(r) /\ r.send > 0
  BY DEF MarketInv, RequestInv, Judge, Served
<1>2. PICK said : Update(r, [r EXCEPT !.at = "judged", !.reply = said])
  BY DEF Judge
<1> DEFINE s == [r EXCEPT !.at = "judged", !.reply = said]
<1>3. /\ IsRequest(s) /\ s.by = r.by /\ s.send = r.send /\ s.at = "judged"
      /\ s.status = r.status /\ s.hash = r.hash
  BY <1>0 DEF IsRequest
<1>4. requests' = (requests \ {r}) \cup {s}
  BY <1>2 DEF Update
<1> HIDE DEF s
<1>5. RequestInv(s)' /\ ~Served(s)
  BY <1>1, <1>3 DEF RequestInv, Judge, Priced, Item, Served
<1>6. MoneyInv(r.by)'
  BY <1>1 DEF MoneyInv, Judge, Priced, Item
<1> QED
  BY <1>1, <1>3, <1>4, <1>5, <1>6, RequestStep DEF Judge, MarketInv, ShapeInv

\* A payload that is let pass was not seen before: nothing was done for it yet.
LEMMA VerifiedKeeps ==
  ASSUME MarketInv, NEW r \in requests, Verified(r)
  PROVE MarketInv'
<1>0. IsRequest(r)
  BY DEF MarketInv, RequestInv
<1>1. /\ RequestInv(r) /\ MoneyInv(r.by) /\ OrderInv(r.by) /\ ~Served(r)
      /\ r.send > 0 /\ Priced(r.by)
  BY DEF MarketInv, RequestInv, MoneyInv, Verified, Served
<1>2. ASSUME NEW status, Reply(r, status), seen' = seen PROVE MarketInv'
  <2> DEFINE s == [r EXCEPT !.at = "answered", !.status = status]
  <2>1. /\ IsRequest(s) /\ s.by = r.by /\ s.send = r.send /\ s.at = "answered"
        /\ s.hash = r.hash
    BY <1>0 DEF IsRequest
  <2>2. requests' = (requests \ {r}) \cup {s}
    BY <1>2 DEF Update, Reply
  <2> HIDE DEF s
  <2>3. RequestInv(s)' /\ ~Served(s)
    BY <1>1, <2>1 DEF RequestInv, Verified, Priced, Item, Served
  <2>4. MoneyInv(r.by)'
    BY <1>1, <1>2 DEF MoneyInv, Verified, Priced, Item
  <2> QED
    BY <1>1, <1>2, <2>1, <2>2, <2>3, <2>4, RequestStep DEF Verified, MarketInv, ShapeInv
<1>3. CASE /\ r.by \notin seen /\ seen' = seen \cup {r.by}
           /\ Update(r, [r EXCEPT !.at = "work"])
  <2> DEFINE s == [r EXCEPT !.at = "work"]
  <2>1. /\ IsRequest(s) /\ s.by = r.by /\ s.send = r.send /\ s.at = "work"
        /\ s.status = r.status /\ s.hash = r.hash
    BY <1>1, RequestAt DEF RequestInv
  <2>2. requests' = (requests \ {r}) \cup {s}
    BY <1>3 DEF Update
  <2> HIDE DEF s
  <2>3. works[r.by] = 0
    BY <1>1, <1>3 DEF MoneyInv
  <2>4. RequestInv(s)'
    BY <1>1, <1>3, <2>1, <2>3 DEF RequestInv, Verified, Priced, Item, Served
  <2>5. MoneyInv(r.by)'
    BY <1>1, <1>3 DEF MoneyInv, Verified, Priced, Item
  <2> QED
    BY <1>1, <1>3, <2>1, <2>2, <2>4, <2>5, RequestStep DEF Verified, MarketInv, ShapeInv
<1>4. \/ \E status : Reply(r, status) /\ seen' = seen
      \/ /\ r.by \notin seen /\ seen' = seen \cup {r.by}
         /\ Update(r, [r EXCEPT !.at = "work"])
  BY DEF Verified
<1> QED
  BY <1>2, <1>3, <1>4

\* An agent that acts for an authorization acts for it alone.
LEMMA WorkKeeps ==
  ASSUME MarketInv, NEW r \in requests, Work(r)
  PROVE MarketInv'
<1>0. IsRequest(r)
  BY DEF MarketInv, RequestInv
<1>1. /\ RequestInv(r) /\ MoneyInv(r.by) /\ OrderInv(r.by)
      /\ r.by \in Purchases /\ r.send \in Nat /\ r.at = "work"
  BY DEF MarketInv, RequestInv, Work
<1>2. PICK answer \in createFetchHandler(Item(r.by)) :
        /\ works' = [works EXCEPT ![r.by] = @ + (IF answer.acted THEN 1 ELSE 0)]
        /\ IF answer.status = "200" /\ r.send > 0 THEN Update(r, [r EXCEPT !.at = "settle"])
           ELSE Reply(r, answer.status)
  BY DEF Work
<1>3. /\ answer.acted \in BOOLEAN
      /\ answer.status = "200" => answer.acted
      /\ answer.status # "402"
  BY <1>1, EndpointAnswers DEF OrderInv
<1>4. PICK acted, status : /\ acted \in BOOLEAN
                          /\ acted = answer.acted /\ status = answer.status
  BY <1>3
<1>5. /\ DOMAIN works' = Purchases /\ works' = [p \in Purchases |-> works'[p]]
      /\ works'[r.by] = works[r.by] + (IF acted THEN 1 ELSE 0)
      /\ \A p \in Purchases \ {r.by} : works'[p] = works[p]
  BY <1>1, <1>2, <1>4 DEF MarketInv, ShapeInv
<1>6. r.send > 0 => Served(r) /\ Priced(r.by) /\ works[r.by] = 0 /\ r.by \in seen
  BY <1>1 DEF RequestInv, Served, MoneyInv
<1>7. r.send = 0 => ~Priced(r.by)
  BY <1>1 DEF RequestInv
<1>8. MoneyInv(r.by)'
  <2>1. CASE r.send > 0
    BY <1>1, <1>5, <1>6, <2>1 DEF MoneyInv, Work, Priced, Item, MarketInv, RequestInv
  <2>2. CASE r.send = 0
    BY <1>1, <1>5, <1>7, <2>2 DEF MoneyInv, Work, Priced, Item
  <2> QED
    BY <1>1, <2>1, <2>2
<1>9. CASE status = "200" /\ r.send > 0
  <2> DEFINE s == [r EXCEPT !.at = "settle"]
  <2>1. /\ IsRequest(s) /\ s.by = r.by /\ s.send = r.send /\ s.at = "settle"
        /\ s.status = r.status /\ s.hash = r.hash
    BY <1>1, RequestAt DEF RequestInv
  <2>2. requests' = (requests \ {r}) \cup {s}
    BY <1>2, <1>4, <1>9 DEF Update
  <2> HIDE DEF s
  <2>3. RequestInv(s)'
    BY <1>1, <1>3, <1>4, <1>5, <1>6, <1>9, <2>1 DEF RequestInv, Work, Priced, Item, Served
  <2> QED
    BY <1>1, <1>5, <1>6, <1>8, <1>9, <2>1, <2>2, <2>3, RequestStep DEF Work, MarketInv, ShapeInv
<1>10. CASE ~(status = "200" /\ r.send > 0)
  <2> DEFINE s == [r EXCEPT !.at = "answered", !.status = status]
  <2>1. /\ IsRequest(s) /\ s.by = r.by /\ s.send = r.send /\ s.at = "answered"
        /\ s.status = status /\ s.hash = r.hash
    BY <1>0 DEF IsRequest
  <2>2. requests' = (requests \ {r}) \cup {s}
    BY <1>2, <1>4, <1>10 DEF Update, Reply
  <2> HIDE DEF s
  <2>3. RequestInv(s)' /\ ~Served(s)
    BY <1>1, <1>3, <1>4, <2>1 DEF RequestInv, Work, Priced, Item, Served
  <2>4. Served(r) \/ ~Priced(r.by)
    BY <1>1, <1>6, <1>7
  <2> QED
    BY <1>1, <1>5, <1>8, <2>1, <2>2, <2>3, <2>4, RequestStep DEF Work, MarketInv, ShapeInv
<1> QED
  BY <1>9, <1>10

\* What is settled was worked for, whether or not the gate hears of it.
LEMMA SettlePaymentKeeps ==
  ASSUME MarketInv, NEW r \in requests, SettlePayment(r)
  PROVE MarketInv'
<1>0. IsRequest(r)
  BY DEF MarketInv, RequestInv
<1>1. /\ RequestInv(r) /\ MoneyInv(r.by) /\ OrderInv(r.by)
      /\ r.by \in Purchases /\ r.send > 0 /\ Served(r) /\ works[r.by] = 1
      /\ auths[r.by] # "none" /\ Priced(r.by)
  BY DEF MarketInv, RequestInv, SettlePayment, Served, MoneyInv
<1>2. PICK said \in {"success", "failure", "down", "unreadable"}, moved \in BOOLEAN :
        /\ said = "success" => moved
        /\ auths' = IF moved THEN [auths EXCEPT ![r.by] = "settled"] ELSE auths
        /\ \E status : Update(r, [r EXCEPT !.at = "answered", !.status = status,
                                           !.hash = settlePayment(said)])
  BY DEF SettlePayment
<1>h. PICK hash \in BOOLEAN : hash = settlePayment(said)
  BY DEF settlePayment
<1>3. PICK status :
        /\ hash => moved
        /\ Update(r, [r EXCEPT !.at = "answered", !.status = status, !.hash = hash])
  <2>1. hash => moved
    BY <1>2, <1>h DEF settlePayment
  <2> QED
    BY <1>2, <1>h, <2>1
<1> DEFINE s == [r EXCEPT !.at = "answered", !.status = status, !.hash = hash]
<1>4. /\ IsRequest(s) /\ s.by = r.by /\ s.send = r.send /\ s.at = "answered"
      /\ s.status = status /\ s.hash = hash
  BY <1>0 DEF IsRequest
<1>5. requests' = (requests \ {r}) \cup {s}
  BY <1>3 DEF Update
<1> HIDE DEF s
<1>6. /\ DOMAIN auths' = Purchases /\ auths' = [p \in Purchases |-> auths'[p]]
      /\ \A p \in Purchases \ {r.by} : auths'[p] = auths[p]
      /\ moved => auths'[r.by] = "settled"
      /\ ~moved => auths'[r.by] = auths[r.by]
  BY <1>1, <1>2 DEF MarketInv, ShapeInv
<1>7. RequestInv(s)' /\ ~Served(s)
  BY <1>1, <1>3, <1>4, <1>6 DEF RequestInv, SettlePayment, Priced, Item, Served
<1>8. MoneyInv(r.by)'
  BY <1>1, <1>6 DEF MoneyInv, SettlePayment, Priced, Item
<1> QED
  BY <1>1, <1>4, <1>5, <1>6, <1>7, <1>8, RequestStep DEF SettlePayment, MarketInv, ShapeInv

-----------------------------------------------------------------------------
(* A step of a buyer: how far it has come, and the requests it sends        *)

LEMMA BuyerStep ==
  ASSUME MarketInv, NEW p \in Purchases, NEW o, IsOrder(o), o.item = Item(p),
         orders' = [orders EXCEPT ![p] = o],
         requests \subseteq requests', IsFiniteSet(requests'),
         \A r \in requests' \ requests : r.by = p /\ RequestInv(r)' /\ ~Served(r),
         DOMAIN auths' = Purchases /\ auths' = [q \in Purchases |-> auths'[q]],
         \A q \in Purchases \ {p} : auths'[q] = auths[q] /\ (q \in splits' <=> q \in splits),
         auths[p] # "none" => auths'[p] = auths[p],
         UNCHANGED <<seen, works>>,
         MoneyInv(p)', OrderInv(p)'
  PROVE MarketInv'
<1>1. /\ DOMAIN orders' = Purchases /\ orders' = [q \in Purchases |-> orders'[q]]
      /\ orders'[p] = o /\ \A q \in Purchases \ {p} : orders'[q] = orders[q]
      /\ \A q \in Purchases : Item(q)' = Item(q)
  BY DEF MarketInv, ShapeInv, Item
<1>2. ShapeInv'
  BY <1>1 DEF MarketInv, ShapeInv
<1>3. ASSUME NEW q \in Purchases \ {p} PROVE MoneyInv(q)' /\ OrderInv(q)'
  <2>1. MoneyInv(q) /\ OrderInv(q)
    BY DEF MarketInv
  <2>2. Untouched(q) => Untouched(q)'
    BY <1>3 DEF Untouched
  <2> QED
    BY <1>1, <2>1, <2>2 DEF MoneyInv, OrderInv, Priced
<1>4. ASSUME NEW r \in requests PROVE RequestInv(r)'
  <2>1. RequestInv(r) /\ r.by \in Purchases
    BY DEF MarketInv, RequestInv
  <2>2. auths[r.by] # "none" => auths'[r.by] = auths[r.by]
    BY <2>1
  <2>3. Priced(r.by)' <=> Priced(r.by)
    BY <1>1, <2>1 DEF Priced
  <2> QED
    BY <2>1, <2>2, <2>3 DEF RequestInv, Served
<1>5. ServedAlone'
  BY DEF MarketInv, ServedAlone, Served
<1> QED
  BY <1>2, <1>3, <1>4, <1>5 DEF MarketInv

\* A step that only moves the buyer on, and tells it something.
LEMMA OrderStep ==
  ASSUME MarketInv, NEW p \in Purchases, NEW o, IsOrder(o), o.item = Item(p),
         orders' = [orders EXCEPT ![p] = o], UNCHANGED <<auths, requests, seen, works>>,
         \A q \in Purchases \ {p} : q \in splits' <=> q \in splits,
         orders'[p] = o => OrderInv(p)'
  PROVE MarketInv'
<1>1. orders'[p] = o
  BY DEF MarketInv, ShapeInv
<1>2. MoneyInv(p)'
  BY <1>1 DEF MarketInv, MoneyInv, Priced, Item
<1> QED
  BY <1>1, <1>2, BuyerStep DEF MarketInv, ShapeInv

\* A buyer that has sent nothing goes on, or is refused.
LEMMA InspectKeeps ==
  ASSUME MarketInv, NEW p \in Purchases, Inspect(p)
  PROVE MarketInv'
<1>0. IsOrder(orders[p])
  BY DEF MarketInv, OrderInv
<1>1. OrderInv(p) /\ Untouched(p) /\ orders[p].answer = "none" /\ p \notin splits
  BY DEF MarketInv, OrderInv, Inspect, IsAt
<1>2. CASE GoTo(p, "audit")
  <2> DEFINE o == [orders[p] EXCEPT !.at = "audit"]
  <2>1. /\ IsOrder(o) /\ o.item = Item(p) /\ o.at = "audit"
        /\ o.answer = orders[p].answer /\ o.lost = orders[p].lost
    BY <1>0 DEF IsOrder, Item
  <2>2. orders' = [orders EXCEPT ![p] = o]
    BY <1>2 DEF GoTo
  <2> HIDE DEF o
  <2>3. orders'[p] = o => OrderInv(p)'
    BY <1>1, <2>1 DEF OrderInv, Inspect, Untouched, Item
  <2> QED
    BY <2>1, <2>2, <2>3, OrderStep DEF Inspect
<1>3. CASE End(p, "refused")
  <2> DEFINE o == [orders[p] EXCEPT !.at = "ended", !.answer = "refused"]
  <2>1. /\ IsOrder(o) /\ o.item = Item(p) /\ o.at = "ended"
        /\ o.answer = "refused" /\ o.lost = orders[p].lost
    BY <1>0 DEF IsOrder, Item
  <2>2. orders' = [orders EXCEPT ![p] = o]
    BY <1>3 DEF End
  <2> HIDE DEF o
  <2>3. orders'[p] = o => OrderInv(p)'
    BY <1>1, <2>1 DEF OrderInv, Inspect, Untouched, Item
  <2> QED
    BY <2>1, <2>2, <2>3, OrderStep DEF Inspect
<1> QED
  BY <1>2, <1>3 DEF Inspect

LEMMA PreAuditKeeps ==
  ASSUME MarketInv, NEW p \in Purchases, PreAudit(p)
  PROVE MarketInv'
<1>0. IsOrder(orders[p])
  BY DEF MarketInv, OrderInv
<1> DEFINE o == [orders[p] EXCEPT !.at = "call"]
<1>1. /\ IsOrder(o) /\ o.item = Item(p) /\ o.at = "call"
      /\ o.answer = orders[p].answer /\ o.lost = orders[p].lost
  BY <1>0 DEF IsOrder, Item
<1>2. orders' = [orders EXCEPT ![p] = o]
  BY DEF PreAudit, GoTo
<1> HIDE DEF o
<1>3. orders'[p] = o => OrderInv(p)'
  BY <1>1 DEF MarketInv, OrderInv, PreAudit, IsAt, Untouched, Item
<1> QED
  BY <1>1, <1>2, <1>3, OrderStep DEF PreAudit

\* The first request asks without a payment.
LEMMA CallServiceKeeps ==
  ASSUME MarketInv, NEW p \in Purchases, CallService(p)
  PROVE MarketInv'
<1>0. IsOrder(orders[p])
  BY DEF MarketInv, OrderInv
<1>1. OrderInv(p) /\ MoneyInv(p) /\ orders[p].at = "call" /\ Untouched(p)
  BY DEF MarketInv, OrderInv, CallService, IsAt
<1> DEFINE o == [orders[p] EXCEPT !.at = "asked"]
<1>2. /\ IsOrder(o) /\ o.item = Item(p) /\ o.at = "asked"
      /\ o.answer = orders[p].answer /\ o.lost = orders[p].lost
  BY <1>0 DEF IsOrder, Item
<1>3. orders' = [orders EXCEPT ![p] = o] /\ orders'[p] = o
  BY DEF CallService, GoTo, MarketInv, ShapeInv
<1> HIDE DEF o
<1>4. OrderInv(p)'
  BY <1>1, <1>2, <1>3 DEF OrderInv, CallService, Untouched, Item
<1>5. MoneyInv(p)'
  BY <1>1, <1>2, <1>3 DEF MoneyInv, CallService, Priced, Item
<1>6. PICK r : r = Request(p, 0)
  OBVIOUS
<1>7. IsRequest(r) /\ r.by = p /\ r.send = 0 /\ r.at = "verify" /\ r.status = "none" /\ ~r.hash
  BY <1>6 DEF Request, IsRequest
<1>8. RequestInv(r)' /\ ~Served(r)
  BY <1>7 DEF RequestInv, Served
<1>9. requests' = requests \cup {r} /\ IsFiniteSet(requests')
  BY <1>6, FS_AddElement DEF CallService, MarketInv, ShapeInv
<1> QED
  BY <1>2, <1>3, <1>4, <1>5, <1>7, <1>8, <1>9, BuyerStep DEF CallService, MarketInv, ShapeInv

\* A call that fails is lost: a hire ends, an oracle is paid by the splitter next.
LEMMA FailedKeeps ==
  ASSUME MarketInv, NEW p \in Purchases, orders[p].at \in {"asked", "paying"}, Failed(p),
         UNCHANGED <<auths, requests, seen, works, splits>>
  PROVE MarketInv'
<1>0. IsOrder(orders[p])
  BY DEF MarketInv, OrderInv
<1>1. OrderInv(p) /\ orders[p].answer = "none" /\ p \notin splits
  BY DEF MarketInv, OrderInv
<1>2. CASE orders[p].kind = "query"
  <2> DEFINE o == [orders[p] EXCEPT !.at = "split", !.lost = TRUE]
  <2>1. /\ IsOrder(o) /\ o.item = Item(p) /\ o.at = "split"
        /\ o.answer = orders[p].answer /\ o.lost
    BY <1>0 DEF IsOrder, Item
  <2>2. orders' = [orders EXCEPT ![p] = o]
    BY <1>2 DEF Failed
  <2> HIDE DEF o
  <2>3. orders'[p] = o => OrderInv(p)'
    BY <1>1, <2>1 DEF OrderInv, Untouched, Item
  <2> QED
    BY <2>1, <2>2, <2>3, OrderStep
<1>3. CASE orders[p].kind # "query"
  <2> DEFINE o == [orders[p] EXCEPT !.at = "ended", !.answer = "failed", !.lost = TRUE]
  <2>1. /\ IsOrder(o) /\ o.item = Item(p) /\ o.at = "ended"
        /\ o.answer = "failed" /\ o.lost
    BY <1>0 DEF IsOrder, Item
  <2>2. orders' = [orders EXCEPT ![p] = o]
    BY <1>3 DEF Failed
  <2> HIDE DEF o
  <2>3. orders'[p] = o => OrderInv(p)'
    BY <1>1, <2>1 DEF OrderInv, Untouched, Item
  <2> QED
    BY <2>1, <2>2, <2>3, OrderStep
<1> QED
  BY <1>2, <1>3

\* Whoever is asked for a payment is asked for a price.
LEMMA SignKeeps ==
  ASSUME MarketInv, NEW p \in Purchases, Sign(p)
  PROVE MarketInv'
<1>0. IsOrder(orders[p])
  BY DEF MarketInv, OrderInv
<1>1. /\ OrderInv(p) /\ MoneyInv(p) /\ orders[p].at = "asked" /\ auths[p] = "none"
      /\ Priced(p)
  BY DEF MarketInv, OrderInv, RequestInv, Sign, IsAt
<1>2. CASE Failed(p) /\ UNCHANGED <<auths, requests>>
  BY <1>1, <1>2, FailedKeeps DEF Sign
<1>3. CASE /\ auths' = [auths EXCEPT ![p] = "signed"]
           /\ requests' = requests \cup {Request(p, 1)}
           /\ GoTo(p, "paying")
  <2> DEFINE o == [orders[p] EXCEPT !.at = "paying"]
  <2>1. /\ IsOrder(o) /\ o.item = Item(p) /\ o.at = "paying"
        /\ o.answer = orders[p].answer /\ o.lost = orders[p].lost
    BY <1>0 DEF IsOrder, Item
  <2>2. orders' = [orders EXCEPT ![p] = o] /\ orders'[p] = o
    BY <1>3 DEF GoTo, MarketInv, ShapeInv
  <2> HIDE DEF o
  <2>3. /\ DOMAIN auths' = Purchases /\ auths' = [q \in Purchases |-> auths'[q]]
        /\ auths'[p] = "signed" /\ \A q \in Purchases \ {p} : auths'[q] = auths[q]
    BY <1>3 DEF MarketInv, ShapeInv
  <2>4. OrderInv(p)'
    BY <1>1, <2>1, <2>2 DEF OrderInv, Sign, Item
  <2>5. MoneyInv(p)'
    BY <1>1, <2>1, <2>2, <2>3 DEF MoneyInv, Sign, Priced, Item
  <2>6. PICK r : r = Request(p, 1)
    OBVIOUS
  <2>7. IsRequest(r) /\ r.by = p /\ r.send = 1 /\ r.at = "verify" /\ ~r.hash
    BY <2>6 DEF Request, IsRequest
  <2>8. RequestInv(r)' /\ ~Served(r)
    BY <2>3, <2>7 DEF RequestInv, Served
  <2>9. requests' = requests \cup {r} /\ IsFiniteSet(requests')
    BY <1>3, <2>6, FS_AddElement DEF MarketInv, ShapeInv
  <2> QED
    BY <1>1, <2>1, <2>2, <2>3, <2>4, <2>5, <2>7, <2>8, <2>9, BuyerStep DEF Sign
<1> QED
  BY <1>2, <1>3 DEF Sign

\* The payload that is sent again was signed before.
LEMMA ResendKeeps ==
  ASSUME MarketInv, NEW p \in Purchases, Resend(p)
  PROVE MarketInv'
<1>1. OrderInv(p) /\ MoneyInv(p) /\ auths[p] # "none" /\ ~Untouched(p)
  BY DEF MarketInv, Resend, Untouched
<1>2. Sends(p) \in Nat
  <2>1. IsFiniteSet({r \in requests : r.by = p /\ r.send > 0})
    BY FS_Subset DEF MarketInv, ShapeInv
  <2> QED
    BY <2>1, FS_CardinalityType DEF Sends
<1>3. PICK n \in Nat : n = Sends(p) + 1
  BY <1>2
<1>4. n > 0
  BY <1>2, <1>3
<1>5. PICK r : r = Request(p, n)
  OBVIOUS
<1>6. IsRequest(r) /\ r.by = p /\ r.send = n /\ r.at = "verify" /\ ~r.hash
  BY <1>5 DEF Request, IsRequest
<1>7. RequestInv(r)' /\ ~Served(r)
  BY <1>1, <1>4, <1>6 DEF RequestInv, Served, Resend
<1>8. requests' = requests \cup {r} /\ IsFiniteSet(requests')
  BY <1>3, <1>5, FS_AddElement DEF Resend, MarketInv, ShapeInv
<1>9. OrderInv(p)'
  BY <1>1 DEF OrderInv, Resend, Item
<1>10. MoneyInv(p)'
  BY <1>1 DEF MoneyInv, Resend, Priced, Item
<1>11. orders' = [orders EXCEPT ![p] = orders[p]]
  BY DEF Resend, MarketInv, ShapeInv
<1>12. IsOrder(orders[p]) /\ orders[p].item = Item(p)
  BY <1>1 DEF OrderInv, Item
<1>13. UNCHANGED <<auths, seen, works, splits>>
  BY DEF Resend
<1> QED
  BY <1>1, <1>6, <1>7, <1>8, <1>9, <1>10, <1>11, <1>12, <1>13, BuyerStep
     DEF MarketInv, ShapeInv

\* A hash that the buyer reads is that of a settlement.
LEMMA ResponseKeeps ==
  ASSUME MarketInv, NEW p \in Purchases, Response(p)
  PROVE MarketInv'
<1>0. IsOrder(orders[p])
  BY DEF MarketInv, OrderInv
<1>1. OrderInv(p) /\ orders[p].answer = "none" /\ p \notin splits
  BY DEF MarketInv, OrderInv, Response
<1>2. PICK r \in requests :
        /\ r.by = p
        /\ IF r.status = "200" THEN \E place \in Places : End(p, extractSettlementTx(r, place))
           ELSE Failed(p)
  BY DEF Response
<1>3. CASE r.status # "200"
  BY <1>2, <1>3, FailedKeeps DEF Response
<1>4. CASE r.status = "200"
  <2>1. PICK answer \in {"paid", "free"} :
          End(p, answer) /\ (answer = "paid" => auths[p] = "settled")
    BY <1>2, <1>4 DEF extractSettlementTx, MarketInv, RequestInv
  <2> DEFINE o == [orders[p] EXCEPT !.at = "ended", !.answer = answer]
  <2>2. /\ IsOrder(o) /\ o.item = Item(p) /\ o.at = "ended"
        /\ o.answer = answer /\ o.lost = orders[p].lost
    BY <1>0 DEF IsOrder, Item
  <2>3. orders' = [orders EXCEPT ![p] = o]
    BY <2>1 DEF End
  <2> HIDE DEF o
  <2>4. orders'[p] = o => OrderInv(p)'
    BY <1>1, <2>1, <2>2 DEF OrderInv, Response, Untouched, Item
  <2> QED
    BY <2>2, <2>3, <2>4, OrderStep DEF Response
<1> QED
  BY <1>3, <1>4

LEMMA NoResponseKeeps ==
  ASSUME MarketInv, NEW p \in Purchases, NoResponse(p)
  PROVE MarketInv'
BY FailedKeeps DEF NoResponse

\* The splitter pays an oracle whose call was lost.
LEMMA DirectSplitKeeps ==
  ASSUME MarketInv, NEW p \in Purchases, DirectSplit(p)
  PROVE MarketInv'
<1>0. IsOrder(orders[p])
  BY DEF MarketInv, OrderInv
<1>1. OrderInv(p) /\ orders[p].lost
  BY DEF MarketInv, OrderInv, DirectSplit, IsAt
<1>2. PICK answer \in {"split", "failed"} :
        /\ End(p, answer) /\ splits' \in {splits, splits \cup {p}}
        /\ answer = "split" => p \in splits'
  BY DEF DirectSplit
<1> DEFINE o == [orders[p] EXCEPT !.at = "ended", !.answer = answer]
<1>3. /\ IsOrder(o) /\ o.item = Item(p) /\ o.at = "ended"
      /\ o.answer = answer /\ o.lost = orders[p].lost
  BY <1>0 DEF IsOrder, Item
<1>4. orders' = [orders EXCEPT ![p] = o]
  BY <1>2 DEF End
<1> HIDE DEF o
<1>5. orders'[p] = o => OrderInv(p)'
  BY <1>1, <1>2, <1>3 DEF OrderInv, DirectSplit, Untouched, Item
<1> QED
  BY <1>2, <1>3, <1>4, <1>5, OrderStep DEF DirectSplit

-----------------------------------------------------------------------------
(* The theorems                                                            *)

LEMMA InitMarketInv == MarketInit(Purchases, Catalog) => MarketInv
<1> SUFFICES ASSUME MarketInit(Purchases, Catalog) PROVE MarketInv
  OBVIOUS
<1>1. ASSUME NEW p \in Purchases
      PROVE \E k \in {"hire", "cli", "query"}, i \in Catalog :
              orders[p] = [kind |-> k, item |-> i, at |-> IF k = "hire" THEN "inspect" ELSE "call",
                           answer |-> "none", lost |-> FALSE]
  BY <1>1 DEF MarketInit
<1>2. ASSUME NEW p \in Purchases
      PROVE /\ IsOrder(orders[p]) /\ Item(p) \in Catalog /\ orders[p].at \in {"inspect", "call"}
            /\ orders[p].answer = "none"
  <2>1. PICK k \in {"hire", "cli", "query"}, i \in Catalog, at \in {"inspect", "call"} :
          orders[p] = [kind |-> k, item |-> i, at |-> at, answer |-> "none", lost |-> FALSE]
    BY <1>1, <1>2
  <2> QED
    BY <2>1 DEF IsOrder, Item
<1>3. \A i \in Catalog : i.price \in {0, 1} /\ i.service \in SERVICES
  BY DEF Catalog
<1>4. ASSUME NEW p \in Purchases PROVE MoneyInv(p) /\ OrderInv(p)
  BY <1>2, <1>3 DEF MarketInit, MoneyInv, OrderInv, Untouched, Priced
<1>5. ShapeInv
  BY FS_EmptySet DEF MarketInit, ShapeInv
<1> QED
  BY <1>4, <1>5 DEF MarketInit, MarketInv, ServedAlone

LEMMA NextKeepsMarketInv == MarketInv /\ [MarketNext]_marketVars => MarketInv'
<1> SUFFICES ASSUME MarketInv, [MarketNext]_marketVars PROVE MarketInv'
  OBVIOUS
<1>1. ASSUME UNCHANGED marketVars PROVE MarketInv'
  <2>1. ShapeInv'
    BY <1>1 DEF marketVars, MarketInv, ShapeInv
  <2>2. ASSUME NEW p \in Purchases PROVE MoneyInv(p)' /\ OrderInv(p)'
    <3>1. MoneyInv(p) /\ OrderInv(p)
      BY DEF MarketInv
    <3> QED
      BY <1>1, <3>1 DEF marketVars, MoneyInv, OrderInv, Untouched, Priced, Item
  <2>3. ASSUME NEW r \in requests PROVE RequestInv(r)'
    <3>1. RequestInv(r)
      BY DEF MarketInv
    <3> QED
      BY <1>1, <3>1 DEF marketVars, RequestInv, Served, Priced, Item
  <2>4. ServedAlone' /\ requests' = requests
    BY <1>1 DEF marketVars, MarketInv, ServedAlone, Served
  <2> QED
    BY <2>1, <2>2, <2>3, <2>4 DEF MarketInv
<1>2. ASSUME NEW p \in DOMAIN orders,
             \/ Inspect(p) \/ PreAudit(p) \/ CallService(p) \/ Sign(p) \/ Resend(p)
             \/ Response(p) \/ NoResponse(p) \/ DirectSplit(p)
      PROVE MarketInv'
  <2>1. p \in Purchases
    BY DEF MarketInv, ShapeInv
  <2> QED
    BY <1>2, <2>1, InspectKeeps, PreAuditKeeps, CallServiceKeeps, SignKeeps, ResendKeeps,
       ResponseKeeps, NoResponseKeeps, DirectSplitKeeps
<1>3. ASSUME NEW r \in requests,
             NoHeader(r) \/ Judge(r) \/ Verified(r) \/ Work(r) \/ SettlePayment(r)
      PROVE MarketInv'
  BY <1>3, NoHeaderKeeps, JudgeKeeps, VerifiedKeeps, WorkKeeps, SettlePaymentKeeps
<1> QED
  BY <1>1, <1>2, <1>3 DEF MarketNext

\* However often a payload is sent, an agent acts at most once for what has a
\* price, and what is settled was acted for (x402.ts:24, routes/swap.ts:41).
THEOREM MarketMoneyForWork == MarketSpec => []MoneyForWork
<1>1. MarketInv => MoneyForWork
  BY DEF MarketInv, ShapeInv, MoneyInv, MoneyForWork, Priced
<1> QED
  BY <1>1, InitMarketInv, NextKeepsMarketInv, PTL DEF MarketSpec

\* What the buyer is told is what happened to its money (index.ts:2054 of the
\* terminal, live-deps.ts:234).
THEOREM MarketAnswerTellsThePayment == MarketSpec => []AnswerTellsThePayment
<1>1. MarketInv => AnswerTellsThePayment
  BY DEF MarketInv, ShapeInv, OrderInv, Untouched, AnswerTellsThePayment
<1> QED
  BY <1>1, InitMarketInv, NextKeepsMarketInv, PTL DEF MarketSpec


-----------------------------------------------------------------------------
(* When the hash is told, all zeros means that nothing was charged.        *)

\* A success that was paid for carries its hash: the host hears of every transfer
\* the facilitator makes, or does not answer with a success ...
HashIsGiven ==
  \A r \in requests :
    r.at = "answered" /\ r.status = "200" /\ auths[r.by] = "settled" => r.hash

\* ... and puts it where extractSettlementTx looks.
HashIsRead ==
  \A p \in Purchases :
    (\E r \in requests : r.by = p /\ r.hash) /\ orders[p].answer # "free"
      => orders'[p].answer # "free"

\* The host has let the request pass the fingerprint, and its work has not failed.
LetPass(r) ==
  r.send > 0 /\ (r.at \in {"work", "settle"} \/ (r.at = "answered" /\ r.status = "200"))

PassInv ==
  /\ \A r \in requests :
       /\ LetPass(r) => r.by \in seen
       /\ r.send = 0 /\ r.at = "answered" /\ r.status # "402" => ~Priced(r.by)
  /\ \A r, s \in requests : LetPass(r) /\ LetPass(s) /\ r.by = s.by => r = s

\* What is reported as free is not settled, and there is nothing left that could
\* settle it.
FreeInv ==
  \A p \in Purchases : orders[p].answer = "free" =>
    /\ orders[p].at = "ended"
    /\ auths[p] # "settled"
    /\ \/ ~Priced(p)
       \/ p \in seen /\ \A r \in requests : r.by = p => ~Served(r)

\* What a request r becomes in a step of the host: it passes, and is served, only
\* if it was before or is the first of its purchase, and only one that is served
\* is settled.
Moved(r, s) ==
  /\ s.by = r.by /\ s.send = r.send
  /\ requests' = (requests \ {r}) \cup {s} /\ orders' = orders
  /\ seen \subseteq seen'
  /\ LetPass(s) => LetPass(r) \/ (r.by \notin seen /\ r.by \in seen')
  /\ Served(s) => Served(r) \/ r.by \notin seen
  /\ s.send = 0 /\ s.at = "answered" /\ s.status # "402" => ~Priced(s.by)
  /\ \A p \in Purchases :
       auths'[p] = "settled" => auths[p] = "settled" \/ (p = r.by /\ Served(r))

LEMMA NoHeaderMoves ==
  ASSUME MarketInv, NEW r \in requests, NoHeader(r)
  PROVE  \E s : Moved(r, s)
<1>1. IsRequest(r) /\ r.send = 0
  BY DEF MarketInv, RequestInv, NoHeader
<1>2. orders' = orders /\ seen' = seen /\ auths' = auths
  BY DEF NoHeader
<1>3. CASE Item(r.by).price = 0
  <2> DEFINE s == [r EXCEPT !.at = "work"]
  <2>1. s.by = r.by /\ s.send = r.send /\ s.at = "work"
    BY <1>1, RequestAt
  <2>2. requests' = (requests \ {r}) \cup {s}
    BY <1>3 DEF NoHeader, Update
  <2> HIDE DEF s
  <2>3. ~LetPass(s) /\ ~Served(s) /\ s.at # "answered"
    BY <1>1, <2>1 DEF LetPass, Served
  <2> QED
    BY <1>2, <2>1, <2>2, <2>3 DEF Moved
<1>4. CASE Item(r.by).price # 0
  <2> DEFINE s == [r EXCEPT !.at = "answered", !.status = "402"]
  <2>1. s.by = r.by /\ s.send = r.send /\ s.status = "402"
    BY <1>1 DEF IsRequest
  <2>2. verifyPayment(r) = "402"
    BY <1>1 DEF verifyPayment
  <2>3. requests' = (requests \ {r}) \cup {s}
    BY <1>4, <2>2 DEF NoHeader, Reply, Update
  <2> HIDE DEF s
  <2>4. ~LetPass(s) /\ ~Served(s)
    BY <1>1, <2>1 DEF LetPass, Served
  <2> QED
    BY <1>2, <2>1, <2>3, <2>4 DEF Moved
<1> QED
  BY <1>3, <1>4

LEMMA JudgeMoves ==
  ASSUME MarketInv, NEW r \in requests, Judge(r)
  PROVE  \E s : Moved(r, s)
<1>1. IsRequest(r)
  BY DEF MarketInv, RequestInv
<1>2. PICK said : requests' = (requests \ {r}) \cup {[r EXCEPT !.at = "judged", !.reply = said]}
  BY DEF Judge, Update
<1> DEFINE s == [r EXCEPT !.at = "judged", !.reply = said]
<1>3. s.by = r.by /\ s.send = r.send /\ s.at = "judged"
  BY <1>1 DEF IsRequest
<1>4. requests' = (requests \ {r}) \cup {s} /\ orders' = orders /\ seen' = seen /\ auths' = auths
  BY <1>2 DEF Judge
<1> HIDE DEF s
<1>5. ~LetPass(s) /\ ~Served(s) /\ s.at # "answered"
  BY <1>3 DEF LetPass, Served
<1> QED
  BY <1>3, <1>4, <1>5 DEF Moved

LEMMA VerifiedMoves ==
  ASSUME MarketInv, NEW r \in requests, Verified(r)
  PROVE  \E s : Moved(r, s)
<1>1. IsRequest(r) /\ r.send # 0 /\ orders' = orders /\ auths' = auths
  BY DEF MarketInv, RequestInv, Verified
<1>2. CASE verifyPayment(r) = "ok" /\ r.by \notin seen
  <2> DEFINE s == [r EXCEPT !.at = "work"]
  <2>1. s.by = r.by /\ s.send = r.send
    BY <1>1, RequestAt
  <2>2. requests' = (requests \ {r}) \cup {s} /\ seen' = seen \cup {r.by}
    BY <1>2 DEF Verified, Update
  <2> HIDE DEF s
  <2> QED
    BY <1>1, <1>2, <2>1, <2>2 DEF Moved
<1>3. CASE ~(verifyPayment(r) = "ok" /\ r.by \notin seen)
  <2>1. PICK status \in {"402", "503", "502", "409"} : Reply(r, status) /\ seen' = seen
    BY <1>3 DEF Verified, verifyPayment
  <2> DEFINE s == [r EXCEPT !.at = "answered", !.status = status]
  <2>2. s.by = r.by /\ s.send = r.send /\ s.at = "answered" /\ s.status = status
    BY <1>1 DEF IsRequest
  <2>3. requests' = (requests \ {r}) \cup {s}
    BY <2>1 DEF Reply, Update
  <2> HIDE DEF s
  <2>4. ~LetPass(s) /\ ~Served(s)
    BY <2>2 DEF LetPass, Served
  <2> QED
    BY <1>1, <2>1, <2>2, <2>3, <2>4 DEF Moved
<1> QED
  BY <1>2, <1>3

LEMMA WorkMoves ==
  ASSUME MarketInv, NEW r \in requests, Work(r)
  PROVE  \E s : Moved(r, s)
<1>1. IsRequest(r) /\ r.at = "work" /\ (r.send = 0 => ~Priced(r.by))
  BY DEF MarketInv, RequestInv, Work
<1>2. r.send > 0 => LetPass(r) /\ Served(r)
  BY <1>1 DEF LetPass, Served
<1>3. orders' = orders /\ seen' = seen /\ auths' = auths
  BY DEF Work
<1>4. \/ requests' = (requests \ {r}) \cup {[r EXCEPT !.at = "settle"]}
      \/ \E status :
           requests' = (requests \ {r}) \cup {[r EXCEPT !.at = "answered", !.status = status]}
  BY DEF Work, Reply, Update
<1>5. ASSUME NEW s, s.by = r.by, s.send = r.send, requests' = (requests \ {r}) \cup {s}
      PROVE  Moved(r, s)
  <2>1. (LetPass(s) => LetPass(r)) /\ (Served(s) => Served(r))
    BY <1>2, <1>5 DEF LetPass, Served
  <2> QED
    BY <1>1, <1>3, <1>5, <2>1 DEF Moved
<1>6. CASE requests' = (requests \ {r}) \cup {[r EXCEPT !.at = "settle"]}
  <2> DEFINE s == [r EXCEPT !.at = "settle"]
  <2>1. s.by = r.by /\ s.send = r.send
    BY <1>1, RequestAt
  <2>2. requests' = (requests \ {r}) \cup {s}
    BY <1>6
  <2> HIDE DEF s
  <2> QED
    BY <1>5, <2>1, <2>2
<1>7. ASSUME NEW status,
             requests' = (requests \ {r}) \cup {[r EXCEPT !.at = "answered", !.status = status]}
      PROVE  \E s : Moved(r, s)
  <2> DEFINE s == [r EXCEPT !.at = "answered", !.status = status]
  <2>1. s.by = r.by /\ s.send = r.send
    BY <1>1 DEF IsRequest
  <2>2. requests' = (requests \ {r}) \cup {s}
    BY <1>7
  <2> HIDE DEF s
  <2> QED
    BY <1>5, <2>1, <2>2
<1> QED
  BY <1>4, <1>6, <1>7

LEMMA SettlePaymentMoves ==
  ASSUME MarketInv, NEW r \in requests, SettlePayment(r)
  PROVE  \E s : Moved(r, s)
<1>1. IsRequest(r) /\ RequestInv(r) /\ r.at = "settle" /\ r.by \in Purchases
  BY DEF MarketInv, RequestInv, SettlePayment
<1>2. r.send \in Nat /\ r.send # 0
  BY <1>1 DEF RequestInv
<1>3. LetPass(r) /\ Served(r)
  BY <1>1, <1>2 DEF LetPass, Served
<1>4. PICK status, hash :
        requests' = (requests \ {r}) \cup
          {[r EXCEPT !.at = "answered", !.status = status, !.hash = hash]}
  BY DEF SettlePayment, Update
<1> DEFINE s == [r EXCEPT !.at = "answered", !.status = status, !.hash = hash]
<1>5. s.by = r.by /\ s.send = r.send
  BY <1>1 DEF IsRequest
<1>6. requests' = (requests \ {r}) \cup {s} /\ orders' = orders /\ seen' = seen
  BY <1>4 DEF SettlePayment
<1>7. \A p \in Purchases : p # r.by => auths'[p] = auths[p]
  BY DEF SettlePayment
<1> HIDE DEF s
<1> QED
  BY <1>2, <1>3, <1>5, <1>6, <1>7 DEF Moved

\* A request that moves on keeps the host's order and the free answers.
LEMMA MovedKeepsPass ==
  ASSUME PassInv, NEW r \in requests, NEW s, Moved(r, s)
  PROVE  PassInv'
<1>1. \A p : Priced(p)' <=> Priced(p)
  BY DEF Moved, Priced, Item
<1>2. \A q \in requests' : q = s \/ (q \in requests /\ q # r)
  BY DEF Moved
<1>3. LetPass(s) => s.by \in seen'
  BY DEF PassInv, Moved
<1>4. ASSUME NEW q \in requests, q # r, LetPass(q), LetPass(s), q.by = s.by PROVE FALSE
  BY <1>4 DEF PassInv, Moved
<1>5. \A q \in requests' : LetPass(q) => q.by \in seen'
  BY <1>2, <1>3 DEF PassInv, Moved
<1>6. \A q \in requests' : q.send = 0 /\ q.at = "answered" /\ q.status # "402" => ~Priced(q.by)
  BY <1>2 DEF PassInv, Moved
<1>7. \A q, t \in requests' : LetPass(q) /\ LetPass(t) /\ q.by = t.by => q = t
  BY <1>2, <1>4 DEF PassInv
<1>8. \A q : LetPass(q)' <=> LetPass(q)
  BY DEF LetPass
<1> QED
  BY <1>1, <1>5, <1>6, <1>7, <1>8 DEF PassInv

LEMMA MovedKeepsFree ==
  ASSUME MarketInv, FreeInv, NEW r \in requests, NEW s, Moved(r, s)
  PROVE  FreeInv'
<1> SUFFICES ASSUME NEW p \in Purchases, orders[p].answer = "free"
             PROVE  /\ auths'[p] # "settled"
                    /\ ~Priced(p)' \/ (p \in seen' /\ \A q \in requests' : q.by = p => ~Served(q)')
  BY DEF FreeInv, Moved
<1>1. /\ auths[p] # "settled"
      /\ ~Priced(p) \/ (p \in seen /\ \A q \in requests : q.by = p => ~Served(q))
  BY DEF FreeInv
<1>2. Served(r) /\ r.by = p => Priced(p)
  BY DEF MarketInv, RequestInv, MoneyInv, Served
<1>3. auths'[p] # "settled"
  BY <1>1, <1>2 DEF Moved
<1>4. Priced(p)' <=> Priced(p)
  BY DEF Moved, Priced, Item
<1>5. ASSUME Priced(p), NEW q \in requests', q.by = p PROVE ~Served(q)
  <2>1. p \in seen /\ \A t \in requests : t.by = p => ~Served(t)
    BY <1>1, <1>5
  <2> QED
    BY <1>5, <2>1 DEF Moved
<1>6. \A q : Served(q)' <=> Served(q)
  BY DEF Served
<1> QED
  BY <1>1, <1>3, <1>4, <1>5, <1>6 DEF Moved

\* What a step of the buyer p does: it may send, settles nothing, and an order
\* that has ended does not change.
Bought(p) ==
  /\ \A q \in Purchases : Item(q)' = Item(q)
  /\ \A q \in Purchases : q # p \/ orders[q].at = "ended" => orders'[q] = orders[q]
  /\ \A q \in Purchases : auths'[q] = "settled" => auths[q] = "settled"
  /\ requests \subseteq requests' /\ \A r \in requests' \ requests : r.at = "verify"
  /\ seen' = seen

\* However the order moves on, what is bought stays the same.
LEMMA OrderMoves ==
  ASSUME MarketInv, NEW p \in Purchases, orders[p].at # "ended",
         \/ \E step : GoTo(p, step)
         \/ \E answer : End(p, answer)
         \/ Failed(p)
  PROVE  /\ \A q \in Purchases : Item(q)' = Item(q)
         /\ \A q \in Purchases : q # p => orders'[q] = orders[q]
<1>1. IsOrder(orders[p]) /\ DOMAIN orders = Purchases
      /\ orders = [q \in Purchases |-> orders[q]]
  BY DEF MarketInv, OrderInv, ShapeInv
<1>2. ASSUME NEW o, o.item = orders[p].item, orders' = [orders EXCEPT ![p] = o]
      PROVE  /\ \A q \in Purchases : Item(q)' = Item(q)
             /\ \A q \in Purchases : q # p => orders'[q] = orders[q]
  BY <1>1, <1>2 DEF Item
<1>3. ASSUME NEW step, GoTo(p, step)
      PROVE  \E o : o.item = orders[p].item /\ orders' = [orders EXCEPT ![p] = o]
  <2> DEFINE o == [orders[p] EXCEPT !.at = step]
  <2>1. o.item = orders[p].item
    BY <1>1 DEF IsOrder
  <2>2. orders' = [orders EXCEPT ![p] = o]
    BY <1>3 DEF GoTo
  <2> HIDE DEF o
  <2> QED
    BY <2>1, <2>2
<1>4. ASSUME NEW answer, End(p, answer)
      PROVE  \E o : o.item = orders[p].item /\ orders' = [orders EXCEPT ![p] = o]
  <2> DEFINE o == [orders[p] EXCEPT !.at = "ended", !.answer = answer]
  <2>1. o.item = orders[p].item
    BY <1>1 DEF IsOrder
  <2>2. orders' = [orders EXCEPT ![p] = o]
    BY <1>4 DEF End
  <2> HIDE DEF o
  <2> QED
    BY <2>1, <2>2
<1>5. ASSUME Failed(p)
      PROVE  \E o : o.item = orders[p].item /\ orders' = [orders EXCEPT ![p] = o]
  <2> DEFINE o == [orders[p] EXCEPT !.at = "split", !.lost = TRUE]
             e == [orders[p] EXCEPT !.at = "ended", !.answer = "failed", !.lost = TRUE]
  <2>1. o.item = orders[p].item /\ e.item = orders[p].item
    BY <1>1 DEF IsOrder
  <2>2. orders' = [orders EXCEPT ![p] = o] \/ orders' = [orders EXCEPT ![p] = e]
    BY <1>5 DEF Failed
  <2> HIDE DEF o, e
  <2> QED
    BY <2>1, <2>2
<1> QED
  BY <1>2, <1>3, <1>4, <1>5

LEMMA BuyerBuys ==
  ASSUME MarketInv, NEW p \in Purchases,
         \/ Inspect(p) \/ PreAudit(p) \/ CallService(p) \/ Sign(p) \/ Resend(p)
         \/ Response(p) \/ NoResponse(p) \/ DirectSplit(p)
  PROVE  Bought(p)
<1>1. CASE Resend(p)
  <2>1. Request(p, Sends(p) + 1).at = "verify"
    BY DEF Request
  <2> QED
    BY <1>1, <2>1 DEF Resend, Bought, Item
<1>2. CASE CallService(p)
  <2>1. Request(p, 0).at = "verify"
    BY DEF Request
  <2>2. orders[p].at # "ended" /\ GoTo(p, "asked")
    BY <1>2 DEF CallService, IsAt
  <2> QED
    BY <1>2, <2>1, <2>2, OrderMoves DEF CallService, Bought
<1>3. CASE Sign(p)
  <2>1. Request(p, 1).at = "verify"
    BY DEF Request
  <2>2. orders[p].at # "ended" /\ (GoTo(p, "paying") \/ Failed(p)) /\ seen' = seen
    BY <1>3 DEF Sign, IsAt
  <2>3. requests \subseteq requests' /\ \A r \in requests' \ requests : r.at = "verify"
    BY <1>3, <2>1 DEF Sign
  <2>4. \A q \in Purchases : auths'[q] = "settled" => auths[q] = "settled"
    BY <1>3 DEF Sign, MarketInv, ShapeInv
  <2> QED
    BY <2>2, <2>3, <2>4, OrderMoves DEF Bought
<1>4. CASE Inspect(p) \/ PreAudit(p) \/ Response(p) \/ NoResponse(p) \/ DirectSplit(p)
  <2>1. UNCHANGED <<auths, requests, seen>>
    BY <1>4 DEF Inspect, PreAudit, Response, NoResponse, DirectSplit
  <2>2. orders[p].at # "ended"
    BY <1>4 DEF Inspect, PreAudit, Response, NoResponse, DirectSplit, IsAt
  <2>3. \/ \E step : GoTo(p, step)
        \/ \E answer : End(p, answer)
        \/ Failed(p)
    BY <1>4 DEF Inspect, PreAudit, Response, NoResponse, DirectSplit
  <2> QED
    BY <2>1, <2>2, <2>3, OrderMoves DEF Bought
<1> QED
  BY <1>1, <1>2, <1>3, <1>4

\* Nothing that a buyer does lets a request pass.
LEMMA BuyerKeepsPass ==
  ASSUME MarketInv, PassInv, NEW p \in Purchases, Bought(p)
  PROVE  PassInv'
<1>1. \A q \in Purchases : Priced(q)' <=> Priced(q)
  BY DEF Bought, Priced
<1>2. \A r \in requests : r.by \in Purchases
  BY DEF MarketInv, RequestInv
<1>3. \A r \in requests' \ requests : ~LetPass(r)
  BY DEF Bought, LetPass
<1>4. \A q : LetPass(q)' <=> LetPass(q)
  BY DEF LetPass
<1> QED
  BY <1>1, <1>2, <1>3, <1>4 DEF PassInv, Bought

\* An order is answered as free by a success without a hash, and then there is
\* nothing left to settle it.
LEMMA AnsweredFree ==
  ASSUME MarketInv, PassInv, HashIsGiven, HashIsRead, NEW p \in Purchases, Response(p),
         orders'[p].answer = "free"
  PROVE  /\ auths[p] # "settled"
         /\ ~Priced(p) \/ (p \in seen /\ \A q \in requests : q.by = p => ~Served(q))
<1>1. IsOrder(orders[p]) /\ DOMAIN orders = Purchases /\ orders[p].answer = "none"
      /\ orders = [q \in Purchases |-> orders[q]]
  BY DEF MarketInv, OrderInv, ShapeInv, Response
<1>2. PICK r \in requests :
        /\ r.by = p /\ r.at = "answered" /\ (r.send = 0 => r.status # "402")
        /\ IF r.status = "200" THEN \E place \in Places : End(p, extractSettlementTx(r, place))
           ELSE Failed(p)
  BY DEF Response
<1>3. r.status = "200"
  <2>1. SUFFICES ASSUME Failed(p) PROVE orders'[p].answer # "free"
    BY <1>2
  <2>2. orders'[p] = IF orders[p].kind = "query" THEN [orders[p] EXCEPT !.at = "split", !.lost = TRUE]
                     ELSE [orders[p] EXCEPT !.at = "ended", !.answer = "failed", !.lost = TRUE]
    BY <1>1, <2>1 DEF Failed
  <2> QED
    BY <1>1, <2>2 DEF IsOrder
<1>4. ~r.hash
  BY <1>1, <1>2 DEF HashIsRead
<1>5. auths[p] # "settled"
  BY <1>2, <1>3, <1>4 DEF HashIsGiven
<1>6. CASE r.send = 0
  BY <1>2, <1>5, <1>6 DEF PassInv
<1>7. CASE r.send # 0
  <2>1. LetPass(r) /\ ~Served(r)
    BY <1>2, <1>3, <1>7 DEF LetPass, Served, MarketInv, RequestInv
  <2>2. ASSUME NEW q \in requests, q.by = p, Served(q) PROVE FALSE
    <3>1. LetPass(q)
      BY <2>2 DEF LetPass, Served
    <3> QED
      BY <1>2, <2>1, <2>2, <3>1 DEF PassInv
  <2> QED
    BY <1>2, <1>5, <2>1, <2>2 DEF PassInv
<1> QED
  BY <1>6, <1>7

\* A free answer is the last thing a purchase comes to.
LEMMA BuyerKeepsFree ==
  ASSUME MarketInv, PassInv, FreeInv, HashIsGiven, HashIsRead, NEW p \in Purchases,
         \/ Inspect(p) \/ PreAudit(p) \/ CallService(p) \/ Sign(p) \/ Resend(p)
         \/ Response(p) \/ NoResponse(p) \/ DirectSplit(p)
  PROVE  FreeInv'
<1>1. Bought(p)
  BY BuyerBuys
<1>2. ASSUME NEW q \in Purchases, orders'[q].answer = "free", orders[q].answer # "free"
      PROVE  /\ q = p /\ Response(p) /\ orders'[q].at = "ended"
  <2>1. q = p /\ orders[q].at # "ended"
    BY <1>1, <1>2 DEF Bought
  <2>2. /\ IsOrder(orders[p]) /\ DOMAIN orders = Purchases /\ orders[p].answer # "free"
        /\ orders = [u \in Purchases |-> orders[u]]
    BY <1>2, <2>1 DEF MarketInv, OrderInv, ShapeInv
  <2>3. ASSUME NEW step, GoTo(p, step) PROVE FALSE
    <3>1. orders'[p] = [orders[p] EXCEPT !.at = step]
      BY <2>2, <2>3 DEF GoTo
    <3> QED
      BY <1>2, <2>1, <2>2, <3>1 DEF IsOrder
  <2>4. ASSUME Failed(p) PROVE FALSE
    <3>1. orders'[p] = IF orders[p].kind = "query" THEN [orders[p] EXCEPT !.at = "split", !.lost = TRUE]
                       ELSE [orders[p] EXCEPT !.at = "ended", !.answer = "failed", !.lost = TRUE]
      BY <2>2, <2>4 DEF Failed
    <3> QED
      BY <1>2, <2>1, <2>2, <3>1 DEF IsOrder
  <2>5. ASSUME NEW answer, End(p, answer)
        PROVE  orders'[p].answer = answer /\ orders'[p].at = "ended"
    <3>1. orders'[p] = [orders[p] EXCEPT !.at = "ended", !.answer = answer]
      BY <2>2, <2>5 DEF End
    <3> QED
      BY <2>2, <3>1 DEF IsOrder
  <2>6. orders' # orders
    BY <1>2
  <2>7. CASE Response(p)
    <3>1. \E answer : End(p, answer)
      BY <2>4, <2>7 DEF Response
    <3> QED
      BY <2>1, <2>5, <2>7, <3>1
  <2>8. CASE Inspect(p) \/ DirectSplit(p)
    <3>1. \E answer \in {"refused", "split", "failed"} : End(p, answer)
      BY <2>3, <2>8 DEF Inspect, DirectSplit
    <3> QED
      BY <1>2, <2>1, <2>5, <3>1
  <2>9. CASE PreAudit(p) \/ CallService(p) \/ Sign(p) \/ NoResponse(p) \/ Resend(p)
    BY <2>3, <2>4, <2>6, <2>9 DEF PreAudit, CallService, Sign, NoResponse, Resend
  <2> QED
    BY <2>7, <2>8, <2>9
<1>3. ASSUME NEW q \in Purchases, orders'[q].answer = "free"
      PROVE  /\ orders'[q].at = "ended"
             /\ auths[q] # "settled"
             /\ ~Priced(q) \/ (q \in seen /\ \A r \in requests : r.by = q => ~Served(r))
  <2>1. CASE orders[q].answer = "free"
    <3>1. orders[q].at = "ended" /\ orders'[q] = orders[q]
      BY <1>1, <2>1 DEF FreeInv, Bought
    <3> QED
      BY <2>1, <3>1 DEF FreeInv
  <2>2. CASE orders[q].answer # "free"
    BY <1>2, <1>3, <2>2, AnsweredFree
  <2> QED
    BY <2>1, <2>2
<1>4. \A q \in Purchases : Priced(q)' <=> Priced(q)
  BY <1>1 DEF Bought, Priced
<1>5. \A r \in requests' : Served(r)' => r \in requests /\ Served(r)
  BY <1>1 DEF Bought, Served
<1> QED
  BY <1>1, <1>3, <1>4, <1>5 DEF FreeInv, Bought

-----------------------------------------------------------------------------

LEMMA NextKeepsFree ==
  ASSUME MarketInv, PassInv, FreeInv, HashIsGiven, [MarketNext /\ HashIsRead]_marketVars
  PROVE  PassInv' /\ FreeInv'
<1>1. CASE UNCHANGED marketVars
  BY <1>1 DEF marketVars, PassInv, FreeInv, LetPass, Served, Priced, Item
<1>2. ASSUME NEW p \in DOMAIN orders, HashIsRead,
             \/ Inspect(p) \/ PreAudit(p) \/ CallService(p) \/ Sign(p) \/ Resend(p)
             \/ Response(p) \/ NoResponse(p) \/ DirectSplit(p)
      PROVE  PassInv' /\ FreeInv'
  <2>1. p \in Purchases
    BY DEF MarketInv, ShapeInv
  <2> QED
    BY <1>2, <2>1, BuyerBuys, BuyerKeepsPass, BuyerKeepsFree
<1>3. ASSUME NEW r \in requests,
             NoHeader(r) \/ Judge(r) \/ Verified(r) \/ Work(r) \/ SettlePayment(r)
      PROVE  PassInv' /\ FreeInv'
  <2>1. \E s : Moved(r, s)
    BY <1>3, NoHeaderMoves, JudgeMoves, VerifiedMoves, WorkMoves, SettlePaymentMoves
  <2> QED
    BY <2>1, MovedKeepsPass, MovedKeepsFree
<1> QED
  BY <1>1, <1>2, <1>3 DEF MarketNext

\* "All-zeros = free workflow, no USDC charged" (index.ts:2055 of the terminal):
\* what is reported as free is not charged, if the host tells the hash of every
\* transfer with its success and puts it where extractSettlementTx looks.  The
\* gate sees to neither, and the run `market_zero_hash' shows a settled payment
\* that is reported as free.
THEOREM MarketZeroHashIsFreeWhenTold ==
  MarketSpec /\ []HashIsGiven /\ [][HashIsRead]_marketVars => []ZeroHashIsFree
<1>1. MarketInit(Purchases, Catalog) => PassInv /\ FreeInv
  <2> SUFFICES ASSUME MarketInit(Purchases, Catalog) PROVE PassInv /\ FreeInv
    OBVIOUS
  <2>1. requests = {}
    BY DEF MarketInit
  <2>2. \A p \in Purchases : orders[p].answer # "free"
    <3>1. ASSUME NEW p \in Purchases PROVE orders[p].answer = "none"
      <4>1. PICK k, i, at :
              orders[p] = [kind |-> k, item |-> i, at |-> at, answer |-> "none", lost |-> FALSE]
        BY DEF MarketInit
      <4> QED
        BY <4>1
    <3> QED
      BY <3>1
  <2> QED
    BY <2>1, <2>2 DEF PassInv, FreeInv
<1>2. MarketInv /\ FreeInv => ZeroHashIsFree
  BY DEF MarketInv, ShapeInv, FreeInv, ZeroHashIsFree
<1>3. MarketInv /\ PassInv /\ FreeInv /\ HashIsGiven /\ [MarketNext /\ HashIsRead]_marketVars
        => PassInv' /\ FreeInv'
  BY NextKeepsFree
<1>4. [MarketNext]_marketVars /\ [HashIsRead]_marketVars => [MarketNext /\ HashIsRead]_marketVars
  OBVIOUS
<1> QED
  BY <1>1, <1>2, <1>3, <1>4, InitMarketInv, NextKeepsMarketInv, PTL DEF MarketSpec

-----------------------------------------------------------------------------
(* The types of the marketplace                                            *)

Answers == {"none", "refused", "failed", "paid", "free", "split"}
Steps == {"verify", "judged", "work", "settle", "answered"}

MarketTypes ==
  /\ \A p \in Purchases : auths[p] \in {"none", "signed", "settled"} /\ orders[p].answer \in Answers
  /\ seen \subseteq Purchases /\ splits \subseteq Purchases
  /\ \A r \in requests : r.at \in Steps

\* A step of the host moves one request to another of its steps.
LEMMA HostKeepsTypes ==
  ASSUME MarketInv, MarketTypes, NEW r \in requests,
         NoHeader(r) \/ Judge(r) \/ Verified(r) \/ Work(r) \/ SettlePayment(r)
  PROVE  MarketTypes'
<1>1. IsRequest(r) /\ r.by \in Purchases /\ ShapeInv
  BY DEF MarketInv, RequestInv
<1>2. ASSUME NEW s, Update(r, s), s.at \in Steps PROVE \A q \in requests' : q.at \in Steps
  BY <1>2 DEF Update, MarketTypes
<1>3. ASSUME NEW at \in Steps PROVE [r EXCEPT !.at = at].at \in Steps
  BY <1>1, <1>3 DEF IsRequest
<1>4. ASSUME NEW status, Reply(r, status) PROVE \A q \in requests' : q.at \in Steps
  <2>1. [r EXCEPT !.at = "answered", !.status = status].at \in Steps
    BY <1>1 DEF IsRequest, Steps
  <2> QED
    BY <1>2, <1>4, <2>1 DEF Reply
<1>5. ASSUME NEW at \in Steps, Update(r, [r EXCEPT !.at = at]) PROVE \A q \in requests' : q.at \in Steps
  BY <1>2, <1>3, <1>5
<1>6. \A q \in requests' : q.at \in Steps
  <2>1. CASE NoHeader(r)
    BY <1>4, <1>5, <2>1 DEF NoHeader, Steps
  <2>2. CASE Judge(r)
    <3>1. PICK said : Update(r, [r EXCEPT !.at = "judged", !.reply = said])
      BY <2>2 DEF Judge
    <3>2. [r EXCEPT !.at = "judged", !.reply = said].at \in Steps
      BY <1>1 DEF IsRequest, Steps
    <3> QED
      BY <1>2, <3>1, <3>2
  <2>3. CASE Verified(r)
    BY <1>4, <1>5, <2>3 DEF Verified, Steps
  <2>4. CASE Work(r)
    BY <1>4, <1>5, <2>4 DEF Work, Steps
  <2>5. CASE SettlePayment(r)
    <3>1. PICK status, hash : Update(r, [r EXCEPT !.at = "answered", !.status = status, !.hash = hash])
      BY <2>5 DEF SettlePayment
    <3>2. [r EXCEPT !.at = "answered", !.status = status, !.hash = hash].at \in Steps
      BY <1>1 DEF IsRequest, Steps
    <3> QED
      BY <1>2, <3>1, <3>2
  <2> QED
    BY <2>1, <2>2, <2>3, <2>4, <2>5
<1>7. /\ orders' = orders /\ splits' = splits
      /\ seen' = seen \/ seen' = seen \cup {r.by}
      /\ auths' = auths \/ auths' = [auths EXCEPT ![r.by] = "settled"]
  BY DEF NoHeader, Judge, Verified, Work, SettlePayment
<1> QED
  BY <1>1, <1>6, <1>7 DEF MarketTypes, ShapeInv

\* The answer that a purchase ends with is one of these.
LEMMA BuyerKeepsTypes ==
  ASSUME MarketInv, MarketTypes, NEW p \in Purchases,
         \/ Inspect(p) \/ PreAudit(p) \/ CallService(p) \/ Sign(p) \/ Resend(p)
         \/ Response(p) \/ NoResponse(p) \/ DirectSplit(p)
  PROVE  MarketTypes'
<1>1. IsOrder(orders[p]) /\ ShapeInv /\ orders[p].answer \in Answers
  BY DEF MarketInv, OrderInv, MarketTypes
<1>2. ASSUME NEW o, o.answer \in Answers, orders' = [orders EXCEPT ![p] = o]
      PROVE  \A q \in Purchases : orders'[q].answer \in Answers
  BY <1>1, <1>2 DEF MarketTypes, ShapeInv
<1>3. ASSUME NEW step, GoTo(p, step) PROVE \A q \in Purchases : orders'[q].answer \in Answers
  <2> DEFINE o == [orders[p] EXCEPT !.at = step]
  <2>1. o.answer \in Answers
    BY <1>1 DEF IsOrder
  <2>2. orders' = [orders EXCEPT ![p] = o]
    BY <1>3 DEF GoTo
  <2> QED
    BY <1>2, <2>1, <2>2
<1>4. ASSUME NEW answer \in Answers, End(p, answer)
      PROVE  \A q \in Purchases : orders'[q].answer \in Answers
  <2> DEFINE o == [orders[p] EXCEPT !.at = "ended", !.answer = answer]
  <2>1. o.answer \in Answers
    BY <1>1 DEF IsOrder
  <2>2. orders' = [orders EXCEPT ![p] = o]
    BY <1>4 DEF End
  <2> QED
    BY <1>2, <2>1, <2>2
<1>5. ASSUME Failed(p) PROVE \A q \in Purchases : orders'[q].answer \in Answers
  <2> DEFINE o == [orders[p] EXCEPT !.at = "split", !.lost = TRUE]
             e == [orders[p] EXCEPT !.at = "ended", !.answer = "failed", !.lost = TRUE]
  <2>1. o.answer \in Answers /\ e.answer \in Answers
    BY <1>1 DEF IsOrder, Answers
  <2>2. orders' = [orders EXCEPT ![p] = o] \/ orders' = [orders EXCEPT ![p] = e]
    BY <1>5 DEF Failed
  <2> HIDE DEF o, e
  <2> QED
    BY <1>2, <2>1, <2>2
<1>6. \A q \in Purchases : orders'[q].answer \in Answers
  <2>1. \/ \E step : GoTo(p, step)
        \/ \E answer \in Answers : End(p, answer)
        \/ Failed(p)
        \/ orders' = orders
    BY DEF Inspect, PreAudit, CallService, Sign, Resend, Response, NoResponse, DirectSplit,
           extractSettlementTx, Answers
  <2> QED
    BY <1>3, <1>4, <1>5, <2>1 DEF MarketTypes
<1>7. /\ seen' = seen
      /\ splits' = splits \/ splits' = splits \cup {p}
      /\ auths' = auths \/ auths' = [auths EXCEPT ![p] = "signed"]
      /\ requests' = requests \/ \E n : requests' = requests \cup {Request(p, n)}
  BY DEF Inspect, PreAudit, CallService, Sign, Resend, Response, NoResponse, DirectSplit
<1>8. \A n : Request(p, n).at \in Steps
  BY DEF Request, Steps
<1> QED
  BY <1>1, <1>6, <1>7, <1>8 DEF MarketTypes, ShapeInv

\* Authorizations, work, requests and answers keep their types.
THEOREM MarketTypeCorrect == MarketSpec => []MarketTypeOK
<1>1. MarketInit(Purchases, Catalog) => MarketTypes
  <2> SUFFICES ASSUME MarketInit(Purchases, Catalog), NEW p \in Purchases
               PROVE  orders[p].answer \in Answers
    BY DEF MarketInit, MarketTypes
  <2>1. PICK k, i, at :
          orders[p] = [kind |-> k, item |-> i, at |-> at, answer |-> "none", lost |-> FALSE]
    BY DEF MarketInit
  <2> QED
    BY <2>1 DEF Answers
<1>2. MarketInv /\ MarketTypes /\ [MarketNext]_marketVars => MarketTypes'
  <2> SUFFICES ASSUME MarketInv, MarketTypes, [MarketNext]_marketVars PROVE MarketTypes'
    OBVIOUS
  <2>1. CASE UNCHANGED marketVars
    BY <2>1 DEF marketVars, MarketTypes
  <2>2. DOMAIN orders = Purchases
    BY DEF MarketInv, ShapeInv
  <2> QED
    BY <2>1, <2>2, HostKeepsTypes, BuyerKeepsTypes DEF MarketNext
<1>3. MarketInv /\ MarketTypes => MarketTypeOK
  BY DEF MarketInv, ShapeInv, MoneyInv, MarketTypes, MarketTypeOK, Answers, Steps
<1> QED
  BY <1>1, <1>2, <1>3, InitMarketInv, NextKeepsMarketInv, PTL DEF MarketSpec
=============================================================================
