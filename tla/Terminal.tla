------------------------------- MODULE Terminal -------------------------------
(***************************************************************************)
(* The terminal of apps/tui/src: one process, one thread, module variables *)
(* that every dispatcher and the keyboard write (index.ts).  Enter parses  *)
(* the line and starts a dispatcher that nobody awaits, so several may be  *)
(* under way at a time; each runs to its next await in one step.  An audit *)
(* drives the FLOW panel by the steps of the demo loop (orchestrator-      *)
(* step.ts), and fetches the receipts of its transactions in the           *)
(* background (receipt-feed.ts).  G opens the form that grants a spend cap *)
(* (grant.ts).  A new terminal kills the old one and loads the receipt     *)
(* that was saved to disk (audit-trail.ts).                                *)
(*                                                                         *)
(* Nothing in the code sets cancelRequested, so the branches that read it  *)
(* are dead and left out; the rows of the audit trail and the layout are   *)
(* left out too.  What happens inside one await of an agent's dispatcher   *)
(* is in MintAgent, Operator and Marketplace.                              *)
(***************************************************************************)
EXTENDS Integers, Sequences, FiniteSets

CONSTANTS
  Kinds,            \* the commands that are typed
  MaxDispatches,    \* bound on the dispatchers that are started
  MaxRestarts       \* bound on the terminals that follow the first

ASSUME TerminalAssumption == MaxDispatches \in Nat /\ MaxRestarts \in Nat

VARIABLES
  tasks,      \* the dispatchers in the order they were started
  flow,       \* the FLOW panel
  writers,    \* the audits that wrote to it since it was last cleared; 0 is the R key
  envelope,   \* the RECEIPT panel: its status, and the runs whose events it shows
  saved,      \* the envelope on disk
  fetches,    \* the receipts being fetched
  running,    \* runningCommand
  staged,     \* stagedIntent, by what a grant would be for
  mode,       \* intentMode
  modal,      \* the grant form, or Closed
  restarts

terminalVars == <<tasks, flow, writers, envelope, saved, fetches, running, staged, mode, modal, restarts>>

-----------------------------------------------------------------------------
(* What each dispatcher awaits, and what becomes of it when that fails     *)

\* settles: the envelope becomes settled after it.  fails: "freed" is a refusal
\* or an error that ends the dispatcher and clears runningCommand, "passed" one
\* that it ignores, "escapes" one that nothing catches.
Await(settles, fails) == [settles |-> settles, fails |-> fails]
Asked        == Await(FALSE, "freed")
AskedLoosely == Await(FALSE, "escapes")
AskedSoftly  == Await(FALSE, "passed")
Settled      == Await(TRUE, "freed")

\* The label it sets runningCommand to, "none" if it sets none, and its awaits.
AskOracle  == [shows |-> "ask-oracle", awaits |-> <<Asked>>]
Swap       == [shows |-> "swap", awaits |-> <<Asked, Settled>>]
Transfer   == [shows |-> "transfer", awaits |-> <<Settled>>]
Commit     == [shows |-> "axiom-commit", awaits |-> <<Asked, Settled>>]
\* Mutant of Reveal: what commitOf throws is not caught.
RevealUnguarded == [shows |-> "axiom-reveal", awaits |-> <<AskedLoosely, Asked, Settled>>]
Reveal     == [shows |-> "axiom-reveal", awaits |-> <<Asked, Asked, Settled>>]
\* The recipient, the signature, the simulation, the transaction and its receipt.
Delegate   == [shows |-> "delegate", awaits |-> <<Asked, Asked, Asked, Asked, AskedSoftly>>]
Agents     == [shows |-> "audit", awaits |-> <<AskedSoftly>>]
Mint       == [shows |-> "audit", awaits |-> <<Asked>>]
Balances   == [shows |-> "none", awaits |-> <<AskedSoftly>>]
Block      == [shows |-> "none", awaits |-> <<AskedSoftly>>]
\* The prediction, the transaction, its receipt.
AaDeploy   == [shows |-> "audit", awaits |-> <<Asked, Asked, AskedLoosely>>]
\* The prediction, the code, the nonce, the gas price, the signature, the
\* bundler, and the receipt that is polled for a minute.
AaSend     == [shows |-> "audit",
               awaits |-> <<Asked, AskedLoosely, Asked, Asked, AskedLoosely, Asked, Asked>>]
Park       == [shows |-> "park", awaits |-> <<Settled>>]
Unpark     == [shows |-> "unpark", awaits |-> <<Settled>>]
KhAsk      == [shows |-> "none", awaits |-> <<Asked>>]     \* trigger, workflows, integrations, discover
KhShow     == [shows |-> "none", awaits |-> <<Settled>>] \* status, inspect
\* The workflow, its audit, which may fail, and the payment.
KhHire     == [shows |-> "none", awaits |-> <<Asked, AskedSoftly, Settled>>]
GrantCap   == [shows |-> "none", awaits |-> <<Asked, Asked, Asked>>]
\* The audit is not a list of awaits: see The audit.
Audit      == [shows |-> "audit", awaits |-> <<>>]

Dispatcher ==
  [audit |-> Audit, askOracle |-> AskOracle, swap |-> Swap, transfer |-> Transfer,
   commit |-> Commit, reveal |-> Reveal, delegate |-> Delegate, agents |-> Agents,
   mint |-> Mint, balances |-> Balances, block |-> Block, aaDeploy |-> AaDeploy,
   aaSend |-> AaSend, park |-> Park, unpark |-> Unpark, khAsk |-> KhAsk,
   khShow |-> KhShow, khHire |-> KhHire, grant |-> GrantCap]

\* A cap is granted by the form only.
ASSUME KindsAssumption == Kinds \subseteq DOMAIN Dispatcher \ {"grant"}

NoTerms == [bucket |-> "none", amount |-> 0]

Task(kind, terms) ==
  [kind |-> kind, at |-> 1, state |-> "live", phase |-> "requested", rail |-> "none",
   outcome |-> "none", terms |-> terms]

Live(t) == tasks[t].state = "live"
Shows(t) == Dispatcher[tasks[t].kind].shows

-----------------------------------------------------------------------------
(* The FLOW panel: intent, policy, rails, execute                          *)

Dark == [x402 |-> "off", direct_split |-> "off"]

mkFlow == [nodes |-> <<"off", "off", "off", "off">>, rails |-> Dark, complete |-> FALSE]

Nodes(f, nodes) == [f EXCEPT !.nodes = nodes]
Closing(f, nodes) == [f EXCEPT !.nodes = nodes, !.complete = TRUE]

\* Mutant of OnRequest: the rails of the run before stay lit.
OnRequestKeepingRails(f) ==
  [f EXCEPT !.nodes = <<"active", "off", "off", "off">>, !.complete = FALSE]

OnRequest(f) == Nodes(mkFlow, <<"active", "off", "off", "off">>)
OnCapChecked(f) == Nodes(f, <<"done", "active", "off", "off">>)
OnExceeded(f) == Closing(f, <<"done", "rejected", "rejected", "rejected">>)
OnSettle(f, rail) ==
  [Nodes(f, <<"done", "done", "active", "off">>) EXCEPT
     !.rails = [r \in DOMAIN Dark |-> IF r = rail THEN "done" ELSE "rejected"]]
OnStart(f) == Nodes(f, <<"done", "done", "done", "active">>)
OnDone(f) == Closing(f, <<"done", "done", "done", "done">>)
OnFailed(f) == Closing(f, <<"done", "done", "done", "rejected">>)

OnReceiptFailed(f) == IF f.nodes[4] = "done" THEN f ELSE OnFailed(f)

-----------------------------------------------------------------------------
(* The grant form                                                          *)

Closed == [bucket |-> "closed", typed |-> "0.5", shown |-> 0]

\* permissionIdFor, and the bucket of a form opened with nothing staged.
BucketOf(what) == IF what = "none" THEN "audit" ELSE what

\* parseCapAtomic, in tenths of a USDC: what is no positive number is 0.5 USDC.
Amount(typed) == CASE typed = "1" -> 10 [] OTHER -> 5

-----------------------------------------------------------------------------
TerminalTypeOK ==
  /\ Len(tasks) <= MaxDispatches
  /\ running \in {Dispatcher[k].shows : k \in DOMAIN Dispatcher} \cup {"idle"}
  /\ staged \in {"none", "audit", "oracle", "other"}
  /\ mode \in {"idle", "editing"}
  /\ {envelope.split, envelope.feedback} \subseteq 0 .. Len(tasks)
  /\ fetches \subseteq {"split", "feedback"} \X (1 .. Len(tasks))

EMPTY_RECEIPT == [status |-> "none", split |-> 0, feedback |-> 0]

TerminalInit ==
  /\ tasks = <<>>
  /\ flow = mkFlow /\ writers = {0}
  /\ envelope = EMPTY_RECEIPT /\ saved = EMPTY_RECEIPT /\ fetches = {}
  /\ running = "idle" /\ staged = "none" /\ mode = "editing" /\ modal = Closed
  /\ restarts = 0

panels == <<flow, writers, envelope, saved, fetches>>
input == <<staged, mode, modal>>

-----------------------------------------------------------------------------
(* The keyboard                                                            *)

Typing == mode = "editing" /\ modal = Closed
Browsing == mode = "idle" /\ modal = Closed

\* Bound: keys that only change what the next dispatch will be.
Preparing == Len(tasks) < MaxDispatches

Staging(kind) ==
  CASE kind = "audit" -> "audit" [] kind = "askOracle" -> "oracle" [] OTHER -> "other"

\* Enter on a line that parses: the dispatcher runs to its first await.  An
\* audit emits its payment request before that.
Dispatch(kind) ==
  /\ Typing /\ Preparing
  /\ staged' = Staging(kind)
  /\ tasks' = Append(tasks, Task(kind, NoTerms))
  /\ running' = IF Dispatcher[kind].shows = "none" THEN running ELSE Dispatcher[kind].shows
  /\ IF kind = "audit"
       THEN flow' = OnRequest(flow) /\ writers' = {Len(tasks')}
       ELSE UNCHANGED <<flow, writers>>
  /\ UNCHANGED <<envelope, saved, fetches, mode, modal, restarts>>

\* Enter on a command that the environment refuses; on a line that does not
\* parse, nothing is staged.
Refuse ==
  /\ Typing /\ Preparing
  /\ \E kind \in Kinds : staged' = Staging(kind)
  /\ UNCHANGED <<tasks, panels, running, mode, modal, restarts>>

Misread ==
  /\ Typing /\ Preparing
  /\ staged' = "none"
  /\ UNCHANGED <<tasks, panels, running, mode, modal, restarts>>

\* The cancel command clears the label and stops nothing.
Cancel ==
  /\ Typing
  /\ staged' = "other" /\ running' = "idle"
  /\ UNCHANGED <<tasks, panels, mode, modal, restarts>>

Escape ==
  /\ Typing /\ Preparing
  /\ mode' = "idle" /\ staged' = "none"
  /\ UNCHANGED <<tasks, panels, running, modal, restarts>>

Tab ==
  /\ modal = Closed /\ Preparing
  /\ mode' = IF mode = "editing" THEN "idle" ELSE "editing"
  /\ UNCHANGED <<tasks, panels, running, staged, modal, restarts>>

\* A new FLOW object: an audit under way writes the rest of its steps to it.
\* What is on disk stays.
Reset ==
  /\ Browsing
  /\ flow' = mkFlow /\ writers' = {0}
  /\ envelope' = EMPTY_RECEIPT /\ staged' = "none"
  /\ UNCHANGED <<tasks, saved, fetches, running, mode, modal, restarts>>

OpenGrant ==
  /\ Browsing /\ Preparing /\ staged # "other"
  /\ modal' = [bucket |-> BucketOf(staged), typed |-> "0.5", shown |-> Amount("0.5")]
  /\ UNCHANGED <<tasks, panels, running, staged, mode, restarts>>

\* Mutant of EditGrant: the lines of the form are not rebuilt.
EditGrantOnly(typed) ==
  /\ modal # Closed
  /\ modal' = [modal EXCEPT !.typed = typed]
  /\ UNCHANGED <<tasks, panels, running, staged, mode, restarts>>

EditGrant(typed) ==
  /\ modal # Closed
  /\ modal' = [modal EXCEPT !.typed = typed, !.bucket = BucketOf(staged), !.shown = Amount(typed)]
  /\ UNCHANGED <<tasks, panels, running, staged, mode, restarts>>

CloseGrant ==
  /\ modal # Closed
  /\ modal' = Closed
  /\ UNCHANGED <<tasks, panels, running, staged, mode, restarts>>

ConfirmGrant ==
  /\ modal # Closed /\ Preparing
  /\ modal' = Closed
  /\ tasks' = Append(tasks, Task("grant", [bucket |-> BucketOf(staged), amount |-> Amount(modal.typed)]))
  /\ UNCHANGED <<panels, running, staged, mode, restarts>>

Keyboard ==
  \/ \E kind \in Kinds : Dispatch(kind)
  \/ Refuse \/ Misread \/ Cancel \/ Escape \/ Tab \/ Reset
  \/ OpenGrant \/ \E typed \in {"0", "0.5", "1"} : EditGrant(typed)
  \/ CloseGrant \/ ConfirmGrant

-----------------------------------------------------------------------------
(* The dispatchers                                                         *)

Freed(t) == IF Shows(t) = "none" THEN running ELSE "idle"

Current(t) == Dispatcher[tasks[t].kind].awaits[tasks[t].at]

Advance(t) ==
  IF tasks[t].at = Len(Dispatcher[tasks[t].kind].awaits)
    THEN tasks' = [tasks EXCEPT ![t].state = "ended"] /\ running' = Freed(t)
    ELSE tasks' = [tasks EXCEPT ![t].at = @ + 1] /\ UNCHANGED running

\* The envelope of anything but an audit is not saved to disk.
AwaitReturns(t) ==
  /\ Live(t) /\ tasks[t].kind # "audit"
  /\ Advance(t)
  /\ envelope' = IF Current(t).settles THEN [envelope EXCEPT !.status = "settled"] ELSE envelope
  /\ UNCHANGED <<flow, writers, saved, fetches, input, restarts>>

AwaitFails(t) ==
  /\ Live(t) /\ tasks[t].kind # "audit"
  /\ \/ /\ Current(t).fails = "freed"
        /\ tasks' = [tasks EXCEPT ![t].state = "ended"] /\ running' = Freed(t)
     \/ Current(t).fails = "passed" /\ Advance(t)
     \/ /\ Current(t).fails = "escapes"
        /\ tasks' = [tasks EXCEPT ![t].state = "escaped"] /\ UNCHANGED running
  /\ UNCHANGED <<panels, input, restarts>>

-----------------------------------------------------------------------------
(* The audit                                                               *)

At(t, phases) == Live(t) /\ tasks[t].kind = "audit" /\ tasks[t].phase \in phases

Paint(t, picture) == flow' = picture /\ writers' = writers \cup {t}

Finish(t, outcome) ==
  /\ tasks' = [tasks EXCEPT ![t].state = "ended", ![t].outcome = outcome]
  /\ running' = Freed(t)

receipt == <<envelope, saved>>

CapChecked(t) ==
  /\ At(t, {"requested"})
  /\ tasks' = [tasks EXCEPT ![t].phase = "capped"]
  /\ Paint(t, OnCapChecked(flow))
  /\ UNCHANGED <<receipt, fetches, running, input, restarts>>

CapExceeded(t) ==
  /\ At(t, {"requested"})
  /\ Finish(t, "blocked")
  /\ Paint(t, OnExceeded(flow))
  /\ UNCHANGED <<receipt, fetches, input, restarts>>

\* No cap contract is configured, or the cap allows it.  Only a split of the
\* FeeSplitter has the event that fetchSplit looks for.
PaymentSettled(t, rail) ==
  /\ At(t, {"requested", "capped"})
  /\ tasks' = [tasks EXCEPT ![t].phase = "settled", ![t].rail = rail]
  /\ Paint(t, OnSettle(flow, rail))
  /\ fetches' = IF rail = "direct_split" THEN fetches \cup {<<"split", t>>} ELSE fetches
  /\ UNCHANGED <<receipt, running, input, restarts>>

AuditStarts(t) ==
  /\ At(t, {"settled"})
  /\ tasks' = [tasks EXCEPT ![t].phase = "auditing"]
  /\ Paint(t, OnStart(flow))
  /\ UNCHANGED <<receipt, fetches, running, input, restarts>>

\* audit.complete and audit.receipt.post; the memory pin and the reveal follow.
Posted(t) ==
  /\ At(t, {"auditing"})
  /\ tasks' = [tasks EXCEPT ![t].phase = "posted", ![t].outcome = "complete"]
  /\ Paint(t, OnDone(OnDone(flow)))
  /\ fetches' = fetches \cup {<<"feedback", t>>}
  /\ UNCHANGED <<receipt, running, input, restarts>>

\* audit.complete and audit.receipt.failed.
Unposted(t) ==
  /\ At(t, {"auditing"})
  /\ Finish(t, "complete")
  /\ Paint(t, OnReceiptFailed(OnDone(flow)))
  /\ UNCHANGED <<receipt, fetches, input, restarts>>

AuditFailed(t) ==
  /\ At(t, {"auditing"})
  /\ Finish(t, "failed")
  /\ Paint(t, OnFailed(flow))
  /\ UNCHANGED <<receipt, fetches, input, restarts>>

\* Mutant of AuditReturns: the dispatcher ends on an error only.
AuditReturnsOnError(t) ==
  /\ At(t, {"requested", "capped"})
  /\ Finish(t, tasks[t].outcome)
  /\ UNCHANGED <<panels, input, restarts>>

\* The end of the run after the pins, or an error that the dispatcher reports.
AuditReturns(t) ==
  /\ At(t, {"requested", "capped", "posted"})
  /\ Finish(t, tasks[t].outcome)
  /\ UNCHANGED <<panels, input, restarts>>

AuditStep(t) ==
  \/ CapChecked(t) \/ CapExceeded(t)
  \/ \E rail \in {"x402", "direct_split", "none"} : PaymentSettled(t, rail)
  \/ AuditStarts(t) \/ Posted(t) \/ Unposted(t) \/ AuditFailed(t) \/ AuditReturns(t)

\* setReceiptEnvelope is given what it was, with the event that was decoded.
Fetched(what, t) ==
  /\ <<what, t>> \in fetches
  /\ fetches' = fetches \ {<<what, t>>}
  /\ envelope' = IF what = "split"
                   THEN [envelope EXCEPT !.status = "settled", !.split = t]
                   ELSE [envelope EXCEPT !.status = "settled+receipt", !.feedback = t]
  /\ saved' = envelope'
  /\ UNCHANGED <<tasks, flow, writers, running, input, restarts>>

\* The transaction is not mined yet: there is no second try.
NotFetched(what, t) ==
  /\ <<what, t>> \in fetches
  /\ fetches' = fetches \ {<<what, t>>}
  /\ UNCHANGED <<tasks, flow, writers, receipt, running, input, restarts>>

\* A second terminal kills this one and starts from what is on disk.
Restart ==
  /\ restarts < MaxRestarts
  /\ restarts' = restarts + 1
  /\ tasks' = [t \in DOMAIN tasks |->
                 IF Live(t) THEN [tasks[t] EXCEPT !.state = "killed"] ELSE tasks[t]]
  /\ flow' = mkFlow /\ writers' = {0}
  /\ envelope' = saved /\ fetches' = {}
  /\ running' = "idle" /\ staged' = "none" /\ mode' = "editing" /\ modal' = Closed
  /\ UNCHANGED saved

Step(t) == AwaitReturns(t) \/ AwaitFails(t) \/ AuditStep(t)

TerminalNext ==
  \/ Keyboard
  \/ \E t \in DOMAIN tasks : Step(t)
  \/ \E f \in fetches : Fetched(f[1], f[2]) \/ NotFetched(f[1], f[2])
  \/ Restart

TerminalSpec == TerminalInit /\ [][TerminalNext]_terminalVars

\* Every await returns or fails in the end.  The clients of the chains have timeouts;
\* the fetches of a hire have none, and are assumed to return.
FairTerminalSpec == TerminalSpec /\ \A t \in 1 .. MaxDispatches : WF_terminalVars(t \in DOMAIN tasks /\ Step(t))

-----------------------------------------------------------------------------
(* Properties                                                              *)

\* Of a FLOW panel that one audit alone has drawn since its payment request
\* (orchestrator-step.ts:52): EXECUTE is green when its audit gave a verdict,
\* also when the receipt could not be posted; POLICY is red when the cap stopped
\* it; a rail is lit when it paid by that rail; and it is complete when the run
\* has an outcome.
FlowTellsTheRun ==
  \A t \in DOMAIN tasks :
    writers = {t} =>
      /\ (flow.nodes[4] = "done") = (tasks[t].outcome = "complete")
      /\ (flow.nodes[2] = "rejected") = (tasks[t].outcome = "blocked")
      /\ \A rail \in DOMAIN flow.rails : (flow.rails[rail] = "done") = (tasks[t].rail = rail)
      /\ flow.complete = (tasks[t].outcome # "none")

\* The AGENTS panel shows what is happening (agent-status.ts:3): the label
\* runningCommand belongs to a dispatcher that is under way, or to one whose
\* error nothing caught (index.ts:1256, 1336, 1391).
LabelHasAnOwner ==
  running # "idle" =>
    \E t \in DOMAIN tasks : /\ Shows(t) = running
                            /\ \/ Live(t)
                               \/ tasks[t].state = "escaped" /\ tasks[t].kind \in {"aaDeploy", "aaSend"}

\* A grant that is submitted is for the bucket and the amount that the form
\* showed when it was confirmed (grant.ts:122).
GrantIsWhatWasShown ==
  [][\A t \in DOMAIN tasks' \ DOMAIN tasks :
       tasks'[t].kind = "grant" =>
         /\ modal # Closed
         /\ tasks'[t].terms = [bucket |-> modal.bucket, amount |-> modal.shown]]_terminalVars

\* A dispatcher ends: it returns, fails, or is killed with its terminal.
EveryDispatchEnds ==
  \A t \in 1 .. MaxDispatches : (t \in DOMAIN tasks) ~> (t \in DOMAIN tasks /\ ~Live(t))

=============================================================================
