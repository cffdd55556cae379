---------------------------- MODULE TerminalProofs ----------------------------
(***************************************************************************)
(* Proofs about the terminal, for any commands, any number of dispatchers  *)
(* that run at a time and any number of restarts: the AGENTS label belongs *)
(* to a dispatcher, a grant is the one that was shown, FLOW tells the run  *)
(* that drew it, and a receipt is of a transaction that its run sent.      *)
(***************************************************************************)
EXTENDS Terminal, SequenceTheorems, TLAPS

-----------------------------------------------------------------------------
(* The dispatchers                                                         *)

\* Those whose errors nothing catches.
Escapable == {"aaDeploy", "aaSend"}

\* What is known of the dispatcher of a kind.
Known(kind, d) ==
  /\ Len(d.awaits) \in Nat
  /\ kind # "audit" => Len(d.awaits) > 0
  /\ d.shows # "idle"
  /\ kind \notin Escapable => \A i \in 1 .. Len(d.awaits) : d.awaits[i].fails # "escapes"

LEMMA Awaits == /\ Asked.fails # "escapes" /\ AskedSoftly.fails # "escapes" /\ Settled.fails # "escapes"
BY DEF Asked, AskedSoftly, Settled, Await

LEMMA KnownDispatchers == \A kind \in DOMAIN Dispatcher : Known(kind, Dispatcher[kind])
<1>1. /\ Known("audit", Audit) /\ Known("askOracle", AskOracle) /\ Known("swap", Swap)
      /\ Known("transfer", Transfer) /\ Known("commit", Commit) /\ Known("reveal", Reveal)
  BY Awaits DEF Known, Audit, AskOracle, Swap, Transfer, Commit, Reveal
<1>2. /\ Known("delegate", Delegate) /\ Known("agents", Agents) /\ Known("mint", Mint)
      /\ Known("balances", Balances) /\ Known("block", Block)
  BY Awaits DEF Known, Delegate, Agents, Mint, Balances, Block
<1>3. Known("aaDeploy", AaDeploy) /\ Known("aaSend", AaSend)
  BY DEF Known, AaDeploy, AaSend, Escapable
<1>4. /\ Known("park", Park) /\ Known("unpark", Unpark) /\ Known("khAsk", KhAsk)
      /\ Known("khShow", KhShow) /\ Known("khHire", KhHire) /\ Known("grant", GrantCap)
  BY Awaits DEF Known, Park, Unpark, KhAsk, KhShow, KhHire, GrantCap
<1> QED
  BY <1>1, <1>2, <1>3, <1>4 DEF Dispatcher

-----------------------------------------------------------------------------
(* The inductive invariant                                                 *)

Buckets == {"none", "audit", "oracle", "other"}

Tasks ==
  [kind : DOMAIN Dispatcher, at : Nat, state : {"live", "ended", "escaped", "killed"},
   phase : {"requested", "capped", "settled", "auditing", "posted"},
   rail : {"x402", "direct_split", "none"},
   outcome : {"none", "blocked", "complete", "failed"},
   terms : [bucket : Buckets, amount : Nat]]

\* A dispatcher that is under way is at one of its awaits, and one that nobody
\* caught is of those that can escape.
TaskInv(task) ==
  /\ task \in Tasks
  /\ task.state = "escaped" => task.kind \in Escapable
  /\ task.state = "live" /\ task.kind # "audit" =>
       task.at \in 1 .. Len(Dispatcher[task.kind].awaits)

\* The form is about what is staged, and says so.
FormInv ==
  modal # Closed => modal.bucket = BucketOf(staged) /\ modal.shown = Amount(modal.typed)

Forms == [bucket : Buckets \cup {"closed"}, typed : {"0", "0.5", "1"}, shown : Nat]

IInv ==
  /\ tasks \in Seq(Tasks) /\ \A t \in DOMAIN tasks : TaskInv(tasks[t])
  /\ staged \in Buckets /\ modal \in Forms
  /\ FormInv
  /\ LabelHasAnOwner
  /\ running # "none"

LEMMA InitIInv == TerminalInit => IInv
BY DEF TerminalInit, IInv, FormInv, Forms, Buckets, Closed, LabelHasAnOwner

\* A new dispatcher, behind the others.
LEMMA Started ==
  ASSUME IInv, NEW kind \in DOMAIN Dispatcher, NEW terms \in [bucket : Buckets, amount : Nat]
  PROVE LET task == Task(kind, terms)
        IN  /\ TaskInv(task) /\ task.kind = kind /\ task.state = "live" /\ task.terms = terms
            /\ Append(tasks, task) \in Seq(Tasks)
            /\ DOMAIN Append(tasks, task) = DOMAIN tasks \cup {Len(tasks) + 1}
            /\ \A t \in DOMAIN tasks : Append(tasks, task)[t] = tasks[t]
            /\ Append(tasks, task)[Len(tasks) + 1] = task
            /\ Len(tasks) + 1 \notin DOMAIN tasks
<1> DEFINE task == Task(kind, terms)
<1>1. /\ task \in Tasks /\ task.kind = kind /\ task.state = "live" /\ task.at = 1
      /\ task.terms = terms
  BY DEF Task, Tasks
<1> HIDE DEF task
<1>2. TaskInv(task)
  BY <1>1, KnownDispatchers DEF TaskInv, Known
<1>3. tasks \in Seq(Tasks) /\ DOMAIN tasks = 1 .. Len(tasks) /\ Len(tasks) \in Nat
  BY DEF IInv
<1>4. /\ Append(tasks, task) \in Seq(Tasks)
      /\ Len(Append(tasks, task)) = Len(tasks) + 1
      /\ DOMAIN Append(tasks, task) = 1 .. Len(tasks) + 1
      /\ \A t \in 1 .. Len(tasks) : Append(tasks, task)[t] = tasks[t]
      /\ Append(tasks, task)[Len(tasks) + 1] = task
  BY <1>1, <1>3
<1>5. 1 .. Len(tasks) + 1 = 1 .. Len(tasks) \cup {Len(tasks) + 1} /\ Len(tasks) + 1 \notin 1 .. Len(tasks)
  BY <1>3
<1> QED
  BY <1>1, <1>2, <1>3, <1>4, <1>5 DEF task

\* A step that moves one dispatcher on, and ends it only if it clears the label or
\* had set none.
LEMMA TaskStep ==
  ASSUME IInv, NEW t \in DOMAIN tasks, NEW n, TaskInv(n), n.kind = tasks[t].kind,
         tasks' = [tasks EXCEPT ![t] = n], UNCHANGED input,
         \/ running' = "idle"
         \/ running' = running /\ (n.state \in {"live", "escaped"} \/ Shows(t) = "none")
  PROVE IInv'
<1>1. tasks \in Seq(Tasks) /\ n \in Tasks
  BY DEF IInv, TaskInv
<1>2. /\ tasks' \in Seq(Tasks) /\ DOMAIN tasks' = DOMAIN tasks /\ tasks'[t] = n
      /\ \A q \in DOMAIN tasks \ {t} : tasks'[q] = tasks[q]
  BY <1>1
<1>3. \A q \in DOMAIN tasks' : TaskInv(tasks'[q])
  BY <1>2 DEF IInv
<1>4. LabelHasAnOwner'
  <2> SUFFICES ASSUME running' # "idle", running' = running PROVE LabelHasAnOwner'
    BY DEF LabelHasAnOwner
  <2>1. PICK u \in DOMAIN tasks :
          /\ Shows(u) = running
          /\ \/ Live(u)
             \/ tasks[u].state = "escaped" /\ tasks[u].kind \in {"aaDeploy", "aaSend"}
    BY DEF IInv, LabelHasAnOwner
  <2>2. tasks'[u].kind = tasks[u].kind
    BY <1>2
  <2>3. CASE u # t
    <3>1. tasks'[u] = tasks[u]
      BY <1>2, <2>3
    <3> QED
      BY <1>2, <2>1, <3>1 DEF LabelHasAnOwner, Shows, Live
  <2>4. CASE u = t
    <3>1. n.state \in {"live", "escaped"}
      BY <2>1, <2>4 DEF IInv
    <3> QED
      BY <1>2, <2>1, <2>2, <2>4, <3>1 DEF LabelHasAnOwner, Shows, Live, TaskInv, Escapable
  <2> QED
    BY <2>3, <2>4
<1> QED
  BY <1>2, <1>3, <1>4 DEF IInv, FormInv, input

\* A step that leaves the dispatchers and their label alone.
LEMMA PanelStep ==
  ASSUME IInv, UNCHANGED <<tasks, running>>,
         staged' \in Buckets, modal' \in Forms, FormInv'
  PROVE IInv'
BY DEF IInv, LabelHasAnOwner, Shows, Live

\* The end of an await of anything but an audit.
LEMMA AdvanceKeeps ==
  ASSUME IInv, NEW t \in DOMAIN tasks, Live(t), tasks[t].kind # "audit", UNCHANGED input,
         \/ Advance(t)
         \/ tasks' = [tasks EXCEPT ![t].state = "ended"] /\ running' = Freed(t)
         \/ /\ Current(t).fails = "escapes"
            /\ tasks' = [tasks EXCEPT ![t].state = "escaped"] /\ UNCHANGED running
  PROVE IInv'
<1>1. /\ tasks[t] \in Tasks /\ tasks[t].at \in 1 .. Len(Dispatcher[tasks[t].kind].awaits)
      /\ Known(tasks[t].kind, Dispatcher[tasks[t].kind])
  BY KnownDispatchers DEF IInv, TaskInv, Live, Tasks
<1>2. CASE tasks' = [tasks EXCEPT ![t].state = "ended"] /\ running' = Freed(t)
  <2> DEFINE n == [tasks[t] EXCEPT !.state = "ended"]
  <2>1. n \in Tasks /\ n.kind = tasks[t].kind /\ n.state = "ended"
    BY <1>1 DEF Tasks
  <2>2. tasks' = [tasks EXCEPT ![t] = n]
    BY <1>2
  <2> HIDE DEF n
  <2> QED
    BY <1>2, <2>1, <2>2, TaskStep DEF TaskInv, Freed
<1>3. CASE /\ Current(t).fails = "escapes"
           /\ tasks' = [tasks EXCEPT ![t].state = "escaped"] /\ UNCHANGED running
  <2> DEFINE n == [tasks[t] EXCEPT !.state = "escaped"]
  <2>1. n \in Tasks /\ n.kind = tasks[t].kind /\ n.state = "escaped"
    BY <1>1 DEF Tasks
  <2>2. tasks' = [tasks EXCEPT ![t] = n]
    BY <1>3
  <2>3. tasks[t].kind \in Escapable
    BY <1>1, <1>3 DEF Known, Current
  <2> HIDE DEF n
  <2> QED
    BY <1>3, <2>1, <2>2, <2>3, TaskStep DEF TaskInv
<1>4. CASE /\ tasks[t].at # Len(Dispatcher[tasks[t].kind].awaits)
           /\ tasks' = [tasks EXCEPT ![t].at = @ + 1] /\ UNCHANGED running
  <2> DEFINE n == [tasks[t] EXCEPT !.at = tasks[t].at + 1]
  <2>1. /\ n \in Tasks /\ n.kind = tasks[t].kind /\ n.state = "live"
        /\ n.at = tasks[t].at + 1
    BY <1>1 DEF Tasks, Live
  <2>2. tasks' = [tasks EXCEPT ![t] = n]
    BY <1>4
  <2>3. tasks[t].at + 1 \in 1 .. Len(Dispatcher[tasks[t].kind].awaits)
    BY <1>1, <1>4 DEF Known
  <2> HIDE DEF n
  <2>4. TaskInv(n)
    BY <2>1, <2>3 DEF TaskInv
  <2> QED
    BY <1>4, <2>1, <2>2, <2>4, TaskStep
<1> QED
  BY <1>2, <1>3, <1>4 DEF Advance

\* The steps of an audit: its phase moves on, or it ends and clears its label.
LEMMA AuditStepKeeps ==
  ASSUME IInv, NEW t \in DOMAIN tasks, AuditStep(t)
  PROVE IInv'
<1>1. tasks[t] \in Tasks /\ Live(t) /\ tasks[t].kind = "audit" /\ UNCHANGED input
  BY DEF IInv, TaskInv, AuditStep, At, CapChecked, CapExceeded, PaymentSettled, AuditStarts,
         Posted, Unposted, AuditFailed, AuditReturns
<1>2. ASSUME NEW n \in Tasks, n.kind = "audit", n.state = "live", UNCHANGED running,
             tasks' = [tasks EXCEPT ![t] = n]
      PROVE IInv'
  BY <1>1, <1>2, TaskStep DEF TaskInv
<1>3. ASSUME NEW outcome \in {"none", "blocked", "complete", "failed"}, Finish(t, outcome)
      PROVE IInv'
  <2> DEFINE n == [tasks[t] EXCEPT !.state = "ended", !.outcome = outcome]
  <2>1. n \in Tasks /\ n.kind = "audit" /\ n.state = "ended"
    BY <1>1 DEF Tasks
  <2>2. tasks' = [tasks EXCEPT ![t] = n] /\ running' = Freed(t)
    BY <1>3 DEF Finish
  <2> HIDE DEF n
  <2> QED
    BY <1>1, <2>1, <2>2, TaskStep DEF TaskInv, Freed
<1>4. CASE CapChecked(t)
  <2> DEFINE n == [tasks[t] EXCEPT !.phase = "capped"]
  <2>1. n \in Tasks /\ n.kind = "audit" /\ n.state = "live"
    BY <1>1 DEF Tasks, Live
  <2> QED
    BY <1>2, <1>4, <2>1 DEF CapChecked
<1>5. CASE \E rail \in {"x402", "direct_split", "none"} : PaymentSettled(t, rail)
  <2> PICK rail \in {"x402", "direct_split", "none"} : PaymentSettled(t, rail)
    BY <1>5
  <2> DEFINE n == [tasks[t] EXCEPT !.phase = "settled", !.rail = rail]
  <2>1. n \in Tasks /\ n.kind = "audit" /\ n.state = "live"
    BY <1>1 DEF Tasks, Live
  <2> QED
    BY <1>2, <2>1 DEF PaymentSettled
<1>6. CASE AuditStarts(t)
  <2> DEFINE n == [tasks[t] EXCEPT !.phase = "auditing"]
  <2>1. n \in Tasks /\ n.kind = "audit" /\ n.state = "live"
    BY <1>1 DEF Tasks, Live
  <2> QED
    BY <1>2, <1>6, <2>1 DEF AuditStarts
<1>7. CASE Posted(t)
  <2> DEFINE n == [tasks[t] EXCEPT !.phase = "posted", !.outcome = "complete"]
  <2>1. n \in Tasks /\ n.kind = "audit" /\ n.state = "live"
    BY <1>1 DEF Tasks, Live
  <2> QED
    BY <1>2, <1>7, <2>1 DEF Posted
<1>8. CASE CapExceeded(t) \/ Unposted(t) \/ AuditFailed(t)
  BY <1>3, <1>8 DEF CapExceeded, Unposted, AuditFailed
<1>9. CASE AuditReturns(t)
  <2>1. tasks[t].outcome \in {"none", "blocked", "complete", "failed"}
    BY <1>1 DEF Tasks
  <2> QED
    BY <1>3, <1>9, <2>1 DEF AuditReturns
<1> QED
  BY <1>4, <1>5, <1>6, <1>7, <1>8, <1>9 DEF AuditStep

\* Enter on a command, and on the form.
LEMMA StartKeeps ==
  ASSUME IInv, NEW kind \in DOMAIN Dispatcher, NEW terms \in [bucket : Buckets, amount : Nat],
         tasks' = Append(tasks, Task(kind, terms)),
         running' = running \/ (running' = Dispatcher[kind].shows /\ running' # "none"),
         staged' \in Buckets, modal' \in Forms, FormInv'
  PROVE IInv'
<1> DEFINE task == Task(kind, terms)
<1>1. /\ TaskInv(task) /\ task.kind = kind /\ task.state = "live"
      /\ tasks' \in Seq(Tasks)
      /\ DOMAIN tasks' = DOMAIN tasks \cup {Len(tasks) + 1}
      /\ \A t \in DOMAIN tasks : tasks'[t] = tasks[t]
      /\ tasks'[Len(tasks) + 1] = task
      /\ Len(tasks) + 1 \notin DOMAIN tasks
  BY Started
<1> HIDE DEF task
<1>2. \A t \in DOMAIN tasks' : TaskInv(tasks'[t])
  BY <1>1 DEF IInv
<1>3. running' # "none"
  BY DEF IInv
<1>4. LabelHasAnOwner'
  <2>1. CASE running' = running
    BY <1>1, <2>1 DEF IInv, LabelHasAnOwner, Shows, Live
  <2>2. CASE running' = Dispatcher[kind].shows
    BY <1>1, <2>2 DEF LabelHasAnOwner, Shows, Live
  <2> QED
    BY <2>1, <2>2
<1> QED
  BY <1>1, <1>2, <1>3, <1>4 DEF IInv

LEMMA Typed ==
  /\ NoTerms \in [bucket : Buckets, amount : Nat]
  /\ Closed \in Forms
  /\ \A typed : Amount(typed) \in Nat
  /\ \A what \in Buckets : BucketOf(what) \in Buckets
  /\ \A kind : Staging(kind) \in Buckets
BY DEF NoTerms, Buckets, Closed, Forms, Amount, BucketOf, Staging

\* While the form is open nothing stages anything else.
LEMMA KeyboardKeeps == ASSUME IInv, Keyboard PROVE IInv'
<1>1. ASSUME NEW kind \in Kinds, Dispatch(kind) PROVE IInv'
  <2>1. kind \in DOMAIN Dispatcher
    BY KindsAssumption
  <2>2. tasks' = Append(tasks, Task(kind, NoTerms)) /\ modal' = Closed
    BY <1>1 DEF Dispatch, Typing
  <2>3. staged' \in Buckets
    BY <1>1, Typed DEF Dispatch
  <2>4. running' = running \/ (running' = Dispatcher[kind].shows /\ running' # "none")
    BY <1>1 DEF Dispatch
  <2> QED
    BY <2>1, <2>2, <2>3, <2>4, Typed, StartKeeps DEF FormInv
<1>2. CASE ConfirmGrant
  <2> PICK terms : terms = [bucket |-> BucketOf(staged), amount |-> Amount(modal.typed)]
    OBVIOUS
  <2>1. terms \in [bucket : Buckets, amount : Nat]
    BY Typed DEF IInv
  <2>2. /\ tasks' = Append(tasks, Task("grant", terms)) /\ modal' = Closed
        /\ UNCHANGED <<running, staged>>
    BY <1>2 DEF ConfirmGrant
  <2>3. "grant" \in DOMAIN Dispatcher
    BY DEF Dispatcher
  <2> QED
    BY <2>1, <2>2, <2>3, Typed, StartKeeps DEF FormInv, IInv
<1>3. CASE Refuse \/ Misread \/ Escape \/ Tab \/ Reset
  <2>1. UNCHANGED <<tasks, running>> /\ modal = Closed /\ modal' = Closed
    BY <1>3 DEF Refuse, Misread, Escape, Tab, Reset, Typing, Browsing
  <2>2. staged' \in Buckets
    BY <1>3, Typed DEF Refuse, Misread, Escape, Tab, Reset, IInv, Buckets
  <2> QED
    BY <2>1, <2>2, Typed, PanelStep DEF FormInv
<1>4. CASE Cancel
  BY <1>4, Typed DEF Cancel, Typing, IInv, FormInv, LabelHasAnOwner, Buckets
<1>5. CASE OpenGrant
  <2>1. /\ UNCHANGED <<tasks, running, staged>>
        /\ modal' = [bucket |-> BucketOf(staged), typed |-> "0.5", shown |-> Amount("0.5")]
    BY <1>5 DEF OpenGrant
  <2>2. modal' \in Forms /\ FormInv'
    BY <2>1, Typed DEF IInv, Forms, FormInv
  <2> QED
    BY <2>1, <2>2, PanelStep DEF IInv
<1>6. ASSUME NEW typed \in {"0", "0.5", "1"}, EditGrant(typed) PROVE IInv'
  <2>1. /\ UNCHANGED <<tasks, running, staged>> /\ modal \in Forms
        /\ modal' = [modal EXCEPT !.typed = typed, !.bucket = BucketOf(staged),
                                  !.shown = Amount(typed)]
    BY <1>6 DEF EditGrant, IInv
  <2>2. BucketOf(staged) \in Buckets /\ Amount(typed) \in Nat
    BY Typed DEF IInv
  <2>3. /\ modal' \in Forms /\ modal'.typed = typed /\ modal'.bucket = BucketOf(staged)
        /\ modal'.shown = Amount(typed)
    BY <2>1, <2>2 DEF Forms
  <2>4. FormInv'
    BY <2>1, <2>3 DEF FormInv
  <2> QED
    BY <2>1, <2>3, <2>4, PanelStep DEF IInv
<1>7. CASE CloseGrant
  BY <1>7, Typed, PanelStep DEF CloseGrant, IInv, FormInv
<1> QED
  BY <1>1, <1>2, <1>3, <1>4, <1>5, <1>6, <1>7 DEF Keyboard

LEMMA RestartKeeps == ASSUME IInv, Restart PROVE IInv'
<1>1. /\ running' = "idle" /\ staged' = "none" /\ modal' = Closed
      /\ tasks' = [t \in DOMAIN tasks |->
                     IF Live(t) THEN [tasks[t] EXCEPT !.state = "killed"] ELSE tasks[t]]
  BY DEF Restart
<1>2. tasks \in Seq(Tasks) /\ DOMAIN tasks = 1 .. Len(tasks) /\ Len(tasks) \in Nat
  BY DEF IInv
<1>3. ASSUME NEW t \in DOMAIN tasks PROVE TaskInv(tasks'[t])
  <2>1. TaskInv(tasks[t])
    BY DEF IInv
  <2>2. CASE Live(t)
    <3> DEFINE n == [tasks[t] EXCEPT !.state = "killed"]
    <3>1. n \in Tasks /\ n.state = "killed"
      BY <2>1 DEF TaskInv, Tasks
    <3>2. tasks'[t] = n
      BY <1>1, <2>2
    <3> HIDE DEF n
    <3> QED
      BY <3>1, <3>2 DEF TaskInv
  <2>3. CASE ~Live(t)
    BY <1>1, <2>1, <2>3
  <2> QED
    BY <2>2, <2>3
<1>4. DOMAIN tasks' = 1 .. Len(tasks) /\ \A t \in 1 .. Len(tasks) : tasks'[t] \in Tasks
  BY <1>1, <1>2, <1>3 DEF TaskInv
<1>5. tasks' \in Seq(Tasks)
  <2>1. tasks' = [t \in 1 .. Len(tasks) |-> tasks'[t]]
    BY <1>1, <1>2
  <2> QED
    BY <1>2, <1>4, <2>1, IsASeq
<1> QED
  BY <1>1, <1>2, <1>3, <1>4, <1>5, Typed
     DEF IInv, FormInv, LabelHasAnOwner, Buckets

LEMMA NextKeepsIInv == IInv /\ [TerminalNext]_terminalVars => IInv'
<1> SUFFICES ASSUME IInv, [TerminalNext]_terminalVars PROVE IInv'
  OBVIOUS
<1>1. CASE Keyboard
  BY <1>1, KeyboardKeeps
<1>2. ASSUME NEW t \in DOMAIN tasks, Step(t) PROVE IInv'
  <2>1. CASE AwaitReturns(t)
    BY <2>1, AdvanceKeeps DEF AwaitReturns
  <2>2. CASE AwaitFails(t)
    BY <2>2, AdvanceKeeps DEF AwaitFails
  <2>3. CASE AuditStep(t)
    BY <2>3, AuditStepKeeps
  <2> QED
    BY <1>2, <2>1, <2>2, <2>3 DEF Step
<1>3. CASE \E f \in fetches : Fetched(f[1], f[2]) \/ NotFetched(f[1], f[2])
  <2>1. UNCHANGED <<tasks, running, input>>
    BY <1>3 DEF Fetched, NotFetched
  <2> QED
    BY <2>1, PanelStep DEF IInv, FormInv, input
<1>4. CASE Restart
  BY <1>4, RestartKeeps
<1>5. CASE UNCHANGED terminalVars
  BY <1>5, PanelStep DEF terminalVars, IInv, FormInv
<1> QED
  BY <1>1, <1>2, <1>3, <1>4, <1>5 DEF TerminalNext

-----------------------------------------------------------------------------
(* The FLOW panel                                                          *)

\* As much of the shape of the panel as EXCEPT needs to keep it.
IsFlow(f) ==
  /\ f = [x \in DOMAIN f |-> f[x]]
  /\ {"nodes", "rails", "complete"} \subseteq DOMAIN f
  /\ f.complete \in BOOLEAN

Tells(f, task) ==
  /\ f.nodes[4] = "done" <=> task.outcome = "complete"
  /\ f.nodes[2] = "rejected" <=> task.outcome = "blocked"
  /\ \A rail \in DOMAIN f.rails : f.rails[rail] = "done" <=> task.rail = rail
  /\ f.complete <=> task.outcome # "none"

\* An audit under way has no outcome yet, or waits for its pins.
Undecided(task) ==
  task.kind = "audit" /\ task.state = "live" =>
    IF task.phase = "posted" THEN task.outcome = "complete" ELSE task.outcome = "none"

FlowInv ==
  /\ IsFlow(flow)
  /\ writers # {} /\ writers \subseteq 0 .. Len(tasks)
  /\ \A t \in DOMAIN tasks : Undecided(tasks[t])
  /\ \A t \in DOMAIN tasks : writers = {t} => tasks[t].kind = "audit" /\ Tells(flow, tasks[t])

\* What a step draws, from any panel.
Drawn(g, node2, node4, rails, complete) ==
  IsFlow(g) /\ g.nodes[2] = node2 /\ g.nodes[4] = node4 /\ g.rails = rails /\ g.complete = complete

LEMMA NodesDrawn ==
  ASSUME NEW f, IsFlow(f), NEW a, NEW b, NEW c, NEW d
  PROVE /\ Drawn(Nodes(f, <<a, b, c, d>>), b, d, f.rails, f.complete)
        /\ Drawn(Closing(f, <<a, b, c, d>>), b, d, f.rails, TRUE)
<1> PICK nodes : nodes = <<a, b, c, d>>
  OBVIOUS
<1>1. nodes[2] = b /\ nodes[4] = d
  OBVIOUS
<1>2. LET g == Nodes(f, nodes)
      IN  IsFlow(g) /\ g.nodes = nodes /\ g.rails = f.rails /\ g.complete = f.complete
  BY DEF Nodes, IsFlow
<1>3. LET g == Closing(f, nodes)
      IN  IsFlow(g) /\ g.nodes = nodes /\ g.rails = f.rails /\ g.complete = TRUE
  BY DEF Closing, IsFlow
<1> QED
  BY <1>1, <1>2, <1>3 DEF Drawn

LEMMA Pictures ==
  ASSUME NEW f, IsFlow(f)
  PROVE /\ IsFlow(mkFlow)
        /\ Drawn(OnRequest(f), "off", "off", Dark, FALSE)
        /\ Drawn(OnCapChecked(f), "active", "off", f.rails, f.complete)
        /\ Drawn(OnExceeded(f), "rejected", "rejected", f.rails, TRUE)
        /\ Drawn(OnStart(f), "done", "active", f.rails, f.complete)
        /\ Drawn(OnDone(f), "done", "done", f.rails, TRUE)
        /\ Drawn(OnFailed(f), "done", "rejected", f.rails, TRUE)
<1>1. IsFlow(mkFlow) /\ mkFlow.rails = Dark /\ mkFlow.complete = FALSE
  BY DEF mkFlow, IsFlow
<1>2. Drawn(OnRequest(f), "off", "off", Dark, FALSE)
  BY <1>1, NodesDrawn DEF OnRequest
<1> QED
  BY <1>1, <1>2, NodesDrawn DEF OnCapChecked, OnExceeded, OnStart, OnDone, OnFailed

LEMMA SettlePicture ==
  ASSUME NEW f, IsFlow(f), NEW rail \in {"x402", "direct_split", "none"}
  PROVE LET g == OnSettle(f, rail)
        IN  /\ Drawn(g, "done", "off", g.rails, f.complete)
            /\ \A r \in DOMAIN g.rails : g.rails[r] = "done" <=> rail = r
<1> DEFINE rails == [r \in DOMAIN Dark |-> IF r = rail THEN "done" ELSE "rejected"]
           h == Nodes(f, <<"done", "done", "active", "off">>)
<1>1. Drawn(h, "done", "off", f.rails, f.complete)
  BY NodesDrawn
<1>2. \A r \in DOMAIN rails : rails[r] = "done" <=> rail = r
  OBVIOUS
<1> HIDE DEF rails, h
<1>3. LET g == [h EXCEPT !.rails = rails]
      IN  IsFlow(g) /\ g.nodes = h.nodes /\ g.rails = rails /\ g.complete = h.complete
  BY <1>1 DEF IsFlow, Drawn
<1>4. OnSettle(f, rail) = [h EXCEPT !.rails = rails]
  BY DEF OnSettle, rails, h
<1> QED
  BY <1>1, <1>2, <1>3, <1>4 DEF Drawn

LEMMA InitFlowInv == TerminalInit => FlowInv
BY DEF TerminalInit, FlowInv, mkFlow, IsFlow

LEMMA TasksAreNumbered ==
  ASSUME IInv
  PROVE Len(tasks) \in Nat /\ DOMAIN tasks = 1 .. Len(tasks) /\ \A t \in DOMAIN tasks : tasks[t] \in Tasks
BY DEF IInv, TaskInv

\* An audit draws its step: what it draws tells its run, if the panel did.
LEMMA PaintKeeps ==
  ASSUME IInv, FlowInv, NEW t \in DOMAIN tasks, tasks[t].kind = "audit",
         NEW n \in Tasks, n.kind = "audit", Undecided(n),
         tasks' = [tasks EXCEPT ![t] = n], writers' = writers \cup {t}, IsFlow(flow'),
         Tells(flow, tasks[t]) => Tells(flow', n)
  PROVE FlowInv'
<1>1. /\ Len(tasks) \in Nat /\ DOMAIN tasks = 1 .. Len(tasks) /\ tasks \in Seq(Tasks)
  BY TasksAreNumbered DEF IInv
<1>2. /\ Len(tasks') = Len(tasks) /\ DOMAIN tasks' = DOMAIN tasks /\ tasks'[t] = n
      /\ \A q \in DOMAIN tasks \ {t} : tasks'[q] = tasks[q]
  BY <1>1
<1>3. writers' # {} /\ writers' \subseteq 0 .. Len(tasks')
  BY <1>1, <1>2 DEF FlowInv
<1>4. \A q \in DOMAIN tasks' : Undecided(tasks'[q])
  BY <1>2 DEF FlowInv
<1>5. ASSUME NEW q \in DOMAIN tasks', writers' = {q}
      PROVE tasks'[q].kind = "audit" /\ Tells(flow', tasks'[q])
  <2>1. q = t /\ writers = {t}
    BY <1>5 DEF FlowInv
  <2> QED
    BY <1>2, <2>1 DEF FlowInv
<1> QED
  BY <1>3, <1>4, <1>5 DEF FlowInv

\* A step that draws nothing.
LEMMA QuietKeeps ==
  ASSUME IInv, FlowInv, UNCHANGED <<flow, writers>>,
         Len(tasks') \in Nat, Len(tasks) <= Len(tasks'), DOMAIN tasks' = 1 .. Len(tasks'),
         \A t \in DOMAIN tasks :
           /\ tasks'[t].kind = tasks[t].kind
           /\ tasks[t].kind = "audit" =>
                tasks'[t].outcome = tasks[t].outcome /\ tasks'[t].rail = tasks[t].rail,
         \A t \in DOMAIN tasks' : Undecided(tasks'[t])
  PROVE FlowInv'
<1>1. Len(tasks) \in Nat /\ DOMAIN tasks = 1 .. Len(tasks)
  BY TasksAreNumbered
<1>2. ASSUME NEW t \in DOMAIN tasks', writers' = {t}
      PROVE tasks'[t].kind = "audit" /\ Tells(flow', tasks'[t])
  <2>1. t \in DOMAIN tasks
    BY <1>1, <1>2 DEF FlowInv
  <2> QED
    BY <1>2, <2>1 DEF FlowInv, Tells
<1>3. writers' # {} /\ writers' \subseteq 0 .. Len(tasks')
  BY <1>1 DEF FlowInv
<1> QED
  BY <1>2, <1>3 DEF FlowInv

\* The panel is dark again.
LEMMA DarkKeeps ==
  ASSUME IInv, FlowInv, flow' = mkFlow, writers' = {0},
         DOMAIN tasks' = DOMAIN tasks, Len(tasks') = Len(tasks),
         \A t \in DOMAIN tasks : Undecided(tasks'[t])
  PROVE FlowInv'
<1>1. Len(tasks) \in Nat /\ DOMAIN tasks = 1 .. Len(tasks)
  BY TasksAreNumbered
<1>2. IsFlow(mkFlow)
  BY Pictures DEF FlowInv
<1> QED
  BY <1>1, <1>2 DEF FlowInv

LEMMA FlowOfAudit ==
  ASSUME IInv, FlowInv, NEW t \in DOMAIN tasks, AuditStep(t)
  PROVE FlowInv'
<1>1. /\ tasks[t] \in Tasks /\ Live(t) /\ tasks[t].kind = "audit" /\ tasks[t].state = "live"
      /\ Undecided(tasks[t]) /\ IsFlow(flow) /\ flow.complete \in BOOLEAN
  BY DEF IInv, TaskInv, FlowInv, IsFlow, Live, AuditStep, At, CapChecked, CapExceeded, PaymentSettled,
         AuditStarts, Posted, Unposted, AuditFailed, AuditReturns
<1>2. CASE CapChecked(t)
  <2> DEFINE n == [tasks[t] EXCEPT !.phase = "capped"]
  <2>1. /\ n \in Tasks /\ n.kind = "audit" /\ n.state = "live" /\ n.phase = "capped"
        /\ n.outcome = tasks[t].outcome /\ n.rail = tasks[t].rail
    BY <1>1 DEF Tasks
  <2>2. /\ tasks' = [tasks EXCEPT ![t] = n] /\ writers' = writers \cup {t}
        /\ Drawn(flow', "active", "off", flow.rails, flow.complete)
        /\ tasks[t].phase = "requested"
    BY <1>1, <1>2, Pictures DEF CapChecked, Paint, At
  <2> HIDE DEF n
  <2>3. Undecided(n) /\ (Tells(flow, tasks[t]) => Tells(flow', n))
    BY <1>1, <2>1, <2>2 DEF Undecided, Drawn, Tells
  <2> QED
    BY <1>1, <2>1, <2>2, <2>3, PaintKeeps DEF Drawn
<1>3. CASE CapExceeded(t)
  <2> DEFINE n == [tasks[t] EXCEPT !.state = "ended", !.outcome = "blocked"]
  <2>1. /\ n \in Tasks /\ n.kind = "audit" /\ n.state = "ended" /\ n.outcome = "blocked"
        /\ n.rail = tasks[t].rail
    BY <1>1 DEF Tasks
  <2>2. /\ tasks' = [tasks EXCEPT ![t] = n] /\ writers' = writers \cup {t}
        /\ Drawn(flow', "rejected", "rejected", flow.rails, TRUE)
    BY <1>1, <1>3, Pictures DEF CapExceeded, Paint, Finish
  <2> HIDE DEF n
  <2>3. Undecided(n) /\ (Tells(flow, tasks[t]) => Tells(flow', n))
    BY <1>1, <2>1, <2>2 DEF Undecided, Drawn, Tells
  <2> QED
    BY <1>1, <2>1, <2>2, <2>3, PaintKeeps DEF Drawn
<1>4. CASE \E rail \in {"x402", "direct_split", "none"} : PaymentSettled(t, rail)
  <2> PICK rail \in {"x402", "direct_split", "none"} : PaymentSettled(t, rail)
    BY <1>4
  <2> DEFINE n == [tasks[t] EXCEPT !.phase = "settled", !.rail = rail]
  <2>1. /\ n \in Tasks /\ n.kind = "audit" /\ n.state = "live" /\ n.phase = "settled"
        /\ n.outcome = tasks[t].outcome /\ n.rail = rail
    BY <1>1 DEF Tasks
  <2>2. /\ tasks' = [tasks EXCEPT ![t] = n] /\ writers' = writers \cup {t}
        /\ Drawn(flow', "done", "off", flow'.rails, flow.complete)
        /\ \A r \in DOMAIN flow'.rails : flow'.rails[r] = "done" <=> rail = r
        /\ tasks[t].phase \in {"requested", "capped"}
    <3>1. /\ tasks' = [tasks EXCEPT ![t] = n] /\ writers' = writers \cup {t}
          /\ flow' = OnSettle(flow, rail) /\ tasks[t].phase \in {"requested", "capped"}
      BY DEF PaymentSettled, Paint, At
    <3> QED
      BY <1>1, <3>1, SettlePicture
  <2> HIDE DEF n
  <2>3. Undecided(n) /\ (Tells(flow, tasks[t]) => Tells(flow', n))
    BY <1>1, <2>1, <2>2 DEF Undecided, Drawn, Tells
  <2> QED
    BY <1>1, <2>1, <2>2, <2>3, PaintKeeps DEF Drawn
<1>5. CASE AuditStarts(t)
  <2> DEFINE n == [tasks[t] EXCEPT !.phase = "auditing"]
  <2>1. /\ n \in Tasks /\ n.kind = "audit" /\ n.state = "live" /\ n.phase = "auditing"
        /\ n.outcome = tasks[t].outcome /\ n.rail = tasks[t].rail
    BY <1>1 DEF Tasks
  <2>2. /\ tasks' = [tasks EXCEPT ![t] = n] /\ writers' = writers \cup {t}
        /\ Drawn(flow', "done", "active", flow.rails, flow.complete)
        /\ tasks[t].phase = "settled"
    BY <1>1, <1>5, Pictures DEF AuditStarts, Paint, At
  <2> HIDE DEF n
  <2>3. Undecided(n) /\ (Tells(flow, tasks[t]) => Tells(flow', n))
    BY <1>1, <2>1, <2>2 DEF Undecided, Drawn, Tells
  <2> QED
    BY <1>1, <2>1, <2>2, <2>3, PaintKeeps DEF Drawn
<1>6. CASE Posted(t)
  <2> DEFINE n == [tasks[t] EXCEPT !.phase = "posted", !.outcome = "complete"]
  <2>1. /\ n \in Tasks /\ n.kind = "audit" /\ n.state = "live" /\ n.phase = "posted"
        /\ n.outcome = "complete" /\ n.rail = tasks[t].rail
    BY <1>1 DEF Tasks
  <2>2. Drawn(OnDone(flow), "done", "done", flow.rails, TRUE)
    BY <1>1, Pictures
  <2>3. Drawn(OnDone(OnDone(flow)), "done", "done", flow.rails, TRUE)
    BY <2>2, Pictures DEF Drawn
  <2>4. /\ tasks' = [tasks EXCEPT ![t] = n] /\ writers' = writers \cup {t}
        /\ Drawn(flow', "done", "done", flow.rails, TRUE)
    BY <1>6, <2>3 DEF Posted, Paint
  <2> HIDE DEF n
  <2>5. Undecided(n) /\ (Tells(flow, tasks[t]) => Tells(flow', n))
    BY <1>1, <2>1, <2>4 DEF Undecided, Drawn, Tells
  <2> QED
    BY <1>1, <2>1, <2>4, <2>5, PaintKeeps DEF Drawn
<1>7. CASE Unposted(t)
  <2> DEFINE n == [tasks[t] EXCEPT !.state = "ended", !.outcome = "complete"]
  <2>1. /\ n \in Tasks /\ n.kind = "audit" /\ n.state = "ended" /\ n.outcome = "complete"
        /\ n.rail = tasks[t].rail
    BY <1>1 DEF Tasks
  <2>2. Drawn(OnDone(flow), "done", "done", flow.rails, TRUE)
    BY <1>1, Pictures
  <2>3. OnReceiptFailed(OnDone(flow)) = OnDone(flow)
    BY <2>2 DEF OnReceiptFailed, Drawn
  <2>4. /\ tasks' = [tasks EXCEPT ![t] = n] /\ writers' = writers \cup {t}
        /\ Drawn(flow', "done", "done", flow.rails, TRUE)
    BY <1>7, <2>2, <2>3 DEF Unposted, Paint, Finish
  <2> HIDE DEF n
  <2>5. Undecided(n) /\ (Tells(flow, tasks[t]) => Tells(flow', n))
    BY <1>1, <2>1, <2>4 DEF Undecided, Drawn, Tells
  <2> QED
    BY <1>1, <2>1, <2>4, <2>5, PaintKeeps DEF Drawn
<1>8. CASE AuditFailed(t)
  <2> DEFINE n == [tasks[t] EXCEPT !.state = "ended", !.outcome = "failed"]
  <2>1. /\ n \in Tasks /\ n.kind = "audit" /\ n.state = "ended" /\ n.outcome = "failed"
        /\ n.rail = tasks[t].rail
    BY <1>1 DEF Tasks
  <2>2. /\ tasks' = [tasks EXCEPT ![t] = n] /\ writers' = writers \cup {t}
        /\ Drawn(flow', "done", "rejected", flow.rails, TRUE)
    BY <1>1, <1>8, Pictures DEF AuditFailed, Paint, Finish
  <2> HIDE DEF n
  <2>3. Undecided(n) /\ (Tells(flow, tasks[t]) => Tells(flow', n))
    BY <1>1, <2>1, <2>2 DEF Undecided, Drawn, Tells
  <2> QED
    BY <1>1, <2>1, <2>2, <2>3, PaintKeeps DEF Drawn
<1>9. CASE AuditReturns(t)
  <2> DEFINE n == [tasks[t] EXCEPT !.state = "ended", !.outcome = tasks[t].outcome]
  <2>1. /\ n \in Tasks /\ n.kind = "audit" /\ n.state = "ended" /\ n.outcome = tasks[t].outcome
        /\ n.rail = tasks[t].rail
    BY <1>1 DEF Tasks
  <2>2. tasks' = [tasks EXCEPT ![t] = n] /\ UNCHANGED <<flow, writers>>
    BY <1>9 DEF AuditReturns, Finish, panels
  <2> HIDE DEF n
  <2>3. tasks \in Seq(Tasks) /\ Len(tasks) \in Nat /\ DOMAIN tasks = 1 .. Len(tasks)
    BY DEF IInv
  <2>4. /\ Len(tasks') = Len(tasks) /\ DOMAIN tasks' = DOMAIN tasks /\ tasks'[t] = n
        /\ \A q \in DOMAIN tasks \ {t} : tasks'[q] = tasks[q]
    BY <2>2, <2>3
  <2>5. \A q \in DOMAIN tasks' : Undecided(tasks'[q])
    BY <2>1, <2>4 DEF FlowInv, Undecided
  <2>6. \A q \in DOMAIN tasks :
          /\ tasks'[q].kind = tasks[q].kind
          /\ tasks'[q].outcome = tasks[q].outcome /\ tasks'[q].rail = tasks[q].rail
    BY <1>1, <2>1, <2>4
  <2> QED
    BY <2>2, <2>3, <2>4, <2>5, <2>6, QuietKeeps
<1> QED
  BY <1>2, <1>3, <1>4, <1>5, <1>6, <1>7, <1>8, <1>9 DEF AuditStep

\* Any other dispatcher draws nothing.
LEMMA FlowOfOthers ==
  ASSUME IInv, FlowInv, NEW t \in DOMAIN tasks, AwaitReturns(t) \/ AwaitFails(t)
  PROVE FlowInv'
<1>1. /\ tasks[t] \in Tasks /\ tasks[t].kind # "audit" /\ UNCHANGED <<flow, writers>>
      /\ tasks \in Seq(Tasks) /\ Len(tasks) \in Nat /\ DOMAIN tasks = 1 .. Len(tasks)
  BY DEF IInv, TaskInv, AwaitReturns, AwaitFails, panels
<1>2. PICK n : tasks' = [tasks EXCEPT ![t] = n] /\ n.kind = tasks[t].kind
  <2>1. \/ tasks' = [tasks EXCEPT ![t] = [tasks[t] EXCEPT !.state = "ended"]]
        \/ tasks' = [tasks EXCEPT ![t] = [tasks[t] EXCEPT !.state = "escaped"]]
        \/ tasks' = [tasks EXCEPT ![t] = [tasks[t] EXCEPT !.at = tasks[t].at + 1]]
    BY DEF AwaitReturns, AwaitFails, Advance
  <2>2. /\ [tasks[t] EXCEPT !.state = "ended"].kind = tasks[t].kind
        /\ [tasks[t] EXCEPT !.state = "escaped"].kind = tasks[t].kind
        /\ [tasks[t] EXCEPT !.at = tasks[t].at + 1].kind = tasks[t].kind
    BY <1>1 DEF Tasks
  <2> QED
    BY <2>1, <2>2
<1>3. /\ Len(tasks') = Len(tasks) /\ DOMAIN tasks' = DOMAIN tasks /\ tasks'[t] = n
      /\ \A q \in DOMAIN tasks \ {t} : tasks'[q] = tasks[q]
  BY <1>1, <1>2
<1>4. \A q \in DOMAIN tasks' : Undecided(tasks'[q])
  BY <1>1, <1>2, <1>3 DEF FlowInv, Undecided
<1> QED
  BY <1>1, <1>2, <1>3, <1>4, QuietKeeps

\* A new audit draws its request on a panel of its own; nobody else draws.
LEMMA FlowOfStart ==
  ASSUME IInv, FlowInv, NEW kind \in DOMAIN Dispatcher,
         NEW terms \in [bucket : Buckets, amount : Nat],
         tasks' = Append(tasks, Task(kind, terms)),
         IF kind = "audit" THEN flow' = OnRequest(flow) /\ writers' = {Len(tasks')}
                           ELSE UNCHANGED <<flow, writers>>
  PROVE FlowInv'
<1> DEFINE task == Task(kind, terms)
           N == Len(tasks)
<1>1. N \in Nat /\ DOMAIN tasks = 1 .. N
  BY TasksAreNumbered
<1>2. /\ task.kind = kind /\ task.phase = "requested" /\ task.outcome = "none"
      /\ task.rail = "none"
  BY DEF Task
<1> HIDE DEF task
<1>3. /\ DOMAIN tasks' = DOMAIN tasks \cup {N + 1} /\ tasks'[N + 1] = task
      /\ \A t \in DOMAIN tasks : tasks'[t] = tasks[t]
      /\ tasks' \in Seq(Tasks)
  BY Started DEF task
<1>4. Len(tasks') = N + 1 /\ DOMAIN tasks' = 1 .. Len(tasks')
  <2>1. DOMAIN tasks' = 1 .. Len(tasks') /\ Len(tasks') \in Nat
    BY <1>3
  <2>2. tasks' = Append(tasks, task) /\ tasks \in Seq(Tasks)
    BY DEF task, IInv
  <2>3. Len(tasks') = N + 1
    BY <2>2
  <2> QED
    BY <2>1, <2>3
<1>5. \A t \in DOMAIN tasks' : Undecided(tasks'[t])
  BY <1>2, <1>3 DEF FlowInv, Undecided
<1>6. CASE kind = "audit"
  <2>1. /\ Drawn(flow', "off", "off", Dark, FALSE) /\ writers' = {N + 1}
    BY <1>4, <1>6, Pictures DEF FlowInv
  <2>2. \A rail \in DOMAIN Dark : Dark[rail] = "off" /\ rail # "none"
    BY DEF Dark
  <2>3. Tells(flow', task)
    BY <1>2, <2>1, <2>2 DEF Drawn, Tells
  <2>4. \A t \in DOMAIN tasks' : writers' = {t} => t = N + 1
    BY <2>1
  <2>5. writers' # {} /\ writers' \subseteq 0 .. Len(tasks')
    BY <1>1, <1>4, <2>1
  <2> QED
    BY <1>2, <1>3, <1>5, <1>6, <2>1, <2>3, <2>4, <2>5 DEF FlowInv, Drawn
<1>7. CASE kind # "audit"
  <2>1. UNCHANGED <<flow, writers>>
    BY <1>7
  <2> QED
    BY <1>1, <1>3, <1>4, <1>5, <2>1, QuietKeeps
<1> QED
  BY <1>6, <1>7

LEMMA NextKeepsFlowInv == IInv /\ FlowInv /\ [TerminalNext]_terminalVars => FlowInv'
<1> SUFFICES ASSUME IInv, FlowInv, [TerminalNext]_terminalVars PROVE FlowInv'
  OBVIOUS
<1>0. Len(tasks) \in Nat /\ DOMAIN tasks = 1 .. Len(tasks)
  BY TasksAreNumbered
<1>1. ASSUME NEW kind \in Kinds, Dispatch(kind) PROVE FlowInv'
  <2>1. kind \in DOMAIN Dispatcher
    BY KindsAssumption
  <2> QED
    BY <1>1, <2>1, Typed, FlowOfStart DEF Dispatch
<1>2. CASE ConfirmGrant
  <2> PICK terms : terms = [bucket |-> BucketOf(staged), amount |-> Amount(modal.typed)]
    OBVIOUS
  <2>1. terms \in [bucket : Buckets, amount : Nat] /\ "grant" \in DOMAIN Dispatcher
    BY Typed DEF IInv, Dispatcher
  <2>2. tasks' = Append(tasks, Task("grant", terms)) /\ UNCHANGED <<flow, writers>>
    BY <1>2 DEF ConfirmGrant, panels
  <2> QED
    BY <2>1, <2>2, FlowOfStart
<1>3. CASE UNCHANGED <<tasks, flow, writers>>
  BY <1>3 DEF FlowInv
<1>4. CASE Reset
  BY <1>4, DarkKeeps DEF Reset, FlowInv
<1>5. ASSUME NEW t \in DOMAIN tasks, Step(t) PROVE FlowInv'
  BY <1>5, FlowOfOthers, FlowOfAudit DEF Step
<1>6. CASE Restart
  <2>1. /\ flow' = mkFlow /\ writers' = {0} /\ DOMAIN tasks' = DOMAIN tasks
        /\ tasks' = [t \in DOMAIN tasks |->
                       IF Live(t) THEN [tasks[t] EXCEPT !.state = "killed"] ELSE tasks[t]]
    BY <1>6 DEF Restart
  <2>2. tasks' \in Seq(Tasks)
    BY <1>6, RestartKeeps DEF IInv
  <2>3. Len(tasks') = Len(tasks)
    BY <1>0, <2>1, <2>2
  <2>4. ASSUME NEW t \in DOMAIN tasks PROVE Undecided(tasks'[t])
    <3>1. tasks[t] \in Tasks /\ Undecided(tasks[t])
      BY TasksAreNumbered DEF FlowInv
    <3>2. [tasks[t] EXCEPT !.state = "killed"].state = "killed"
      BY <3>1 DEF Tasks
    <3>3. CASE Live(t)
      BY <2>1, <3>2, <3>3 DEF Undecided
    <3>4. CASE ~Live(t)
      BY <2>1, <3>1, <3>4
    <3> QED
      BY <3>3, <3>4
  <2> QED
    BY <2>1, <2>3, <2>4, DarkKeeps
<1>7. CASE \E f \in fetches : Fetched(f[1], f[2]) \/ NotFetched(f[1], f[2])
  BY <1>3, <1>7 DEF Fetched, NotFetched
<1>8. CASE UNCHANGED terminalVars
  BY <1>3, <1>8 DEF terminalVars
<1>9. CASE \/ Refuse \/ Misread \/ Cancel \/ Escape \/ Tab \/ OpenGrant \/ CloseGrant
           \/ \E typed \in {"0", "0.5", "1"} : EditGrant(typed)
  BY <1>3, <1>9
     DEF Refuse, Misread, Cancel, Escape, Tab, OpenGrant, CloseGrant, EditGrant, panels
<1> QED
  BY <1>1, <1>2, <1>4, <1>5, <1>6, <1>7, <1>8, <1>9 DEF TerminalNext, Keyboard

-----------------------------------------------------------------------------
(* The theorems                                                            *)

\* The AGENTS label is that of a dispatcher under way, or of one of the two whose
\* errors nothing catches (agent-status.ts:3).
THEOREM TerminalLabelHasAnOwner == TerminalSpec => []LabelHasAnOwner
<1>1. IInv => LabelHasAnOwner
  BY DEF IInv
<1> QED
  BY <1>1, InitIInv, NextKeepsIInv, PTL DEF TerminalSpec

GrantStep ==
  \A t \in DOMAIN tasks' \ DOMAIN tasks :
    tasks'[t].kind = "grant" =>
      /\ modal # Closed
      /\ tasks'[t].terms = [bucket |-> modal.bucket, amount |-> modal.shown]

LEMMA GrantIsShown == ASSUME IInv, [TerminalNext]_terminalVars PROVE [GrantStep]_terminalVars
<1>1. ASSUME NEW kind \in Kinds, Dispatch(kind) PROVE GrantStep
  <2>1. kind \in DOMAIN Dispatcher /\ kind # "grant"
    BY KindsAssumption
  <2>2. tasks' = Append(tasks, Task(kind, NoTerms))
    BY <1>1 DEF Dispatch
  <2>3. \A t \in DOMAIN tasks' \ DOMAIN tasks : tasks'[t].kind = kind
    BY <2>1, <2>2, Typed, Started
  <2> QED
    BY <2>1, <2>3 DEF GrantStep
<1>2. CASE ConfirmGrant
  <2> PICK terms : terms = [bucket |-> BucketOf(staged), amount |-> Amount(modal.typed)]
    OBVIOUS
  <2>1. terms \in [bucket : Buckets, amount : Nat] /\ "grant" \in DOMAIN Dispatcher
    BY Typed DEF IInv, Dispatcher
  <2>2. tasks' = Append(tasks, Task("grant", terms)) /\ modal # Closed
    BY <1>2 DEF ConfirmGrant
  <2>3. \A t \in DOMAIN tasks' \ DOMAIN tasks : tasks'[t].terms = terms
    BY <2>1, <2>2, Started
  <2>4. terms = [bucket |-> modal.bucket, amount |-> modal.shown]
    BY <2>2 DEF IInv, FormInv
  <2> QED
    BY <2>2, <2>3, <2>4 DEF GrantStep
<1>3. CASE DOMAIN tasks' = DOMAIN tasks
  BY <1>3 DEF GrantStep
<1>4. ASSUME NEW t \in DOMAIN tasks, Step(t) PROVE DOMAIN tasks' = DOMAIN tasks
  <2>1. DOMAIN [tasks EXCEPT ![t] = 0] = DOMAIN tasks
    OBVIOUS
  <2> QED
    BY <1>4 DEF Step, AwaitReturns, AwaitFails, Advance, AuditStep, CapChecked, CapExceeded,
                PaymentSettled, AuditStarts, Posted, Unposted, AuditFailed, AuditReturns, Finish
<1>5. CASE \E f \in fetches : Fetched(f[1], f[2]) \/ NotFetched(f[1], f[2])
  BY <1>3, <1>5 DEF Fetched, NotFetched
<1>6. CASE Restart
  BY <1>3, <1>6 DEF Restart
<1>7. CASE UNCHANGED terminalVars
  BY <1>7
<1>8. CASE \/ Refuse \/ Misread \/ Cancel \/ Escape \/ Tab \/ Reset \/ OpenGrant \/ CloseGrant
           \/ \E typed \in {"0", "0.5", "1"} : EditGrant(typed)
  BY <1>3, <1>8
     DEF Refuse, Misread, Cancel, Escape, Tab, Reset, OpenGrant, CloseGrant, EditGrant
<1> QED
  BY <1>1, <1>2, <1>3, <1>4, <1>5, <1>6, <1>7, <1>8 DEF TerminalNext, Keyboard

\* A grant that is submitted is for the bucket and the amount that the form showed
\* when it was confirmed (grant.ts:122).
THEOREM TerminalGrantIsWhatWasShown == TerminalSpec => GrantIsWhatWasShown
<1>1. IInv /\ [TerminalNext]_terminalVars => [GrantStep]_terminalVars
  BY GrantIsShown
<1> QED
  BY <1>1, InitIInv, NextKeepsIInv, PTL DEF TerminalSpec, GrantIsWhatWasShown, GrantStep

\* A FLOW panel that one audit has drawn tells its run (orchestrator-step.ts:52).
THEOREM TerminalFlowTellsTheRun == TerminalSpec => []FlowTellsTheRun
<1>1. IInv /\ FlowInv => FlowTellsTheRun
  BY DEF FlowInv, Tells, IsFlow, FlowTellsTheRun
<1> QED
  BY <1>1, InitIInv, NextKeepsIInv, InitFlowInv, NextKeepsFlowInv, PTL DEF TerminalSpec
-----------------------------------------------------------------------------
(* The RECEIPT panel                                                       *)

\* The transaction whose receipt is fetched was sent: the run has paid by the
\* FeeSplitter, or its feedback was posted.
Happened(what, t) ==
  /\ t \in DOMAIN tasks /\ tasks[t].kind = "audit"
  /\ IF what = "split"
       THEN tasks[t].rail = "direct_split" /\ tasks[t].phase \notin {"requested", "capped"}
       ELSE tasks[t].phase = "posted"

Receipts ==
  [status : {"none", "settled", "settled+receipt"}, split : Nat, feedback : Nat]

Traced(e) ==
  /\ e.split # 0 => Happened("split", e.split)
  /\ e.feedback # 0 => Happened("feedback", e.feedback)

\* The RECEIPT panel and the file of audit-trail.ts name only runs that sent the
\* transaction that they show.
ReceiptIsTraced == Traced(envelope) /\ Traced(saved)

FetchInv ==
  /\ fetches \subseteq {"split", "feedback"} \X Nat
  /\ \A f \in fetches : f[2] # 0 /\ Happened(f[1], f[2])

ReceiptInv == envelope \in Receipts /\ saved \in Receipts /\ ReceiptIsTraced /\ FetchInv

\* An audit goes on: its rail is chosen once, and what was posted stays posted.
Later(old, new) ==
  /\ new.kind = old.kind
  /\ old.phase \notin {"requested", "capped"} =>
       new.rail = old.rail /\ new.phase \notin {"requested", "capped"}
  /\ old.phase = "posted" => new.phase = "posted"

TasksGoOn ==
  /\ DOMAIN tasks \subseteq DOMAIN tasks'
  /\ \A t \in DOMAIN tasks : Later(tasks[t], tasks'[t])

LEMMA HappenedStays ==
  ASSUME TasksGoOn, NEW what, NEW t, Happened(what, t)
  PROVE  Happened(what, t)'
BY DEF TasksGoOn, Later, Happened

LEMMA TracedStays == ASSUME TasksGoOn, ReceiptIsTraced
                     PROVE  \A e \in {envelope, saved} :
                              /\ e.split # 0 => Happened("split", e.split)'
                              /\ e.feedback # 0 => Happened("feedback", e.feedback)'
BY HappenedStays DEF ReceiptIsTraced, Traced

LEMMA UnchangedGoOn == ASSUME UNCHANGED tasks PROVE TasksGoOn
BY DEF TasksGoOn, Later

LEMMA OneGoesOn ==
  ASSUME IInv, NEW t \in DOMAIN tasks, NEW n, Later(tasks[t], n), tasks' = [tasks EXCEPT ![t] = n]
  PROVE  TasksGoOn /\ DOMAIN tasks' = DOMAIN tasks /\ tasks'[t] = n
BY DEF TasksGoOn, Later

\* A step that fetches nothing, and changes the status of the panel at most.
LEMMA NothingFetched ==
  ASSUME ReceiptInv, TasksGoOn, UNCHANGED <<saved, fetches>>,
         \/ envelope' = envelope
         \/ envelope' = [envelope EXCEPT !.status = "settled"]
         \/ envelope' = EMPTY_RECEIPT
  PROVE  ReceiptInv'
<1>1. FetchInv'
  BY HappenedStays DEF ReceiptInv, FetchInv
<1>2. envelope' \in Receipts
  BY DEF ReceiptInv, Receipts, EMPTY_RECEIPT
<1>3. \/ envelope'.split = envelope.split /\ envelope'.feedback = envelope.feedback
      \/ envelope'.split = 0 /\ envelope'.feedback = 0
  BY DEF ReceiptInv, Receipts, EMPTY_RECEIPT
<1>4. Traced(envelope)' /\ Traced(saved)'
  BY <1>3, TracedStays DEF ReceiptInv, Traced
<1> QED
  BY <1>1, <1>2, <1>4 DEF ReceiptInv, ReceiptIsTraced

\* A step that begins to fetch what has happened.
LEMMA FetchBegins ==
  ASSUME IInv, ReceiptInv, TasksGoOn, UNCHANGED receipt,
         NEW what \in {"split", "feedback"}, NEW t \in DOMAIN tasks, Happened(what, t)',
         fetches' = fetches \cup {<<what, t>>}
  PROVE  ReceiptInv'
<1>1. t \in Nat /\ t # 0
  BY TasksAreNumbered
<1>2. ASSUME NEW f \in fetches' PROVE f[2] # 0 /\ Happened(f[1], f[2])'
  <2>1. CASE f \in fetches
    BY <2>1, HappenedStays DEF ReceiptInv, FetchInv
  <2>2. CASE f = <<what, t>>
    BY <1>1, <2>2
  <2> QED
    BY <2>1, <2>2
<1>3. FetchInv'
  BY <1>1, <1>2 DEF ReceiptInv, FetchInv
<1>4. Traced(envelope)' /\ Traced(saved)'
  BY TracedStays DEF ReceiptInv, Traced, receipt
<1> QED
  BY <1>3, <1>4 DEF ReceiptInv, ReceiptIsTraced, receipt

LEMMA AuditStepGoesOn ==
  ASSUME IInv, ReceiptInv, NEW t \in DOMAIN tasks, AuditStep(t)
  PROVE  ReceiptInv' /\ TasksGoOn /\ DOMAIN tasks' = DOMAIN tasks
<1>1. tasks[t] \in Tasks /\ tasks[t].kind = "audit"
  BY DEF IInv, TaskInv, AuditStep, At, CapChecked, CapExceeded, PaymentSettled, AuditStarts,
         Posted, Unposted, AuditFailed, AuditReturns
<1>2. ASSUME NEW n, Later(tasks[t], n), tasks' = [tasks EXCEPT ![t] = n],
             UNCHANGED <<receipt, fetches>>
      PROVE  ReceiptInv' /\ TasksGoOn /\ DOMAIN tasks' = DOMAIN tasks
  BY <1>2, OneGoesOn, NothingFetched DEF receipt
<1>3. ASSUME NEW outcome, Finish(t, outcome), UNCHANGED <<receipt, fetches>>
      PROVE  ReceiptInv' /\ TasksGoOn /\ DOMAIN tasks' = DOMAIN tasks
  <2> DEFINE n == [tasks[t] EXCEPT !.state = "ended", !.outcome = outcome]
  <2>1. n.kind = tasks[t].kind /\ n.phase = tasks[t].phase /\ n.rail = tasks[t].rail
    BY <1>1 DEF Tasks
  <2>2. tasks' = [tasks EXCEPT ![t] = n]
    BY <1>3 DEF Finish
  <2> HIDE DEF n
  <2> QED
    BY <1>2, <1>3, <2>1, <2>2 DEF Later
<1>4. CASE CapChecked(t)
  <2> DEFINE n == [tasks[t] EXCEPT !.phase = "capped"]
  <2>1. /\ n.kind = tasks[t].kind /\ n.phase = "capped" /\ n.rail = tasks[t].rail
        /\ tasks[t].phase = "requested"
    BY <1>1, <1>4 DEF Tasks, CapChecked, At
  <2>2. tasks' = [tasks EXCEPT ![t] = n] /\ UNCHANGED <<receipt, fetches>>
    BY <1>4 DEF CapChecked
  <2> HIDE DEF n
  <2> QED
    BY <1>2, <2>1, <2>2 DEF Later
<1>5. CASE \E rail \in {"x402", "direct_split", "none"} : PaymentSettled(t, rail)
  <2> PICK rail \in {"x402", "direct_split", "none"} : PaymentSettled(t, rail)
    BY <1>5
  <2> DEFINE n == [tasks[t] EXCEPT !.phase = "settled", !.rail = rail]
  <2>1. /\ n.kind = "audit" /\ n.phase = "settled" /\ n.rail = rail
        /\ tasks[t].phase \in {"requested", "capped"}
    BY <1>1 DEF Tasks, PaymentSettled, At
  <2>2. /\ tasks' = [tasks EXCEPT ![t] = n] /\ UNCHANGED receipt
        /\ fetches' = IF rail = "direct_split" THEN fetches \cup {<<"split", t>>} ELSE fetches
    BY DEF PaymentSettled
  <2> HIDE DEF n
  <2>3. Later(tasks[t], n)
    BY <1>1, <2>1 DEF Later
  <2>4. TasksGoOn /\ DOMAIN tasks' = DOMAIN tasks /\ tasks'[t] = n
    BY <2>2, <2>3, OneGoesOn
  <2>5. CASE rail = "direct_split"
    <3>1. Happened("split", t)'
      BY <2>1, <2>4, <2>5 DEF Happened
    <3> QED
      BY <2>2, <2>4, <2>5, <3>1, FetchBegins
  <2>6. CASE rail # "direct_split"
    BY <1>2, <2>2, <2>3, <2>6
  <2> QED
    BY <2>4, <2>5, <2>6
<1>6. CASE AuditStarts(t)
  <2> DEFINE n == [tasks[t] EXCEPT !.phase = "auditing"]
  <2>1. /\ n.kind = tasks[t].kind /\ n.phase = "auditing" /\ n.rail = tasks[t].rail
        /\ tasks[t].phase = "settled"
    BY <1>1, <1>6 DEF Tasks, AuditStarts, At
  <2>2. tasks' = [tasks EXCEPT ![t] = n] /\ UNCHANGED <<receipt, fetches>>
    BY <1>6 DEF AuditStarts
  <2> HIDE DEF n
  <2> QED
    BY <1>2, <2>1, <2>2 DEF Later
<1>7. CASE Posted(t)
  <2> DEFINE n == [tasks[t] EXCEPT !.phase = "posted", !.outcome = "complete"]
  <2>1. /\ n.kind = "audit" /\ n.phase = "posted" /\ n.rail = tasks[t].rail
        /\ tasks[t].phase = "auditing"
    BY <1>1, <1>7 DEF Tasks, Posted, At
  <2>2. /\ tasks' = [tasks EXCEPT ![t] = n] /\ UNCHANGED receipt
        /\ fetches' = fetches \cup {<<"feedback", t>>}
    BY <1>7 DEF Posted
  <2> HIDE DEF n
  <2>3. TasksGoOn /\ DOMAIN tasks' = DOMAIN tasks /\ tasks'[t] = n
    BY <1>1, <2>1, <2>2, OneGoesOn DEF Later
  <2>4. Happened("feedback", t)'
    BY <2>1, <2>3 DEF Happened
  <2> QED
    BY <2>2, <2>3, <2>4, FetchBegins
<1>8. CASE CapExceeded(t) \/ Unposted(t) \/ AuditFailed(t) \/ AuditReturns(t)
  BY <1>3, <1>8 DEF CapExceeded, Unposted, AuditFailed, AuditReturns, panels, receipt
<1> QED
  BY <1>4, <1>5, <1>6, <1>7, <1>8 DEF AuditStep

\* The other dispatchers settle the panel at most.
LEMMA OthersGoOn ==
  ASSUME IInv, ReceiptInv, NEW t \in DOMAIN tasks, AwaitReturns(t) \/ AwaitFails(t)
  PROVE  ReceiptInv' /\ TasksGoOn /\ DOMAIN tasks' = DOMAIN tasks
<1>1. tasks[t] \in Tasks
  BY DEF IInv, TaskInv
<1>2. PICK n : /\ tasks' = [tasks EXCEPT ![t] = n] /\ n.kind = tasks[t].kind
               /\ n.phase = tasks[t].phase /\ n.rail = tasks[t].rail
  <2>1. \/ tasks' = [tasks EXCEPT ![t] = [tasks[t] EXCEPT !.state = "ended"]]
        \/ tasks' = [tasks EXCEPT ![t] = [tasks[t] EXCEPT !.state = "escaped"]]
        \/ tasks' = [tasks EXCEPT ![t] = [tasks[t] EXCEPT !.at = tasks[t].at + 1]]
    BY DEF AwaitReturns, AwaitFails, Advance
  <2>2. ASSUME NEW n \in {[tasks[t] EXCEPT !.state = "ended"], [tasks[t] EXCEPT !.state = "escaped"],
                          [tasks[t] EXCEPT !.at = tasks[t].at + 1]}
        PROVE  n.kind = tasks[t].kind /\ n.phase = tasks[t].phase /\ n.rail = tasks[t].rail
    BY <1>1 DEF Tasks
  <2> QED
    BY <2>1, <2>2
<1>3. TasksGoOn /\ DOMAIN tasks' = DOMAIN tasks
  BY <1>2, OneGoesOn DEF Later
<1>4. /\ UNCHANGED <<saved, fetches>>
      /\ envelope' = envelope \/ envelope' = [envelope EXCEPT !.status = "settled"]
  BY DEF AwaitReturns, AwaitFails, panels
<1> QED
  BY <1>3, <1>4, NothingFetched

\* A new dispatcher leaves the others alone.
LEMMA StartGoesOn ==
  ASSUME IInv, NEW kind \in DOMAIN Dispatcher, NEW terms \in [bucket : Buckets, amount : Nat],
         tasks' = Append(tasks, Task(kind, terms))
  PROVE  TasksGoOn /\ Len(tasks') = Len(tasks) + 1
<1>1. /\ DOMAIN tasks' = DOMAIN tasks \cup {Len(tasks) + 1}
      /\ \A t \in DOMAIN tasks : tasks'[t] = tasks[t]
  BY Started
<1>2. Len(tasks') = Len(tasks) + 1
  <2>1. tasks \in Seq(Tasks) /\ Task(kind, terms) \in Tasks
    BY Started DEF IInv, TaskInv
  <2> QED
    BY <2>1
<1> QED
  BY <1>1, <1>2 DEF TasksGoOn, Later

LEMMA KeyboardGoesOn ==
  ASSUME IInv, ReceiptInv, Keyboard
  PROVE  /\ ReceiptInv' /\ TasksGoOn
         /\ Len(tasks') = Len(tasks) \/ (Preparing /\ Len(tasks') = Len(tasks) + 1)
<1>1. ASSUME NEW kind \in Kinds, Dispatch(kind)
      PROVE  ReceiptInv' /\ TasksGoOn /\ Preparing /\ Len(tasks') = Len(tasks) + 1
  <2>1. kind \in DOMAIN Dispatcher /\ NoTerms \in [bucket : Buckets, amount : Nat]
    BY KindsAssumption, Typed
  <2>2. tasks' = Append(tasks, Task(kind, NoTerms)) /\ UNCHANGED <<envelope, saved, fetches>> /\ Preparing
    BY <1>1 DEF Dispatch
  <2>3. TasksGoOn /\ Len(tasks') = Len(tasks) + 1
    BY <2>1, <2>2, StartGoesOn
  <2> QED
    BY <2>2, <2>3, NothingFetched
<1>2. CASE ConfirmGrant
  <2> PICK terms : terms = [bucket |-> BucketOf(staged), amount |-> Amount(modal.typed)]
    OBVIOUS
  <2>1. "grant" \in DOMAIN Dispatcher /\ terms \in [bucket : Buckets, amount : Nat]
    BY Typed DEF IInv, Dispatcher
  <2>2. tasks' = Append(tasks, Task("grant", terms)) /\ UNCHANGED <<envelope, saved, fetches>> /\ Preparing
    BY <1>2 DEF ConfirmGrant, panels
  <2>3. TasksGoOn /\ Len(tasks') = Len(tasks) + 1
    BY <2>1, <2>2, StartGoesOn
  <2> QED
    BY <2>2, <2>3, NothingFetched
<1>3. CASE \/ Refuse \/ Misread \/ Cancel \/ Escape \/ Tab \/ Reset \/ OpenGrant \/ CloseGrant
           \/ \E typed \in {"0", "0.5", "1"} : EditGrant(typed)
  <2>1. /\ UNCHANGED <<tasks, saved, fetches>>
        /\ envelope' = envelope \/ envelope' = EMPTY_RECEIPT
    BY <1>3
       DEF Refuse, Misread, Cancel, Escape, Tab, Reset, OpenGrant, CloseGrant, EditGrant, panels
  <2> QED
    BY <2>1, UnchangedGoOn, NothingFetched
<1> QED
  BY <1>1, <1>2, <1>3 DEF Keyboard

\* What was fetched goes to the panel and to the file.
LEMMA FetchedGoesOn ==
  ASSUME ReceiptInv, NEW f \in fetches, Fetched(f[1], f[2]) \/ NotFetched(f[1], f[2])
  PROVE  ReceiptInv'
<1> PICK what, t : what = f[1] /\ t = f[2]
  OBVIOUS
<1>1. /\ what \in {"split", "feedback"} /\ t \in Nat /\ Happened(what, t)
      /\ envelope \in Receipts /\ saved \in Receipts /\ ReceiptIsTraced
  BY DEF ReceiptInv, FetchInv
<1>2. fetches' \subseteq fetches /\ UNCHANGED tasks
  BY DEF Fetched, NotFetched
<1>3. TasksGoOn
  BY <1>2, UnchangedGoOn
<1>4. FetchInv'
  BY <1>2, <1>3, HappenedStays DEF ReceiptInv, FetchInv
<1>5. CASE NotFetched(f[1], f[2])
  <2>1. UNCHANGED <<envelope, saved>>
    BY <1>5 DEF NotFetched, receipt
  <2> QED
    BY <1>1, <1>3, <1>4, <2>1, TracedStays DEF ReceiptInv, ReceiptIsTraced, Traced
<1>6. CASE Fetched(what, t) /\ what = "split"
  <2>1. saved' = envelope' /\ envelope' = [envelope EXCEPT !.status = "settled", !.split = t]
    BY <1>6 DEF Fetched
  <2>2. /\ envelope' \in Receipts /\ envelope'.split = t
        /\ envelope'.feedback = envelope.feedback
    BY <1>1, <2>1 DEF Receipts
  <2>3. Happened("split", t)'
    BY <1>1, <1>3, <1>6, HappenedStays
  <2>4. \A run \in Nat : run = envelope.feedback /\ run # 0 => Happened("feedback", run)'
    BY <1>1, <1>3, HappenedStays DEF ReceiptIsTraced, Traced
  <2> QED
    BY <1>1, <1>4, <2>1, <2>2, <2>3, <2>4 DEF ReceiptInv, ReceiptIsTraced, Traced, Receipts
<1>7. CASE Fetched(what, t) /\ what = "feedback"
  <2>1. /\ saved' = envelope'
        /\ envelope' = [envelope EXCEPT !.status = "settled+receipt", !.feedback = t]
    BY <1>7 DEF Fetched
  <2>2. /\ envelope' \in Receipts /\ envelope'.feedback = t
        /\ envelope'.split = envelope.split
    BY <1>1, <2>1 DEF Receipts
  <2>3. Happened("feedback", t)'
    BY <1>1, <1>3, <1>7, HappenedStays
  <2>4. \A run \in Nat : run = envelope.split /\ run # 0 => Happened("split", run)'
    BY <1>1, <1>3, HappenedStays DEF ReceiptIsTraced, Traced
  <2> QED
    BY <1>1, <1>4, <2>1, <2>2, <2>3, <2>4 DEF ReceiptInv, ReceiptIsTraced, Traced, Receipts
<1> QED
  BY <1>1, <1>5, <1>6, <1>7

LEMMA RestartGoesOn ==
  ASSUME IInv, ReceiptInv, Restart
  PROVE  ReceiptInv' /\ TasksGoOn /\ DOMAIN tasks' = DOMAIN tasks
<1>1. /\ tasks' = [t \in DOMAIN tasks |->
                     IF Live(t) THEN [tasks[t] EXCEPT !.state = "killed"] ELSE tasks[t]]
      /\ envelope' = saved /\ saved' = saved /\ fetches' = {}
  BY DEF Restart
<1>2. ASSUME NEW t \in DOMAIN tasks PROVE Later(tasks[t], tasks'[t])
  <2>1. tasks[t] \in Tasks
    BY TasksAreNumbered
  <2>2. LET n == [tasks[t] EXCEPT !.state = "killed"]
        IN  n.kind = tasks[t].kind /\ n.phase = tasks[t].phase /\ n.rail = tasks[t].rail
    BY <2>1 DEF Tasks
  <2>3. tasks'[t] \in {tasks[t], [tasks[t] EXCEPT !.state = "killed"]}
    BY <1>1
  <2> QED
    BY <2>2, <2>3 DEF Later
<1>3. TasksGoOn /\ DOMAIN tasks' = DOMAIN tasks
  BY <1>1, <1>2 DEF TasksGoOn
<1>4. Traced(envelope)' /\ Traced(saved)'
  BY <1>1, <1>3, TracedStays DEF ReceiptInv, Traced
<1> QED
  BY <1>1, <1>3, <1>4 DEF ReceiptInv, ReceiptIsTraced, FetchInv

LEMMA NextKeepsReceipts == IInv /\ ReceiptInv /\ [TerminalNext]_terminalVars => ReceiptInv'
<1> SUFFICES ASSUME IInv, ReceiptInv, [TerminalNext]_terminalVars PROVE ReceiptInv'
  OBVIOUS
<1>1. ASSUME NEW t \in DOMAIN tasks, Step(t) PROVE ReceiptInv'
  BY <1>1, AuditStepGoesOn, OthersGoOn DEF Step
<1>2. CASE UNCHANGED terminalVars
  BY <1>2, UnchangedGoOn, NothingFetched DEF terminalVars
<1> QED
  BY <1>1, <1>2, KeyboardGoesOn, FetchedGoesOn, RestartGoesOn DEF TerminalNext

\* The types that the theorems above do not need.
Labels == {Dispatcher[k].shows : k \in DOMAIN Dispatcher} \cup {"idle"}

PanelTypes == Len(tasks) <= MaxDispatches /\ running \in Labels /\ mode \in {"idle", "editing"}

LEMMA NextKeepsPanelTypes == IInv /\ ReceiptInv /\ PanelTypes /\ [TerminalNext]_terminalVars => PanelTypes'
<1> SUFFICES ASSUME IInv, ReceiptInv, PanelTypes, [TerminalNext]_terminalVars PROVE PanelTypes'
  OBVIOUS
<1>0. Len(tasks) \in Nat /\ MaxDispatches \in Nat
  BY TasksAreNumbered, TerminalAssumption
<1>1. Len(tasks') <= MaxDispatches
  <2>1. CASE Keyboard
    BY <1>0, <2>1, KeyboardGoesOn DEF PanelTypes, Preparing
  <2>2. ASSUME DOMAIN tasks' = DOMAIN tasks PROVE Len(tasks') <= MaxDispatches
    <3>1. tasks' \in Seq(Tasks) /\ tasks \in Seq(Tasks)
      BY NextKeepsIInv DEF IInv
    <3>2. Len(tasks') = Len(tasks)
      BY <2>2, <3>1
    <3> QED
      BY <3>2 DEF PanelTypes
  <2>3. ASSUME NEW t \in DOMAIN tasks, Step(t) PROVE DOMAIN tasks' = DOMAIN tasks
    BY <2>3, AuditStepGoesOn, OthersGoOn DEF Step
  <2>4. CASE Restart
    BY <2>2, <2>4, RestartGoesOn
  <2>5. CASE (\E f \in fetches : Fetched(f[1], f[2]) \/ NotFetched(f[1], f[2])) \/ UNCHANGED terminalVars
    BY <2>5 DEF Fetched, NotFetched, terminalVars, PanelTypes
  <2> QED
    BY <2>1, <2>2, <2>3, <2>4, <2>5 DEF TerminalNext
<1>2. running' \in Labels /\ mode' \in {"idle", "editing"}
  <2>1. CASE Keyboard
    <3>1. ASSUME NEW kind \in Kinds, Dispatch(kind) PROVE running' \in Labels /\ mode' = mode
      BY <3>1, KindsAssumption DEF Dispatch, PanelTypes, Labels
    <3>2. CASE \/ Refuse \/ Misread \/ Cancel \/ Escape \/ Tab \/ Reset \/ OpenGrant \/ CloseGrant
               \/ ConfirmGrant \/ \E typed \in {"0", "0.5", "1"} : EditGrant(typed)
      BY <3>2 DEF Refuse, Misread, Cancel, Escape, Tab, Reset, OpenGrant, CloseGrant, ConfirmGrant,
                  EditGrant, PanelTypes, Labels
    <3> QED
      BY <2>1, <3>1, <3>2 DEF Keyboard, PanelTypes
  <2>2. ASSUME NEW t \in DOMAIN tasks, Step(t)
        PROVE  mode' = mode /\ (running' = running \/ running' = "idle")
    BY <2>2 DEF Step, AwaitReturns, AwaitFails, Advance, Freed, input, AuditStep, CapChecked, CapExceeded,
                PaymentSettled, AuditStarts, Posted, Unposted, AuditFailed, AuditReturns, Finish
  <2>3. CASE Restart
    BY <2>3 DEF Restart, Labels
  <2>4. CASE (\E f \in fetches : Fetched(f[1], f[2]) \/ NotFetched(f[1], f[2])) \/ UNCHANGED terminalVars
    BY <2>4 DEF Fetched, NotFetched, terminalVars, input, PanelTypes
  <2> QED
    BY <2>1, <2>2, <2>3, <2>4 DEF TerminalNext, PanelTypes, Labels
<1> QED
  BY <1>1, <1>2 DEF PanelTypes

LEMMA ReceiptsInductive == TerminalSpec => [](IInv /\ ReceiptInv /\ PanelTypes)
<1>1. TerminalInit => ReceiptInv /\ PanelTypes
  BY TerminalAssumption
     DEF TerminalInit, ReceiptInv, ReceiptIsTraced, Traced, FetchInv, Receipts, EMPTY_RECEIPT, PanelTypes, Labels
<1> QED
  BY <1>1, InitIInv, NextKeepsIInv, NextKeepsReceipts, NextKeepsPanelTypes, PTL DEF TerminalSpec

\* What the RECEIPT panel shows of a run, and what a new terminal loads of it from
\* disk, is of a transaction that this run sent (receipt-feed.ts:1, audit-trail.ts:75),
\* however the fetches of several runs overtake each other, the R key and restarts
\* included.  It is not claimed that both of its events are of one run.
THEOREM TerminalReceiptIsTraced == TerminalSpec => []ReceiptIsTraced
<1>1. ReceiptInv => ReceiptIsTraced
  BY DEF ReceiptInv
<1> QED
  BY <1>1, ReceiptsInductive, PTL

\* The variables of the terminal keep their types.
THEOREM TerminalTypeCorrect == TerminalSpec => []TerminalTypeOK
<1>1. IInv /\ ReceiptInv /\ PanelTypes => TerminalTypeOK
  <2> SUFFICES ASSUME IInv, ReceiptInv, PanelTypes PROVE TerminalTypeOK
    OBVIOUS
  <2>1. Len(tasks) \in Nat /\ DOMAIN tasks = 1 .. Len(tasks)
    BY TasksAreNumbered
  <2>2. {envelope.split, envelope.feedback} \subseteq 0 .. Len(tasks)
    BY <2>1 DEF ReceiptInv, ReceiptIsTraced, Traced, Happened
  <2>3. fetches \subseteq {"split", "feedback"} \X (1 .. Len(tasks))
    <3> SUFFICES ASSUME NEW f \in fetches PROVE f \in {"split", "feedback"} \X (1 .. Len(tasks))
      OBVIOUS
    <3>1. f \in {"split", "feedback"} \X Nat /\ f[2] \in 1 .. Len(tasks)
      BY <2>1 DEF ReceiptInv, FetchInv, Happened
    <3> QED
      BY <3>1
  <2> QED
    BY <2>2, <2>3 DEF TerminalTypeOK, IInv, PanelTypes, Labels, Buckets
<1> QED
  BY <1>1, ReceiptsInductive, PTL
=============================================================================
