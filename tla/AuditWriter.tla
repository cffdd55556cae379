----------------------------- MODULE AuditWriter -----------------------------
(***************************************************************************)
(* The background writer that pins audit events to 0G Storage,             *)
(* createAuditWriter in packages/router/src/audit.ts.                      *)
(*                                                                         *)
(* JavaScript runs one callback at a time, so what the code does between   *)
(* two awaits is one step: an enqueue, the start of a flush, the end of an *)
(* upload.  Between the start and the end of an upload anything else may   *)
(* run.  An upload may fail, or reach the storage and have its answer lost.*)
(* Events are numbered in the order of their enqueue calls.                *)
(***************************************************************************)
EXTENDS Naturals, SequencesExt

CONSTANTS
  MaxEvents,       \* bound on the number of enqueue calls
  MaxQueueSize     \* the option of the same name

ASSUME WriterAssumption == MaxEvents \in Nat /\ MaxQueueSize \in Nat

VARIABLES
  queue, timer, closed,
  flushing,        \* the single-flight gate
  snapshot,        \* the batch of the upload in flight
  closing,         \* how far close() has come
  enqueued,        \* number of enqueue calls so far
  refused,         \* history: events enqueued after close
  dropped,         \* history: events trimmed by back-pressure
  acked,           \* history: events whose onFlushed was called, in order
  stored,          \* history: events the storage holds
  outage           \* history: some upload has been reported as failed

holdVars == <<queue, timer, closed, flushing, snapshot, closing>>
pinVars == <<refused, dropped, acked, stored, outage>>
writerVars == <<holdVars, enqueued, pinVars>>

Events == 1 .. MaxEvents

WriterTypeOK ==
  /\ queue \in Seq(Events) /\ snapshot \in Seq(Events) /\ acked \in Seq(Events)
  /\ timer \in BOOLEAN /\ closed \in BOOLEAN /\ flushing \in BOOLEAN
  /\ closing \in {"no", "awaiting", "returned"}
  /\ enqueued \in 0 .. MaxEvents
  /\ refused \subseteq Events /\ dropped \subseteq Events /\ stored \subseteq Events
  /\ outage \in BOOLEAN
  /\ flushing <=> snapshot # <<>>
  /\ closed => ~timer

WriterInit ==
  /\ queue = <<>> /\ snapshot = <<>> /\ acked = <<>>
  /\ timer = FALSE /\ closed = FALSE /\ flushing = FALSE
  /\ closing = "no"
  /\ enqueued = 0
  /\ refused = {} /\ dropped = {} /\ stored = {}
  /\ outage = FALSE

-----------------------------------------------------------------------------

EnqueueAfterClose ==
  /\ enqueued < MaxEvents
  /\ closed
  /\ enqueued' = enqueued + 1
  /\ refused' = refused \cup {enqueued + 1}
  /\ UNCHANGED <<holdVars, dropped, acked, stored, outage>>

\* Push, trim the oldest past the cap, make sure the timer runs.
Excess(q) == IF Len(q) > MaxQueueSize THEN Len(q) - MaxQueueSize ELSE 0

\* Mutant of Enqueue: nobody starts the timer.
EnqueueWithoutTimer ==
  LET pushed == Append(queue, enqueued + 1)
      excess == Excess(pushed)
  IN  /\ enqueued < MaxEvents
      /\ ~closed
      /\ enqueued' = enqueued + 1
      /\ queue' = SubSeq(pushed, excess + 1, Len(pushed))
      /\ dropped' = dropped \cup {pushed[i] : i \in 1 .. excess}
      /\ UNCHANGED <<timer, closed, flushing, snapshot, closing, refused, acked, stored, outage>>

Enqueue ==
  LET pushed == Append(queue, enqueued + 1)
      excess == Excess(pushed)
  IN  /\ enqueued < MaxEvents
      /\ ~closed
      /\ enqueued' = enqueued + 1
      /\ queue' = SubSeq(pushed, excess + 1, Len(pushed))
      /\ dropped' = dropped \cup {pushed[i] : i \in 1 .. excess}
      /\ timer' = TRUE
      /\ UNCHANGED <<closed, flushing, snapshot, closing, refused, acked, stored, outage>>

\* doFlush up to the call of upload; nothing happens when a flush is in flight
\* or the queue is empty.
BeginFlush ==
  /\ ~flushing
  /\ queue # <<>>
  /\ snapshot' = queue
  /\ queue' = <<>>
  /\ flushing' = TRUE

TimerFlush ==
  /\ timer
  /\ BeginFlush
  /\ UNCHANGED <<timer, closed, closing, enqueued, pinVars>>

\* The public flush(), which works after close() too.
Flush ==
  /\ BeginFlush
  /\ UNCHANGED <<timer, closed, closing, enqueued, pinVars>>

\* The flush that close() awaits has ended, whoever began it.
EndFlush ==
  /\ flushing' = FALSE
  /\ snapshot' = <<>>
  /\ closing' = IF closing = "awaiting" THEN "returned" ELSE closing
  /\ UNCHANGED <<timer, closed, enqueued, refused, dropped>>

UploadOk ==
  /\ flushing
  /\ stored' = stored \cup ToSet(snapshot)
  /\ acked' = acked \o snapshot
  /\ EndFlush
  /\ UNCHANGED <<queue, outage>>

\* Mutant of Restore: the snapshot goes to the back.
RestoreAtBack ==
  /\ flushing
  /\ queue' = queue \o snapshot
  /\ outage' = TRUE
  /\ EndFlush
  /\ UNCHANGED acked

\* The snapshot goes back to the front of the queue.
Restore ==
  /\ flushing
  /\ queue' = snapshot \o queue
  /\ outage' = TRUE
  /\ EndFlush
  /\ UNCHANGED acked

UploadFails == Restore /\ UNCHANGED stored

UploadAnswerLost == Restore /\ stored' = stored \cup ToSet(snapshot)

\* close(): no more enqueues, no more timer, and one doFlush, which only awaits
\* the flush in flight if there is one.
Close ==
  /\ closing = "no"
  /\ closed' = TRUE
  /\ timer' = FALSE
  /\ UNCHANGED <<enqueued, pinVars>>
  /\ \/ /\ flushing
        /\ closing' = "awaiting"
        /\ UNCHANGED <<queue, snapshot, flushing>>
     \/ /\ BeginFlush
        /\ closing' = "awaiting"
     \/ /\ ~flushing /\ queue = <<>>
        /\ closing' = "returned"
        /\ UNCHANGED <<queue, snapshot, flushing>>

Upload == UploadOk \/ UploadFails \/ UploadAnswerLost

WriterNext ==
  \/ Enqueue \/ EnqueueAfterClose
  \/ TimerFlush \/ Flush
  \/ Upload
  \/ Close

WriterSpec == WriterInit /\ [][WriterNext]_writerVars

\* The interval timer keeps firing, an upload settles, and the storage does not
\* refuse for ever.
WriterFairSpec ==
  /\ WriterSpec
  /\ WF_writerVars(TimerFlush)
  /\ WF_writerVars(Upload)
  /\ SF_writerVars(UploadOk)

-----------------------------------------------------------------------------

\* Every event handed to an open writer is in exactly one place: acknowledged,
\* being uploaded, waiting, or dropped by back-pressure; "FIFO order" holds along
\* the first three, failed uploads included, and what is acknowledged is stored.
NoEventLost ==
  LET line == acked \o snapshot \o queue
  IN  /\ \A i, j \in 1 .. Len(line) : i < j => line[i] < line[j]
      /\ ToSet(line) \cap (dropped \cup refused) = {}
      /\ dropped \cap refused = {}
      /\ ToSet(line) \cup dropped \cup refused = 1 .. enqueued
      /\ ToSet(acked) \subseteq stored

\* As long as the writer stays open, every event is pinned in the end, unless
\* back-pressure drops it.
EventuallyPinned ==
  \A e \in Events :
    e <= enqueued /\ ~closed ~> e \in ToSet(acked) \cup dropped \/ closed

\* "Stop background timer and run final flush": when close() has returned and
\* no upload has failed, nothing is left behind in the queue.
CloseFlushesQueue == closing = "returned" /\ ~outage => queue = <<>>

=============================================================================
