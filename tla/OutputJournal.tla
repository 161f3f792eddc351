--------------------------- MODULE OutputJournal ---------------------------
(***************************************************************************)
(* The output path of one hosted Session inside a PTY core: the reactor    *)
(* thread reads the PTY and hands chunks to the core-wide journal writer   *)
(* thread, the two share the JournalBackpressure atomics, and the          *)
(* session-exit thread closes the journal before it publishes the exit.    *)
(*                                                                         *)
(* Bytes are identified by their offset, so every stage of the path is one *)
(* counter: written <= taken <= sent <= produced.  The FIFO channel to the *)
(* writer is the interval taken..sent with the chunk ends in `cuts` and    *)
(* the offsets at which Flush and Close requests were queued.              *)
(***************************************************************************)
EXTENDS Integers, FiniteSets, Sequences

CONSTANTS
    ReadMax,     \* SESSION_OUTPUT_READ_BUFFER_BYTES: most bytes per read
    High, Low,   \* JOURNAL_BACKLOG_HIGH_BYTES, JOURNAL_BACKLOG_LOW_BYTES
    BatchMax,    \* JOURNAL_BATCH_MAX_BYTES
    PtyBuffer,   \* bytes the kernel buffers behind the PTY master
    DrainMax,    \* reads drain_after_stop makes before it gives up (64)
    MaxOut,      \* bound: bytes the child ever writes
    MaxHandoffs  \* bound: handoff attempts

ASSUME JournalConstants ==
    /\ ReadMax \in Nat \ {0} /\ BatchMax \in Nat \ {0} /\ PtyBuffer \in Nat \ {0}
    /\ DrainMax \in Nat \ {0} /\ MaxOut \in Nat /\ MaxHandoffs \in Nat
    /\ Low \in Nat \ {0} /\ High \in Nat /\ Low + ReadMax <= High

VARIABLES
    produced,      \* bytes the child has written to the PTY
    childGone,     \* every slave is closed: the master reports hang-up
    running,       \* SessionShared.running
    killed,        \* a Kill command has been served
    control,       \* FIFO of Control messages to the reactor
    rpc,           \* where the reactor is
    chunk,         \* bytes of the chunk the reactor holds
    draining,      \* reads drain_after_stop may still make (0: ordinary path)
    readInterest,  \* SessionIo.pty_read_interest
    backlog,       \* JournalBackpressure.backlog
    paused,        \* JournalBackpressure.paused
    sent, cuts,    \* bytes handed to the writer, ends of queued chunks
    flushAt,       \* offsets at which a JournalMsg::Flush is queued
    closing,       \* "none" | "queued" | "ok" | "err": JournalMsg::Close
    ack,           \* answer to the reactor's last Flush
    wpc, remaining,\* writer: where it is, backlog left after the last take
    taken, written,\* bytes the writer received, bytes in output.bin
    error,         \* JournalSession.error
    tpc, result,   \* session-exit thread and the outcome it carries
    manifest,      \* state in the manifest
    handoffs       \* handoff attempts so far

reactorVars == <<control, rpc, chunk, draining, readInterest>>
writerVars  == <<wpc, remaining, taken, written, error>>
chanVars    == <<sent, cuts, flushAt, closing, ack>>
exitVars    == <<tpc, result, manifest>>
childVars   == <<produced, childGone, running, killed>>
vars == <<childVars, reactorVars, backlog, paused, chanVars, writerVars,
          exitVars, handoffs>>

Held == IF rpc = "send" THEN chunk ELSE 0    \* counted but not yet queued
Read == sent + (IF rpc \in {"add", "send"} THEN chunk ELSE 0)
Avail == produced - Read
Live == rpc \notin {"ended", "moved"}

Messages == {"JournalDrained", "JournalFailed", "Wake", "Handoff"}

TypeOK ==
    /\ produced \in Nat /\ childGone \in BOOLEAN
    /\ running \in BOOLEAN /\ killed \in BOOLEAN
    /\ control \in Seq(Messages)
    /\ rpc \in {"control", "poll", "add", "send", "check", "pause", "drain",
                "flushing", "ended", "moved"}
    /\ chunk \in Nat /\ draining \in 0..DrainMax
    /\ readInterest \in BOOLEAN /\ backlog \in Int /\ paused \in BOOLEAN
    /\ sent \in Nat /\ cuts \subseteq Nat /\ flushAt \subseteq Nat
    /\ closing \in {"none", "queued", "ok", "err"}
    /\ ack \in {"none", "ok", "err"}
    /\ wpc \in {"recv", "notify"} /\ remaining \in Int
    /\ taken \in Nat /\ written \in Nat /\ error \in BOOLEAN
    /\ tpc \in {"none", "close", "publish", "done"}
    /\ result \in {"ok", "err"} /\ manifest \in {"running", "exited"}
    /\ handoffs \in 0..MaxHandoffs

Init ==
    /\ produced = 0 /\ childGone = FALSE /\ running = TRUE /\ killed = FALSE
    /\ control = <<>> /\ rpc = "control" /\ chunk = 0 /\ draining = 0
    /\ readInterest = TRUE /\ backlog = 0 /\ paused = FALSE
    /\ sent = 0 /\ cuts = {} /\ flushAt = {} /\ closing = "none" /\ ack = "none"
    /\ wpc = "recv" /\ remaining = 0 /\ taken = 0 /\ written = 0 /\ error = FALSE
    /\ tpc = "none" /\ result = "ok" /\ manifest = "running"
    /\ handoffs = 0
-----------------------------------------------------------------------------
(* The child and the one-shot command threads.                             *)

ChildWrite ==
    /\ ~childGone /\ produced < MaxOut /\ Avail < PtyBuffer
    /\ produced' = produced + 1
    /\ UNCHANGED <<childGone, running, killed, reactorVars, backlog, paused,
                   chanVars, writerVars, exitVars, handoffs>>

ChildExit ==
    /\ ~childGone
    /\ childGone' = TRUE
    /\ UNCHANGED <<produced, running, killed, reactorVars, backlog, paused,
                   chanVars, writerVars, exitVars, handoffs>>

\* The Kill command ends the child's process tree, clears `running` and
\* wakes the reactor.  A descendant that kept a slave open may survive it.
Kill ==
    /\ ~killed /\ Live
    /\ killed' = TRUE /\ running' = FALSE
    /\ childGone' \in {childGone, TRUE}
    /\ control' = Append(control, "Wake")
    /\ UNCHANGED <<produced, rpc, chunk, draining, readInterest, backlog, paused,
                   chanVars, writerVars, exitVars, handoffs>>

\* A connection thread of the core asks the reactor for a handoff.
RequestHandoff ==
    /\ handoffs < MaxHandoffs /\ Live
    /\ handoffs' = handoffs + 1
    /\ control' = Append(control, "Handoff")
    /\ UNCHANGED <<childVars, rpc, chunk, draining, readInterest, backlog,
                   paused, chanVars, writerVars, exitVars>>
-----------------------------------------------------------------------------
(* The reactor thread.                                                     *)

Receive(m) == rpc = "control" /\ control # <<>> /\ Head(control) = m /\ control' = Tail(control)

\* end_session: the Session leaves the reactor, the exit thread takes over.
EndSession(r) ==
    /\ rpc' = "ended" /\ draining' = 0
    /\ tpc' = "close" /\ result' = r

\* drain_control found the queue empty: wait for events.
ControlEmpty ==
    /\ rpc = "control" /\ control = <<>>
    /\ rpc' = "poll"
    /\ UNCHANGED <<childVars, control, chunk, draining, readInterest, backlog,
                   paused, chanVars, writerVars, exitVars, handoffs>>

\* Kill cleared `running` before it sent the Wake: drain what the
\* termination left behind.
ControlWake ==
    /\ Receive("Wake")
    /\ rpc' = IF running THEN "control" ELSE "drain"
    /\ draining' = IF running THEN 0 ELSE DrainMax
    /\ UNCHANGED <<childVars, chunk, readInterest, backlog, paused, chanVars,
                   writerVars, exitVars, handoffs>>

ControlDrained ==
    /\ Receive("JournalDrained")
    /\ readInterest' = TRUE
    /\ UNCHANGED <<childVars, rpc, chunk, draining, backlog, paused, chanVars,
                   writerVars, exitVars, handoffs>>

ControlFailed ==
    /\ Receive("JournalFailed")
    /\ EndSession("err")
    /\ UNCHANGED <<childVars, chunk, readInterest, backlog, paused, chanVars,
                   writerVars, manifest, handoffs>>

\* Reactor::handoff quiesces the Session: journal first.
ControlHandoff ==
    /\ Receive("Handoff")
    /\ flushAt' = flushAt \cup {sent} /\ ack' = "none"
    /\ rpc' = "flushing"
    /\ UNCHANGED <<childVars, chunk, draining, readInterest, backlog, paused,
                   sent, cuts, closing, writerVars, exitVars, handoffs>>

\* The flush failed, or its answer did not come in 10 s: the Session is not
\* in `paused`, so the abandoned handoff leaves it as it is.
HandoffFlushFails ==
    /\ rpc = "flushing" /\ ack # "ok"
    /\ rpc' = "control"
    /\ UNCHANGED <<childVars, control, chunk, draining, readInterest, backlog,
                   paused, chanVars, writerVars, exitVars, handoffs>>

\* Flushed, but a later step failed: resume_after_handoff, unless it was the
\* timer that did not answer, which leaves the Session out of `paused`.
HandoffAbandoned ==
    /\ rpc = "flushing" /\ ack = "ok"
    /\ rpc' = "control" /\ readInterest' \in {readInterest, TRUE}
    /\ UNCHANGED <<childVars, control, chunk, draining, backlog, paused,
                   chanVars, writerVars, exitVars, handoffs>>

\* Mutant: the commit does not wait for the flush.
HandoffCommittedUnflushed ==
    /\ rpc = "flushing" /\ running
    /\ rpc' = "moved"
    /\ UNCHANGED <<childVars, control, chunk, draining, readInterest, backlog,
                   paused, chanVars, writerVars, exitVars, handoffs>>

\* The new core committed: forget_after_handoff.  A Session that is being
\* killed refuses to be exported.
HandoffCommitted ==
    /\ rpc = "flushing" /\ ack = "ok" /\ running
    /\ rpc' = "moved"
    /\ UNCHANGED <<childVars, control, chunk, draining, readInterest, backlog,
                   paused, chanVars, writerVars, exitVars, handoffs>>

\* One pty_readable: a chunk, end of file, or nothing.
PtyRead ==
    /\ Avail > 0
    /\ \E n \in 1..ReadMax :
          /\ n <= Avail
          /\ chunk' = n
    /\ rpc' = "add"
    /\ UNCHANGED <<childVars, control, readInterest, backlog, paused, chanVars,
                   writerVars, exitVars, handoffs>>

PtyEnd == Avail = 0 /\ (childGone \/ ~running) /\ EndSession("ok")

\* Level-triggered readiness; hang-up is reported whatever the interest.
PollRead ==
    /\ rpc = "poll" /\ (readInterest \/ childGone)
    /\ draining' = 0
    /\ PtyRead

PollEnd ==
    /\ rpc = "poll" /\ childGone
    /\ PtyEnd
    /\ UNCHANGED <<childVars, control, chunk, readInterest, backlog, paused,
                   chanVars, writerVars, manifest, handoffs>>

\* The waker: a message was queued while the reactor waited.
PollWake ==
    /\ rpc = "poll" /\ control # <<>>
    /\ rpc' = "control"
    /\ UNCHANGED <<childVars, control, chunk, draining, readInterest, backlog,
                   paused, chanVars, writerVars, exitVars, handoffs>>

\* Mutant: the idle tick looks after running Sessions only.
IdleTickRunningOnly ==
    /\ rpc = "poll" /\ ~running /\ childGone
    /\ rpc' = "drain" /\ draining' = DrainMax
    /\ UNCHANGED <<childVars, control, chunk, readInterest, backlog, paused,
                   chanVars, writerVars, exitVars, handoffs>>

\* idle_tick: the safety net for a Kill whose wake was lost.
IdleTick ==
    /\ rpc = "poll" /\ ~running
    /\ rpc' = "drain" /\ draining' = DrainMax
    /\ UNCHANGED <<childVars, control, chunk, readInterest, backlog, paused,
                   chanVars, writerVars, exitVars, handoffs>>

\* The loop of drain_after_stop; it reads whatever the interest, and
\* AfterRead leaves it after the last of its reads.
DrainRead ==
    /\ rpc = "drain" /\ draining > 0
    /\ draining' = draining - 1
    /\ PtyRead

DrainEnd ==
    /\ rpc = "drain" /\ draining > 0
    /\ PtyEnd
    /\ UNCHANGED <<childVars, control, chunk, readInterest, backlog, paused,
                   chanVars, writerVars, manifest, handoffs>>

\* Mutant: the reads of drain_after_stop are not counted.
PublishAddOrdinary ==
    /\ rpc = "add"
    /\ backlog' = IF draining = 0 THEN backlog + chunk ELSE backlog
    /\ rpc' = "send"
    /\ UNCHANGED <<childVars, control, chunk, draining, readInterest, paused,
                   chanVars, writerVars, exitVars, handoffs>>

\* publish_chunk: account for the bytes, then queue them.
PublishAdd ==
    /\ rpc = "add"
    /\ backlog' = backlog + chunk
    /\ rpc' = "send"
    /\ UNCHANGED <<childVars, control, chunk, draining, readInterest, paused,
                   chanVars, writerVars, exitVars, handoffs>>

PublishSend ==
    /\ rpc = "send"
    /\ sent' = sent + chunk /\ cuts' = cuts \cup {sent + chunk}
    /\ chunk' = 0 /\ rpc' = "check"
    /\ UNCHANGED <<childVars, control, draining, readInterest, backlog, paused,
                   flushAt, closing, ack, writerVars, exitVars, handoffs>>

AfterRead == IF running \/ draining = 0 THEN "control" ELSE "drain"

\* Mutant: the interest test is inverted.
CheckBacklogInverted ==
    /\ rpc = "check"
    /\ rpc' = IF backlog > High /\ ~readInterest THEN "pause" ELSE AfterRead
    /\ UNCHANGED <<childVars, control, chunk, draining, readInterest, backlog,
                   paused, chanVars, writerVars, exitVars, handoffs>>

\* apply_journal_backpressure: the load ...
CheckBacklog ==
    /\ rpc = "check"
    /\ rpc' = IF backlog > High /\ readInterest THEN "pause" ELSE AfterRead
    /\ UNCHANGED <<childVars, control, chunk, draining, readInterest, backlog,
                   paused, chanVars, writerVars, exitVars, handoffs>>

\* ... and the store that acts on it.
PauseReads ==
    /\ rpc = "pause"
    /\ paused' = TRUE /\ readInterest' = FALSE
    /\ rpc' = AfterRead
    /\ UNCHANGED <<childVars, control, chunk, draining, backlog, chanVars,
                   writerVars, exitVars, handoffs>>

Reactor ==
    \/ ControlEmpty \/ ControlWake \/ ControlDrained \/ ControlFailed
    \/ ControlHandoff \/ HandoffFlushFails \/ HandoffAbandoned \/ HandoffCommitted
    \/ PollRead \/ PollEnd \/ PollWake \/ IdleTick \/ DrainRead \/ DrainEnd
    \/ PublishAdd \/ PublishSend \/ CheckBacklog \/ PauseReads
-----------------------------------------------------------------------------
(* The journal writer thread (run_journal_writer), for this Session.       *)

Pending == IF error THEN 0 ELSE taken - written

\* JournalSession::flush: nothing to do, written, or the disk refused.
FlushTo(upto) ==
    \/ error /\ UNCHANGED <<written, error>>
    \/ ~error /\ written' = upto /\ UNCHANGED error
    \/ ~error /\ written < upto /\ error' = TRUE /\ UNCHANGED written

\* JournalMsg::Chunk: the bytes leave the backlog ...
WriterTake ==
    /\ wpc = "recv" /\ taken \notin flushAt
    /\ \E next \in cuts :
          /\ \A c \in cuts : next <= c
          /\ backlog' = backlog - (next - taken)
          /\ remaining' = backlog - (next - taken)
          /\ taken' = next /\ cuts' = cuts \ {next}
    /\ wpc' = "notify"
    /\ UNCHANGED <<childVars, reactorVars, paused, sent, flushAt, closing, ack,
                   written, error, exitVars, handoffs>>

\* Mutant: the flag is cleared and nobody is told.
WriterNotifySilent ==
    /\ wpc = "notify" /\ wpc' = "recv"
    /\ IF taken - written >= BatchMax THEN FlushTo(taken)
       ELSE UNCHANGED <<written, error>>
    /\ paused' = (paused /\ remaining >= Low)
    /\ control' = IF error' /\ ~error THEN Append(control, "JournalFailed") ELSE control
    /\ UNCHANGED <<childVars, rpc, chunk, draining, readInterest, backlog,
                   chanVars, remaining, taken, exitVars, handoffs>>

\* ... a paused reactor is told when few remain, and the batch grows.
WriterNotify ==
    /\ wpc = "notify" /\ wpc' = "recv"
    /\ IF taken - written >= BatchMax THEN FlushTo(taken)
       ELSE UNCHANGED <<written, error>>
    /\ LET resume == paused /\ remaining < Low
           told == IF resume THEN Append(control, "JournalDrained") ELSE control
       IN /\ paused' = (paused /\ ~resume)
          /\ control' = IF error' /\ ~error THEN Append(told, "JournalFailed") ELSE told
    /\ UNCHANGED <<childVars, rpc, chunk, draining, readInterest, backlog,
                   chanVars, remaining, taken, exitVars, handoffs>>

\* JOURNAL_FLUSH_INTERVAL after the first pending byte.
WriterFlushDue ==
    /\ wpc = "recv" /\ Pending > 0
    /\ FlushTo(taken)
    /\ control' = IF error' THEN Append(control, "JournalFailed") ELSE control
    /\ UNCHANGED <<childVars, rpc, chunk, draining, readInterest, backlog, paused,
                   chanVars, wpc, remaining, taken, exitVars, handoffs>>

\* JournalMsg::Flush: the answer goes to the waiting reactor, if it still
\* waits; a failure found here is reported nowhere else.
WriterFlushAsked ==
    /\ wpc = "recv" /\ taken \in flushAt
    /\ FlushTo(taken)
    /\ flushAt' = flushAt \ {taken}
    /\ ack' = IF rpc = "flushing" /\ taken = sent
              THEN (IF error' THEN "err" ELSE "ok") ELSE ack
    /\ UNCHANGED <<childVars, reactorVars, backlog, paused, sent, cuts, closing,
                   wpc, remaining, taken, exitVars, handoffs>>

\* JournalMsg::Close is queued behind everything the Session ever sent.
WriterClose ==
    /\ wpc = "recv" /\ closing = "queued" /\ cuts = {} /\ flushAt = {}
    /\ FlushTo(taken)
    /\ closing' = IF error' THEN "err" ELSE "ok"
    /\ UNCHANGED <<childVars, reactorVars, backlog, paused, sent, cuts, flushAt,
                   ack, wpc, remaining, taken, exitVars, handoffs>>

Writer == WriterTake \/ WriterNotify \/ WriterFlushDue \/ WriterFlushAsked \/ WriterClose
-----------------------------------------------------------------------------
(* The session-exit thread (SessionTeardown::run).                         *)

ExitClose ==
    /\ tpc = "close" /\ closing = "none"
    /\ closing' = "queued"
    /\ UNCHANGED <<childVars, reactorVars, backlog, paused, sent, cuts, flushAt,
                   ack, writerVars, exitVars, handoffs>>

\* Mutant: the missing or failed flush is not carried into the outcome.
ExitClosedRegardless ==
    /\ tpc = "close" /\ closing # "none"
    /\ running' = FALSE
    /\ tpc' = "publish"
    /\ UNCHANGED <<produced, childGone, killed, reactorVars, backlog, paused,
                   chanVars, writerVars, result, manifest, handoffs>>

\* The writer answered, or 30 s passed: "Output writer did not flush".
ExitClosed ==
    /\ tpc = "close" /\ closing # "none"
    /\ result' = IF closing = "ok" THEN result ELSE "err"
    /\ running' = FALSE
    /\ tpc' = "publish"
    /\ UNCHANGED <<produced, childGone, killed, reactorVars, backlog, paused,
                   chanVars, writerVars, manifest, handoffs>>

\* The child is reaped first, so nothing writes to the PTY any more.
ExitPublish ==
    /\ tpc = "publish"
    /\ tpc' = "done" /\ manifest' = "exited" /\ childGone' = TRUE
    /\ UNCHANGED <<produced, running, killed, reactorVars, backlog, paused,
                   chanVars, writerVars, result, handoffs>>

Exit == ExitClose \/ ExitClosed \/ ExitPublish

Next ==
    \/ ChildWrite \/ ChildExit \/ Kill \/ RequestHandoff
    \/ Reactor \/ Writer \/ Exit

Spec == Init /\ [][Next]_vars
-----------------------------------------------------------------------------
(* Properties.                                                             *)

\* `backlog` is exactly the bytes between the two threads, so that the
\* writer's fetch_sub never wraps below zero (publish_chunk adds before it
\* sends).
BacklogExact == backlog = (sent - taken) + Held

\* A slow disk holds a running Session's unwritten output to the high mark
\* and two reads: the one that crossed the mark, and one more let through by
\* a JournalDrained that rests on a count new output has overtaken.
BoundedBacklog ==
    running /\ ~childGone => backlog <= High + 2 * ReadMax

\* The journal is closed before the exit is published: an Exited manifest
\* of a Session that ended well stands beside a complete output.bin.
ExitedJournalComplete ==
    manifest = "exited" /\ result = "ok" => written = sent

\* Every byte the child got into the PTY before it hung up is in the journal
\* when a Session ends because its child exited.
ExitedAfterEof ==
    manifest = "exited" /\ result = "ok" /\ ~killed => written = produced

\* A handoff that the new core commits leaves no byte behind in this core:
\* what the reactor read is in the file the new core reopens.
MovedJournalComplete == rpc = "moved" => written = sent /\ backlog = 0

Durable == INSTANCE DurableOutput WITH
    output <- produced,
    journal <- written,
    phase <- IF manifest = "exited" THEN "exited"
             ELSE IF rpc = "moved" THEN "moved" ELSE "open",
    outcome <- IF manifest = "exited" THEN result ELSE "none",
    stopped <- killed

\* The reactor, the writer and the exit thread together keep the promise of
\* the journal: it grows by what the child wrote, is complete at a clean
\* unforced exit, and no late flush of this core touches it after a clean
\* exit or after the Session went to another core.
ImplementsDurable == Durable!DurableSpec

\* Both threads loop for ever and the operating system schedules them; a
\* poll returns for an event that stays ready; nothing obliges the child, a
\* client or the disk to do anything.
Fairness ==
    WF_vars(Reactor) /\ WF_vars(Writer) /\ WF_vars(Exit)

FairSpec == Spec /\ Fairness

\* A Session paused while at least the low mark is still queued is resumed
\* (or ends): the writer sees `paused` when it takes the chunk that crosses
\* the mark, and the reactor acts on its JournalDrained.
PausedReadsResume ==
    (paused /\ ~readInterest /\ sent - taken >= Low) ~> (readInterest \/ ~Live)

\* "Reads resume below the low mark" (JOURNAL_BACKLOG_HIGH_BYTES): a Session
\* whose PTY reads are off gets them back, or ends.
ReadsResume == ~readInterest ~> (readInterest \/ ~Live)

\* A killed Session ends and its exit is published, whatever state its
\* reads, its handoff or its journal are in, unless it was handed over.
KillPublishesExit == killed ~> (manifest = "exited" \/ rpc = "moved")
=============================================================================
