---------------------------- MODULE AttachClient ---------------------------
(***************************************************************************)
(* unpeel-attach and the Session it shows: snapshot or replayed tail, then *)
(* the live stream (a thread of its own), then, when the stream fails, the *)
(* journal file, read without a lock while the host writes and punches it. *)
(*                                                                         *)
(* `screen` is what the terminal was given since its last reset: the bytes *)
(* by number, 0 for a NUL that came out of a punched block.                *)
(***************************************************************************)
EXTENDS SessionStream

CONSTANTS
    ReplayMax,  \* --replay-bytes
    Retries     \* of read_replay_tail (3)

ASSUME AttachConstants == ReplayMax \in Nat /\ Retries \in Nat

VARIABLES
    vpc,        \* where the main loop of the client is
    mode,       \* use_output_stream: "stream" or "file"
    status,     \* output_stream_status: "running", "exited", "failed"
    offset,     \* next offset the client wants
    screen,     \* bytes on the terminal since the last reset
    buf,        \* a sample of the file not yet shown: [from, bytes]
    tries,      \* retries read_replay_tail has left
    after,      \* where the main loop goes on after a replay
    draining    \* the final drain

viewVars == <<vpc, mode, status, offset, screen, buf, tries, after, draining>>
vars == <<hostVars, fileVars, viewVars>>

NoSample == [from |-> 0, bytes |-> <<>>]

Init ==
    /\ StreamInit /\ FileInit
    /\ vpc = "attach" /\ mode = "file" /\ status = "running" /\ offset = 0
    /\ screen = <<>> /\ buf = NoSample /\ tries = 0 /\ after = "connect"
    /\ draining = FALSE

\* Only values a run of the client can produce.
TypeOK ==
    /\ StreamTypeOK /\ FileTypeOK
    /\ vpc \in {"attach", "connect", "live", "tail", "tailRead", "tailCheck",
                "fileRead", "fileCheck", "exited", "drained", "banner"}
    /\ mode \in {"stream", "file"} /\ status \in {"running", "exited", "failed"}
    /\ offset \in 0 .. MaxOut /\ screen \in Seq(0 .. MaxOut)
    /\ buf \in [from : 0 .. MaxOut, bytes : Seq(0 .. MaxOut)]
    /\ tries \in 0 .. Retries /\ after \in {"connect", "live", "drained"}
    /\ draining \in BOOLEAN

Done == vpc \in {"exited", "drained", "banner"}

-----------------------------------------------------------------------------
\* Start-up.

\* request_snapshot: the host renders the viewport under its lock, at the
\* offset the viewport has consumed.
Snapshot ==
    /\ vpc = "attach" /\ life = "running"
    /\ screen' = [i \in 1 .. fed |-> i] /\ offset' = fed /\ vpc' = "connect"
    /\ UNCHANGED <<hostVars, fileVars, mode, status, buf, tries, after, draining>>

\* The Session had exited when the client started: a replay and no more.
StartExited ==
    /\ vpc = "attach" /\ life = "exited"
    /\ vpc' = "tail" /\ tries' = Retries /\ after' = "drained"
    /\ UNCHANGED <<hostVars, fileVars, mode, status, offset, screen, buf, draining>>

\* No snapshot (an old host, a transport error, an end just now): raw tail.
SnapshotFails ==
    /\ vpc = "attach" /\ vpc' = "tail" /\ tries' = Retries
    /\ UNCHANGED <<hostVars, fileVars, mode, status, offset, screen, buf, after, draining>>

\* spawn_output_stream_pump, or the file when the connection fails.
Connect ==
    /\ vpc = "connect" /\ vpc' = "live"
    /\ \/ mode' = "file" /\ UNCHANGED hostVars
       \/ /\ life = "running" /\ mode' = "stream"
          /\ conn' = "sent" /\ asked' = offset
          /\ UNCHANGED <<life, outVars, rpc, then, sub, chan, outbuf, closing, sock, handoffs>>
    /\ UNCHANGED <<fileVars, status, offset, screen, buf, tries, after, draining>>

-----------------------------------------------------------------------------
\* The stream thread.

\* A frame; one that does not start where the last one ended is not shown.
StreamFrame ==
    /\ mode = "stream" /\ status = "running" /\ ~Done /\ sock # <<>>
    /\ LET f == Head(sock)
       IN  IF f.from # offset
           THEN status' = "failed" /\ UNCHANGED <<offset, screen>>
           ELSE /\ screen' = screen \o [i \in 1 .. f.to - f.from |-> f.from + i]
                /\ offset' = f.to
                /\ status' = IF f.exit THEN "exited" ELSE status
    /\ sock' = Tail(sock)
    /\ UNCHANGED <<life, outVars, rpc, then, conn, asked, sub, chan, outbuf,
                   closing, handoffs, fileVars, vpc, mode, buf, tries, after, draining>>

\* The host closed the connection, perhaps in the middle of a frame.
StreamClosed ==
    /\ mode = "stream" /\ status = "running" /\ ~Done /\ sock = <<>> /\ conn = "shut"
    /\ status' = "failed"
    /\ UNCHANGED <<hostVars, fileVars, vpc, mode, offset, screen, buf, tries, after, draining>>

\* The thread has returned or the process is gone: client_readable on the
\* host finds the end of the stream.
ClientGone ==
    /\ conn = "open" /\ rpc = "idle" /\ (status # "running" \/ Done)
    /\ CloseClient
    /\ UNCHANGED <<life, outVars, rpc, then, handoffs, fileVars, viewVars>>

-----------------------------------------------------------------------------
\* The main loop.

\* The loop notices the stream thread's status.
StreamStatus ==
    /\ vpc = "live" /\ mode = "stream" /\ status # "running"
    /\ IF status = "exited" THEN vpc' = "exited" /\ mode' = mode
                            ELSE vpc' = vpc /\ mode' = "file"
    /\ UNCHANGED <<hostVars, fileVars, status, offset, screen, buf, tries, after, draining>>

\* read_replay_tail: measure the file, choose an aligned start at or before
\* the last ReplayMax bytes ...
TailStat ==
    /\ vpc = "tail" /\ vpc' = "tailRead"
    /\ LET desired == IF jlen - ReplayMax > floor THEN jlen - ReplayMax ELSE floor
       IN  \E start \in floor .. desired :
              buf' = [from |-> start, bytes |-> [i \in 1 .. jlen - start |-> 0]]
    /\ UNCHANGED <<hostVars, fileVars, mode, status, offset, screen, tries, after, draining>>

\* ... read it (also the read of pump_new_output) ...
Sample == [buf EXCEPT !.bytes = FileBytes(buf.from, buf.from + Len(buf.bytes))]

TailRead ==
    /\ vpc = "tailRead" /\ vpc' = "tailCheck" /\ buf' = Sample
    /\ UNCHANGED <<hostVars, fileVars, mode, status, offset, screen, tries, after, draining>>

\* Mutant: the floor is not read again.
TailCheckOnce ==
    /\ vpc = "tailCheck" /\ vpc' = after
    /\ screen' = buf.bytes /\ offset' = buf.from + Len(buf.bytes)
    /\ buf' = NoSample
    /\ UNCHANGED <<hostVars, fileVars, mode, status, tries, after, draining>>

\* ... and show it on a reset terminal, unless the floor has passed the start
\* meanwhile: then try again, or in the end go on from the end of the file.
TailCheck ==
    /\ vpc = "tailCheck"
    /\ IF buf.from >= floor
       THEN /\ vpc' = after /\ tries' = tries
            /\ screen' = buf.bytes /\ offset' = buf.from + Len(buf.bytes)
       ELSE \/ tries > 0 /\ vpc' = "tail" /\ tries' = tries - 1 /\ UNCHANGED <<screen, offset>>
            \/ tries = 0 /\ vpc' = after /\ tries' = tries /\ screen' = <<>> /\ offset' = jlen
    /\ buf' = NoSample
    /\ UNCHANGED <<hostVars, fileVars, mode, status, after, draining>>

\* A cursor the floor has passed starts again with a replay.
Rebase == vpc' = "tail" /\ tries' = Retries /\ after' = "live" /\ buf' = NoSample

\* pump_new_output: measure the file ...
FileStat ==
    /\ vpc = "live" /\ mode = "file"
    /\ \/ offset < floor /\ Rebase
       \/ /\ floor <= offset /\ offset < jlen /\ vpc' = "fileRead"
          /\ buf' = [from |-> offset, bytes |-> [i \in 1 .. jlen - offset |-> 0]]
          /\ UNCHANGED <<tries, after>>
    /\ UNCHANGED <<hostVars, fileVars, mode, status, offset, screen, draining>>

FileRead ==
    /\ vpc = "fileRead" /\ vpc' = "fileCheck" /\ buf' = Sample
    /\ UNCHANGED <<hostVars, fileVars, mode, status, offset, screen, tries, after, draining>>

\* ... read, look at the floor again, show.
FileCheck ==
    /\ vpc = "fileCheck"
    /\ IF offset < floor
       THEN Rebase /\ UNCHANGED <<screen, offset>>
       ELSE /\ vpc' = "live" /\ buf' = NoSample
            /\ screen' = screen \o buf.bytes /\ offset' = offset + Len(buf.bytes)
            /\ UNCHANGED <<tries, after>>
    /\ UNCHANGED <<hostVars, fileVars, mode, status, draining>>

\* The manifest says exited: drain the file, or just stop while the stream
\* thread is in charge.
HostNotAlive ==
    /\ vpc = "live" /\ life = "exited" /\ ~draining
    /\ IF mode = "file" THEN draining' = TRUE /\ vpc' = vpc
                        ELSE vpc' = "banner" /\ draining' = draining
    /\ UNCHANGED <<hostVars, fileVars, mode, status, offset, screen, buf, tries, after>>

\* pump_new_output returns 0.
Drained ==
    /\ vpc = "live" /\ draining /\ floor <= offset /\ jlen <= offset
    /\ vpc' = "drained"
    /\ UNCHANGED <<hostVars, fileVars, mode, status, offset, screen, buf, tries, after, draining>>

StreamThread == StreamFrame \/ StreamClosed

Main ==
    \/ Snapshot \/ StartExited \/ SnapshotFails \/ Connect \/ StreamStatus
    \/ TailStat \/ TailRead \/ TailCheck \/ FileStat \/ FileRead \/ FileCheck
    \/ HostNotAlive \/ Drained

HostStep == Host /\ UNCHANGED viewVars

Next == HostStep \/ ClientGone \/ StreamThread \/ Main

Spec == Init /\ [][Next]_vars

-----------------------------------------------------------------------------
\* Properties

\* What is on the terminal is a run of consecutive output bytes that ends at
\* the client's offset: no gap, no byte twice, no NUL of a punched block,
\* whatever mixture of snapshot, stream, journal and rebase produced it.
ScreenExact ==
    \A i \in 1 .. Len(screen) : screen[i] = offset - Len(screen) + i /\ screen[i] > 0

\* A client that left because of the exit frame, or after its final drain,
\* has shown the last byte of the output; a Session that did not move between
\* cores has published everything it read.
EndedComplete ==
    /\ vpc \in {"exited", "drained"} => offset = next
    /\ life # "running" /\ handoffs = 0 => next = taken

\* A client that stops reading costs the host a bounded amount of memory: a
\* channel over the cap gets no more chunks.
BoundedClient == Bytes(chan) <= MaxBuffered + ReadMax + 1

\* The reactor, the journal writer and the client's two threads are scheduled;
\* nobody has to print, stall, exit or hand over.
Fairness ==
    /\ WF_vars(Reactor /\ UNCHANGED viewVars)
    /\ WF_vars(JournalStep /\ UNCHANGED viewVars)
    /\ WF_vars(StreamThread) /\ WF_vars(Main)

FairSpec == Spec /\ Fairness

\* Published output reaches the client while its Session stays in one core:
\* through the stream, or through the journal once the stream has failed.
CatchesUp == []<>(offset >= next \/ Done \/ handoffs > 0)
=============================================================================
