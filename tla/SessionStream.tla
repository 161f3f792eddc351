--------------------------- MODULE SessionStream ---------------------------
(***************************************************************************)
(* The live output of one hosted Session: the reactor feeds the viewport,  *)
(* broadcasts each chunk to the subscriber's channel (OutputBroadcaster),  *)
(* and pumps the channel into the client's outbuf and socket.  A handoff   *)
(* rebuilds all of it in another core.  One streaming client is modelled;  *)
(* clients do not affect one another.                                      *)
(*                                                                         *)
(* A chunk or frame is an interval of the output.  The client end of the   *)
(* connection is in AttachClient.                                          *)
(***************************************************************************)
EXTENDS JournalFile, SequencesExt

CONSTANTS
    ReadMax,      \* most bytes one read of the PTY publishes
    Recent,       \* SESSION_OUTPUT_STREAM_RECENT_BYTES
    MaxBuffered,  \* SESSION_OUTPUT_STREAM_SUBSCRIBER_MAX_BUFFERED_BYTES
    Batch,        \* SESSION_OUTPUT_STREAM_BATCH_MAX_BYTES
    SockMax,      \* frames the socket buffers
    MaxOut,       \* bound: bytes the program prints
    MaxHandoffs   \* bound: handoff attempts

ASSUME StreamConstants ==
    /\ {ReadMax, Batch, SockMax} \subseteq Nat \ {0}
    /\ {Recent, MaxBuffered, MaxOut, MaxHandoffs} \subseteq Nat
    /\ Recent <= MaxBuffered  \* subscribe's replay of the ring is never cut short

VARIABLES
    life,       \* "running", "ended" (finish has run), "exited" (manifest)
    taken,      \* output bytes read from the PTY
    held,       \* the last of them still in OutputQueryScanner
    fed,        \* TerminalViewportState.output_offset
    next,       \* OutputBroadcaster.next_offset
    ring,       \* OutputBroadcaster.recent
    rpc, then,  \* where the reactor is, what follows a flush of the clients
    conn,       \* the connection: "none", "sent", "open", "shut" by the host
    asked,      \* offset in the StreamOutput request
    sub,        \* the client is in OutputBroadcaster.subscribers
    chan,       \* the subscriber's channel
    outbuf,     \* frames not yet taken by the socket
    closing,    \* the exit frame is in outbuf
    sock,       \* frames in the socket
    handoffs    \* handoff attempts so far

outVars  == <<taken, held, fed, next, ring>>
connVars == <<conn, asked, sub, chan, outbuf, closing, sock>>
hostVars == <<life, outVars, rpc, then, connVars, handoffs>>

Chunk(a, b) == [from |-> a, to |-> b, exit |-> FALSE]
Exit(n)     == [from |-> n, to |-> n, exit |-> TRUE]

Bytes(s) == FoldSeq(LAMBDA c, sum : c.to - c.from + sum, 0, s)

Chunks == [from : 0 .. MaxOut, to : 0 .. MaxOut, exit : BOOLEAN]

StreamInit ==
    /\ life = "running" /\ rpc = "idle" /\ then = "idle"
    /\ taken = 0 /\ held = 0 /\ fed = 0 /\ next = 0 /\ ring = <<>>
    /\ conn = "none" /\ asked = 0 /\ sub = FALSE /\ chan = <<>>
    /\ outbuf = <<>> /\ closing = FALSE /\ sock = <<>> /\ handoffs = 0

StreamTypeOK ==
    /\ life \in {"running", "ended", "exited"}
    /\ {taken, fed, next, asked} \subseteq 0 .. MaxOut /\ held \in 0 .. 1
    /\ {ring, chan, outbuf, sock} \subseteq Seq(Chunks)
    /\ rpc \in {"idle", "broadcast", "flush", "pull", "pulled", "close", "handoff"}
    /\ then \in {"idle", "close", "handoff"}
    /\ conn \in {"none", "sent", "open", "shut"}
    /\ sub \in BOOLEAN /\ closing \in BOOLEAN /\ handoffs \in 0 .. MaxHandoffs

-----------------------------------------------------------------------------
\* The broadcaster.

\* broadcast_chunk drops whole chunks until the ring fits.
Trim(r) ==
    CHOOSE s \in {SubSeq(r, i, Len(r)) : i \in 1 .. Len(r) + 1} :
       /\ Bytes(s) <= Recent
       /\ \A i \in 1 .. Len(r) + 1 :
             Bytes(SubSeq(r, i, Len(r))) <= Recent => Len(SubSeq(r, i, Len(r))) <= Len(s)

\* enqueue_output_chunk: FALSE when the client is too far behind.
Accepts(c) == Bytes(c) <= MaxBuffered

Oldest == IF ring = <<>> THEN next ELSE Head(ring).from

\* subscribe's replay of the ring from an offset.
Replay(offset) ==
    LET later == SelectSeq(ring, LAMBDA c : c.to > offset)
    IN  [i \in DOMAIN later |->
            [later[i] EXCEPT !.from = IF later[i].from < offset THEN offset ELSE later[i].from]]

-----------------------------------------------------------------------------
\* The reactor reads the PTY.

\* pty_readable and process_pty_bytes up to the viewport's lock: the query
\* scanner may keep the last byte, and gives out the one it kept.
PtyRead ==
    /\ life = "running" /\ rpc = "idle"
    /\ \E n \in 1 .. ReadMax, keep \in 0 .. 1 :
          /\ taken + n <= MaxOut
          /\ taken' = taken + n /\ held' = keep
          /\ fed' = fed + held + n - keep
          /\ rpc' = IF fed' = fed THEN "idle" ELSE "broadcast"
    /\ UNCHANGED <<life, next, ring, then, connVars, handoffs, fileVars>>

\* Mutant: the backlog is not looked at.
BroadcastUncapped ==
    /\ rpc = "broadcast"
    /\ next' = fed
    /\ ring' = Trim(Append(ring, Chunk(next, fed)))
    /\ chan' = (IF sub THEN Append(chan, Chunk(next, fed)) ELSE chan) /\ sub' = sub
    /\ rpc' = (IF conn = "open" THEN "flush" ELSE "idle") /\ then' = "idle"
    /\ UNCHANGED <<life, taken, held, fed, conn, asked, outbuf, closing, sock,
                   handoffs, fileVars>>

\* publish_chunk after the viewport: the ring and the subscriber get the
\* chunk; the pass ends with flush_stream_clients.
Broadcast ==
    /\ rpc = "broadcast"
    /\ next' = fed
    /\ ring' = Trim(Append(ring, Chunk(next, fed)))
    /\ IF sub /\ Accepts(chan) THEN chan' = Append(chan, Chunk(next, fed)) /\ sub' = sub
                               ELSE chan' = chan /\ sub' = FALSE
    /\ rpc' = (IF conn = "open" THEN "flush" ELSE "idle") /\ then' = "idle"
    /\ UNCHANGED <<life, taken, held, fed, conn, asked, outbuf, closing, sock,
                   handoffs, fileVars>>

\* release_idle_buffers: nobody is subscribed and the Session is quiet.
IdleRelease ==
    /\ life = "running" /\ rpc = "idle" /\ ~sub /\ ring # <<>>
    /\ ring' = <<>>
    /\ UNCHANGED <<life, taken, held, fed, next, rpc, then, connVars, handoffs, fileVars>>

-----------------------------------------------------------------------------
\* The reactor serves the client.

\* close_client: the channel and the unsent frames go, the frames the socket
\* took can still be read.
CloseClient ==
    /\ conn' = "shut" /\ sub' = FALSE /\ chan' = <<>> /\ outbuf' = <<>>
    /\ closing' = FALSE
    /\ UNCHANGED <<asked, sock>>

\* What the caller of flush_stream_clients goes on to.
Continue == rpc' = then /\ then' = "idle"

\* Mutant: the replayed ring waits in the channel for the next output.
HandshakeNoPump ==
    /\ conn = "sent" /\ rpc = "idle"
    /\ IF life = "running" /\ Oldest <= asked /\ asked <= next
       THEN /\ conn' = "open" /\ sub' = TRUE /\ chan' = Replay(asked)
            /\ UNCHANGED <<asked, outbuf, closing, sock>>
       ELSE CloseClient
    /\ UNCHANGED <<life, outVars, rpc, then, handoffs, fileVars>>

\* client_handshake, StreamOutput: subscribe, or close without a frame when
\* the ring does not reach back to the offset.
Handshake ==
    /\ conn = "sent" /\ rpc = "idle"
    /\ IF life = "running" /\ Oldest <= asked /\ asked <= next
       THEN /\ conn' = "open" /\ sub' = TRUE /\ chan' = Replay(asked)
            /\ rpc' = "flush" /\ UNCHANGED <<asked, outbuf, closing, sock>>
       ELSE CloseClient /\ rpc' = rpc
    /\ UNCHANGED <<life, outVars, then, handoffs, fileVars>>

\* client_writable: the poller reports room in the socket.
Writable ==
    /\ conn = "open" /\ rpc = "idle" /\ outbuf # <<>> /\ Len(sock) < SockMax
    /\ rpc' = "flush"
    /\ UNCHANGED <<life, outVars, then, connVars, handoffs, fileVars>>

\* flush_client_outbuf, one frame; a frame stands for all its partial writes.
FlushFrame ==
    /\ rpc = "flush" /\ outbuf # <<>> /\ Len(sock) < SockMax
    /\ sock' = Append(sock, Head(outbuf)) /\ outbuf' = Tail(outbuf)
    /\ UNCHANGED <<life, outVars, rpc, then, conn, asked, sub, chan, closing,
                   handoffs, fileVars>>

\* The socket is full: pump_stream_client returns, or the stall timeout has
\* passed and the client is dropped.
FlushBlocked ==
    /\ rpc = "flush" /\ outbuf # <<>> /\ Len(sock) = SockMax
    /\ CloseClient \/ UNCHANGED connVars
    /\ Continue
    /\ UNCHANGED <<life, outVars, handoffs, fileVars>>

\* sweep_stalled_clients, from the idle tick.
SweepStalled ==
    /\ conn = "open" /\ rpc = "idle" /\ outbuf # <<>>
    /\ CloseClient
    /\ UNCHANGED <<life, outVars, rpc, then, handoffs, fileVars>>

\* All frames are out: with the exit frame the client is done.
FlushedAll ==
    /\ rpc = "flush" /\ outbuf = <<>>
    /\ IF closing THEN CloseClient /\ Continue
                  ELSE rpc' = "pull" /\ UNCHANGED <<then, connVars>>
    /\ UNCHANGED <<life, outVars, handoffs, fileVars>>

\* can_merge_output_stream_chunk
CanMerge(f, c) ==
    ~f.exit /\ ~c.exit /\ f.to = c.from /\ c.to - f.from <= Batch

\* The frames of a pull without `pending`, the last one if it can still grow.
Framed(q) ==
    IF q # <<>> /\ ~Last(q).exit /\ Last(q).to - Last(q).from < Batch THEN Front(q) ELSE q

\* One turn of the inner loop of pump_stream_client.  It stops at the exit
\* frame, and when a chunk that was not merged finds four batches waiting.
PullChunk ==
    /\ rpc = "pull" /\ chan # <<>>
    /\ LET c      == Head(chan)
           merge  == outbuf # <<>> /\ CanMerge(Last(outbuf), c)
           frames == IF merge THEN Append(Front(outbuf), Chunk(Last(outbuf).from, c.to))
                              ELSE Append(outbuf, c)
           full   == ~merge /\ Bytes(Framed(frames)) >= 4 * Batch
       IN  /\ outbuf' = frames /\ closing' = c.exit
           /\ rpc' = IF c.exit \/ full THEN "pulled" ELSE "pull"
    /\ chan' = Tail(chan)
    /\ UNCHANGED <<life, outVars, then, conn, asked, sub, sock, handoffs, fileVars>>

\* The loop has ended.  A loop that found the channel of an evicted subscriber
\* empty writes what fits and closes the client; others go on to write.
PullDone ==
    /\ rpc = "pulled" \/ (rpc = "pull" /\ chan = <<>>)
    /\ LET disconnected == rpc = "pull" /\ ~sub
           room == SockMax - Len(sock)
       IN  \/ /\ disconnected
              /\ conn' = "shut" /\ chan' = <<>> /\ outbuf' = <<>>
              /\ sock' = sock \o SubSeq(outbuf, 1, IF room < Len(outbuf) THEN room ELSE Len(outbuf))
              /\ Continue /\ UNCHANGED <<asked, sub, closing>>
           \/ ~disconnected /\ outbuf = <<>> /\ Continue /\ UNCHANGED connVars
           \/ ~disconnected /\ outbuf # <<>> /\ rpc' = "flush" /\ UNCHANGED <<then, connVars>>
    /\ UNCHANGED <<life, outVars, handoffs, fileVars>>

-----------------------------------------------------------------------------
\* The Session ends.

\* Mutant: the byte the scanner held is forgotten.
FinishForgets ==
    /\ life = "running" /\ rpc = "idle"
    /\ life' = "ended" /\ held' = 0
    /\ chan' = IF sub /\ Accepts(chan) THEN Append(chan, Exit(fed)) ELSE chan
    /\ sub' = FALSE
    /\ IF conn = "open" THEN rpc' = "flush" /\ then' = "close"
                        ELSE rpc' = "idle" /\ then' = "idle"
    /\ UNCHANGED <<taken, fed, next, ring, conn, asked, outbuf, closing, sock,
                   handoffs, fileVars>>

\* end_session and finish up to the last flush: the byte the scanner held is
\* published, the exit is broadcast, nobody is subscribed any more.
Finish ==
    /\ life = "running" /\ rpc = "idle"
    /\ life' = "ended" /\ held' = 0
    /\ fed' = fed + held /\ next' = fed'
    /\ LET last  == IF held = 0 THEN <<>> ELSE <<Chunk(fed, fed + held)>>
           first == IF sub /\ Accepts(chan) THEN chan \o last ELSE chan
           keep  == sub /\ Accepts(chan) /\ Accepts(first)
       IN  /\ ring' = IF last = <<>> THEN ring ELSE Trim(ring \o last)
           /\ chan' = IF keep THEN Append(first, Exit(fed + held)) ELSE first
    /\ sub' = FALSE
    /\ IF conn = "open" THEN rpc' = "flush" /\ then' = "close"
                        ELSE rpc' = "idle" /\ then' = "idle"
    /\ UNCHANGED <<taken, conn, asked, outbuf, closing, sock, handoffs, fileVars>>

\* finish closes the clients that are left.
FinishClose ==
    /\ rpc = "close" /\ rpc' = "idle"
    /\ IF conn = "open" THEN CloseClient ELSE UNCHANGED connVars
    /\ UNCHANGED <<life, outVars, then, handoffs, fileVars>>

\* SessionTeardown::run: the journal is complete before the manifest says so.
ManifestExited ==
    /\ life = "ended" /\ rpc = "idle"
    /\ jlen = next /\ wpc = "write"
    /\ life' = "exited"
    /\ UNCHANGED <<outVars, rpc, then, connVars, handoffs, fileVars>>

-----------------------------------------------------------------------------
\* The Session moves to another core.

\* Reactor::handoff and export_handoff: the journal is flushed, the clients
\* are flushed as far as their sockets accept.
HandoffExport ==
    /\ life = "running" /\ rpc = "idle" /\ handoffs < MaxHandoffs
    /\ jlen = next /\ wpc = "write"
    /\ handoffs' = handoffs + 1
    /\ IF conn = "open" THEN rpc' = "flush" /\ then' = "handoff"
                        ELSE rpc' = "handoff" /\ then' = "idle"
    /\ UNCHANGED <<life, outVars, connVars, fileVars>>

\* resume_after_handoff: the old core carries on.
HandoffAbandoned ==
    /\ rpc = "handoff" /\ rpc' = "idle"
    /\ UNCHANGED <<life, outVars, then, connVars, handoffs, fileVars>>

\* The new core runs rebuild_from_handoff and adopt_client: a new ring, a new
\* scanner, a new channel that starts at next; outbuf comes along.
HandoffCommitted ==
    /\ rpc = "handoff" /\ rpc' = "idle"
    /\ ring' = <<>> /\ held' = 0
    /\ IF conn = "open" THEN sub' = TRUE /\ chan' = <<>> ELSE UNCHANGED <<sub, chan>>
    /\ Reopen
    /\ UNCHANGED <<life, taken, fed, next, then, conn, asked, outbuf, closing, sock, handoffs>>

\* The journal writer's steps, and the worker's compaction once exited.
JournalStep ==
    /\ \/ /\ life # "exited" /\ jlen < next
          /\ \E n \in 1 .. next - jlen : AppendJournal(n)
       \/ life # "exited" /\ RetentionPublish
       \/ life = "exited" /\ CompactPublish
       \/ Punch \/ PunchFails
    /\ UNCHANGED hostVars

Reactor ==
    \/ Broadcast \/ Handshake \/ Writable \/ FlushFrame \/ FlushBlocked
    \/ FlushedAll \/ PullChunk \/ PullDone \/ FinishClose \/ ManifestExited
    \/ HandoffAbandoned \/ HandoffCommitted

Host ==
    \/ PtyRead \/ IdleRelease \/ SweepStalled \/ Finish \/ HandoffExport
    \/ Reactor \/ JournalStep
=============================================================================
