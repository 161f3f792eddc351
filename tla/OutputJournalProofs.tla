------------------------ MODULE OutputJournalProofs ------------------------
(***************************************************************************)
(* Proofs about OutputJournal for every value of its constants: the byte   *)
(* accounting, the backlog bound, that exits and committed handoffs leave  *)
(* a complete journal, and that it implements DurableOutput.               *)
(***************************************************************************)
EXTENDS OutputJournal, TLAPS

\* The channel holds exactly the bytes between the threads.
ChannelInv ==
    /\ written <= taken /\ taken <= sent
    /\ cuts \subseteq (taken + 1)..sent
    /\ taken < sent => sent \in cuts
    /\ rpc \in {"add", "send"} => chunk \in 1..ReadMax
    /\ Read <= produced

\* What the exit thread and the handoff rely on.
ExitInv ==
    /\ tpc # "none" <=> rpc = "ended"
    /\ closing # "none" => tpc # "none"
    /\ closing = "ok" => written = sent
    /\ tpc \in {"publish", "done"} /\ result = "ok" => closing = "ok"
    /\ manifest = "exited" => tpc = "done"
    /\ ~running => killed \/ tpc \in {"publish", "done"}
    /\ rpc = "drain" => ~running
    /\ rpc = "ended" /\ result = "ok" /\ ~killed => childGone /\ produced = sent
    /\ rpc = "flushing" /\ ack = "ok" => written = sent
    /\ rpc = "moved" => written = sent

\* A wake-up that may rest on an old count: queued, or about to be.
Queued == \E i \in 1..Len(control) : control[i] = "JournalDrained"
Stale == wpc = "notify" /\ remaining < Low
Crowded ==
    \/ Queued /\ Stale
    \/ \E i, j \in 1..Len(control) :
          i # j /\ control[i] = "JournalDrained" /\ control[j] = "JournalDrained"

Steady == running /\ ~childGone
Added == rpc \in {"send", "check", "pause"}

\* While the child lives and nobody stops it, reads happen only with the
\* interest on, and each wake-up lets at most one read past the high mark.
PressureInv ==
    Steady =>
      /\ rpc = "add" \/ Added => readInterest
      /\ Added \/ ~readInterest =>
            /\ backlog <= High + 2 * ReadMax
            /\ backlog > High + ReadMax => ~Queued /\ ~Stale
      /\ ~Added /\ readInterest =>
            /\ backlog <= High + ReadMax
            /\ backlog > High => ~Queued /\ ~Stale
      /\ Crowded =>
            /\ backlog < Low + ReadMax
            /\ rpc \in {"poll", "add"} => backlog < Low

IInv == TypeOK /\ ChannelInv /\ BacklogExact /\ ExitInv /\ PressureInv
-----------------------------------------------------------------------------
\* Every step keeps the types.
LEMMA TypeStep ==
    ASSUME TypeOK, [Next]_vars
    PROVE  TypeOK'
<1> USE JournalConstants DEF TypeOK, Messages, childVars, reactorVars, chanVars, writerVars, exitVars
<1>1. CASE ChildWrite
  BY <1>1 DEF ChildWrite
<1>2. CASE ChildExit
  BY <1>2 DEF ChildExit
<1>3. CASE Kill
  <2>1. childGone' \in BOOLEAN /\ running' \in BOOLEAN /\ killed' \in BOOLEAN
    BY <1>3, Zenon DEF Kill
  <2> QED
    BY <2>1, <1>3 DEF Kill
<1>4. CASE RequestHandoff
  BY <1>4 DEF RequestHandoff
<1>5. CASE ControlEmpty
  BY <1>5 DEF ControlEmpty
<1>6. CASE ControlWake
  BY <1>6 DEF ControlWake, Receive
<1>7. CASE ControlDrained
  BY <1>7 DEF ControlDrained, Receive
<1>8. CASE ControlFailed
  BY <1>8 DEF ControlFailed, EndSession, Receive
<1>9. CASE ControlHandoff
  BY <1>9 DEF ControlHandoff, Receive
<1>10. CASE HandoffFlushFails
  BY <1>10 DEF HandoffFlushFails
<1>11. CASE HandoffAbandoned
  <2>1. readInterest' \in BOOLEAN
    BY <1>11, Zenon DEF HandoffAbandoned
  <2> QED
    BY <2>1, <1>11 DEF HandoffAbandoned
<1>12. CASE HandoffCommitted
  BY <1>12 DEF HandoffCommitted
<1>13. CASE PollRead
  BY <1>13 DEF PollRead, PtyRead
<1>14. CASE PollEnd
  BY <1>14 DEF PollEnd, PtyEnd, EndSession
<1>15. CASE PollWake
  BY <1>15 DEF PollWake
<1>16. CASE IdleTick
  BY <1>16 DEF IdleTick
<1>17. CASE DrainRead
  BY <1>17 DEF DrainRead, PtyRead
<1>18. CASE DrainEnd
  BY <1>18 DEF DrainEnd, PtyEnd, EndSession
<1>19. CASE PublishAdd
  BY <1>19 DEF PublishAdd
<1>20. CASE PublishSend
  BY <1>20 DEF PublishSend
<1>21. CASE CheckBacklog
  BY <1>21 DEF CheckBacklog, AfterRead
<1>22. CASE PauseReads
  <2>1. paused' \in BOOLEAN /\ readInterest' \in BOOLEAN
    BY <1>22, Zenon DEF PauseReads, AfterRead
  <2> QED
    BY <2>1, <1>22 DEF PauseReads, AfterRead
<1>23. CASE WriterTake
  BY <1>23 DEF WriterTake
<1>24. CASE WriterNotify
  <2>1. error' \in BOOLEAN /\ paused' \in BOOLEAN
    BY <1>24, Zenon DEF WriterNotify, FlushTo
  <2> QED
    BY <2>1, <1>24 DEF WriterNotify, FlushTo
<1>25. CASE WriterFlushDue
  <2>1. error' \in BOOLEAN
    BY <1>25, Zenon DEF WriterFlushDue, FlushTo, Pending
  <2> QED
    BY <2>1, <1>25 DEF WriterFlushDue, FlushTo, Pending
<1>26. CASE WriterFlushAsked
  <2>1. error' \in BOOLEAN
    BY <1>26, Zenon DEF WriterFlushAsked, FlushTo
  <2> QED
    BY <2>1, <1>26 DEF WriterFlushAsked, FlushTo
<1>27. CASE WriterClose
  <2>1. error' \in BOOLEAN
    BY <1>27, Zenon DEF WriterClose, FlushTo
  <2> QED
    BY <2>1, <1>27 DEF WriterClose, FlushTo
<1>28. CASE ExitClose
  BY <1>28 DEF ExitClose
<1>29. CASE ExitClosed
  <2>1. running' \in BOOLEAN
    BY <1>29, Zenon DEF ExitClosed
  <2> QED
    BY <2>1, <1>29 DEF ExitClosed
<1>30. CASE ExitPublish
  BY <1>30 DEF ExitPublish
<1>31. CASE UNCHANGED vars
  BY <1>31 DEF vars
<1> QED
  BY Zenon, <1>1, <1>2, <1>3, <1>4, <1>5, <1>6, <1>7, <1>8, <1>9, <1>10, <1>11, <1>12, <1>13, <1>14, <1>15, <1>16, <1>17, <1>18, <1>19, <1>20, <1>21, <1>22, <1>23, <1>24, <1>25, <1>26, <1>27, <1>28, <1>29, <1>30, <1>31 DEF Next, Reactor, Writer, Exit

\* Every step keeps the channel consistent with the counters.
LEMMA ChannelStep ==
    ASSUME TypeOK, ChannelInv, [Next]_vars
    PROVE  ChannelInv'
<1> USE JournalConstants DEF TypeOK, ChannelInv, Read, Avail, childVars, reactorVars, chanVars, writerVars, exitVars
<1>1. CASE ChildWrite
  BY <1>1 DEF ChildWrite
<1>2. CASE ChildExit
  BY Zenon, <1>2 DEF ChildExit
<1>3. CASE Kill
  BY Zenon, <1>3 DEF Kill
<1>4. CASE RequestHandoff
  BY Zenon, <1>4 DEF RequestHandoff
<1>5. CASE ControlEmpty
  BY Zenon, <1>5 DEF ControlEmpty
<1>6. CASE ControlWake
  BY Zenon, <1>6 DEF ControlWake, Receive
<1>7. CASE ControlDrained
  BY Zenon, <1>7 DEF ControlDrained, Receive
<1>8. CASE ControlFailed
  BY Zenon, <1>8 DEF ControlFailed, EndSession, Receive
<1>9. CASE ControlHandoff
  BY Zenon, <1>9 DEF ControlHandoff, Receive
<1>10. CASE HandoffFlushFails
  BY Zenon, <1>10 DEF HandoffFlushFails
<1>11. CASE HandoffAbandoned
  BY Zenon, <1>11 DEF HandoffAbandoned
<1>12. CASE HandoffCommitted
  BY Zenon, <1>12 DEF HandoffCommitted
<1>13. CASE PollRead
  BY <1>13 DEF PollRead, PtyRead
<1>14. CASE PollEnd
  BY Zenon, <1>14 DEF PollEnd, PtyEnd, EndSession
<1>15. CASE PollWake
  BY Zenon, <1>15 DEF PollWake
<1>16. CASE IdleTick
  BY Zenon, <1>16 DEF IdleTick
<1>17. CASE DrainRead
  BY <1>17 DEF DrainRead, PtyRead
<1>18. CASE DrainEnd
  BY Zenon, <1>18 DEF DrainEnd, PtyEnd, EndSession
<1>19. CASE PublishAdd
  BY Zenon, <1>19 DEF PublishAdd
<1>20. CASE PublishSend
  BY <1>20 DEF PublishSend
<1>21. CASE CheckBacklog
  BY Zenon, <1>21 DEF CheckBacklog, AfterRead
<1>22. CASE PauseReads
  BY Zenon, <1>22 DEF PauseReads, AfterRead
<1>23. CASE WriterTake
  BY <1>23 DEF WriterTake
<1>24. CASE WriterNotify
  BY <1>24 DEF WriterNotify, FlushTo
<1>25. CASE WriterFlushDue
  BY <1>25 DEF WriterFlushDue, FlushTo, Pending
<1>26. CASE WriterFlushAsked
  BY <1>26 DEF WriterFlushAsked, FlushTo
<1>27. CASE WriterClose
  BY <1>27 DEF WriterClose, FlushTo
<1>28. CASE ExitClose
  BY Zenon, <1>28 DEF ExitClose
<1>29. CASE ExitClosed
  BY Zenon, <1>29 DEF ExitClosed
<1>30. CASE ExitPublish
  BY Zenon, <1>30 DEF ExitPublish
<1>31. CASE UNCHANGED vars
  BY Zenon, <1>31 DEF vars
<1> QED
  BY Zenon, <1>1, <1>2, <1>3, <1>4, <1>5, <1>6, <1>7, <1>8, <1>9, <1>10, <1>11, <1>12, <1>13, <1>14, <1>15, <1>16, <1>17, <1>18, <1>19, <1>20, <1>21, <1>22, <1>23, <1>24, <1>25, <1>26, <1>27, <1>28, <1>29, <1>30, <1>31 DEF Next, Reactor, Writer, Exit

\* Every step keeps the backlog equal to the bytes in the channel.
LEMMA BacklogStep ==
    ASSUME TypeOK, ChannelInv, BacklogExact, [Next]_vars
    PROVE  BacklogExact'
<1> USE JournalConstants DEF TypeOK, ChannelInv, BacklogExact, Read, Held, Avail, childVars, reactorVars, chanVars, writerVars, exitVars
<1>1. CASE ChildWrite
  BY Zenon, <1>1 DEF ChildWrite
<1>2. CASE ChildExit
  BY Zenon, <1>2 DEF ChildExit
<1>3. CASE Kill
  BY Zenon, <1>3 DEF Kill
<1>4. CASE RequestHandoff
  BY Zenon, <1>4 DEF RequestHandoff
<1>5. CASE ControlEmpty
  BY Zenon, <1>5 DEF ControlEmpty
<1>6. CASE ControlWake
  BY Zenon, <1>6 DEF ControlWake, Receive
<1>7. CASE ControlDrained
  BY Zenon, <1>7 DEF ControlDrained, Receive
<1>8. CASE ControlFailed
  BY Zenon, <1>8 DEF ControlFailed, EndSession, Receive
<1>9. CASE ControlHandoff
  BY Zenon, <1>9 DEF ControlHandoff, Receive
<1>10. CASE HandoffFlushFails
  BY Zenon, <1>10 DEF HandoffFlushFails
<1>11. CASE HandoffAbandoned
  BY Zenon, <1>11 DEF HandoffAbandoned
<1>12. CASE HandoffCommitted
  BY Zenon, <1>12 DEF HandoffCommitted
<1>13. CASE PollRead
  BY Zenon, <1>13 DEF PollRead, PtyRead
<1>14. CASE PollEnd
  BY Zenon, <1>14 DEF PollEnd, PtyEnd, EndSession
<1>15. CASE PollWake
  BY Zenon, <1>15 DEF PollWake
<1>16. CASE IdleTick
  BY Zenon, <1>16 DEF IdleTick
<1>17. CASE DrainRead
  BY Zenon, <1>17 DEF DrainRead, PtyRead
<1>18. CASE DrainEnd
  BY Zenon, <1>18 DEF DrainEnd, PtyEnd, EndSession
<1>19. CASE PublishAdd
  BY <1>19 DEF PublishAdd
<1>20. CASE PublishSend
  BY <1>20 DEF PublishSend
<1>21. CASE CheckBacklog
  BY Zenon, <1>21 DEF CheckBacklog, AfterRead
<1>22. CASE PauseReads
  BY Zenon, <1>22 DEF PauseReads, AfterRead
<1>23. CASE WriterTake
  BY <1>23 DEF WriterTake
<1>24. CASE WriterNotify
  BY Zenon, <1>24 DEF WriterNotify, FlushTo
<1>25. CASE WriterFlushDue
  BY Zenon, <1>25 DEF WriterFlushDue, FlushTo, Pending
<1>26. CASE WriterFlushAsked
  BY Zenon, <1>26 DEF WriterFlushAsked, FlushTo
<1>27. CASE WriterClose
  BY Zenon, <1>27 DEF WriterClose, FlushTo
<1>28. CASE ExitClose
  BY Zenon, <1>28 DEF ExitClose
<1>29. CASE ExitClosed
  BY Zenon, <1>29 DEF ExitClosed
<1>30. CASE ExitPublish
  BY Zenon, <1>30 DEF ExitPublish
<1>31. CASE UNCHANGED vars
  BY Zenon, <1>31 DEF vars
<1> QED
  BY Zenon, <1>1, <1>2, <1>3, <1>4, <1>5, <1>6, <1>7, <1>8, <1>9, <1>10, <1>11, <1>12, <1>13, <1>14, <1>15, <1>16, <1>17, <1>18, <1>19, <1>20, <1>21, <1>22, <1>23, <1>24, <1>25, <1>26, <1>27, <1>28, <1>29, <1>30, <1>31 DEF Next, Reactor, Writer, Exit

\* Every step keeps what the exit thread and the handoff rely on.
LEMMA ExitStep ==
    ASSUME TypeOK, ChannelInv, ExitInv, [Next]_vars
    PROVE  ExitInv'
<1> USE JournalConstants DEF TypeOK, ChannelInv, ExitInv, Read, Avail, Live, childVars, reactorVars, chanVars, writerVars, exitVars
<1>1. CASE ChildWrite
  BY Zenon, <1>1 DEF ChildWrite
<1>2. CASE ChildExit
  BY Zenon, <1>2 DEF ChildExit
<1>3. CASE Kill
  BY Zenon, <1>3 DEF Kill
<1>4. CASE RequestHandoff
  BY Zenon, <1>4 DEF RequestHandoff
<1>5. CASE ControlEmpty
  BY Zenon, <1>5 DEF ControlEmpty
<1>6. CASE ControlWake
  BY Zenon, <1>6 DEF ControlWake, Receive
<1>7. CASE ControlDrained
  BY Zenon, <1>7 DEF ControlDrained, Receive
<1>8. CASE ControlFailed
  BY Zenon, <1>8 DEF ControlFailed, EndSession, Receive
<1>9. CASE ControlHandoff
  BY Zenon, <1>9 DEF ControlHandoff, Receive
<1>10. CASE HandoffFlushFails
  BY Zenon, <1>10 DEF HandoffFlushFails
<1>11. CASE HandoffAbandoned
  BY Zenon, <1>11 DEF HandoffAbandoned
<1>12. CASE HandoffCommitted
  BY Zenon, <1>12 DEF HandoffCommitted
<1>13. CASE PollRead
  BY Zenon, <1>13 DEF PollRead, PtyRead
<1>14. CASE PollEnd
  BY <1>14 DEF PollEnd, PtyEnd, EndSession
<1>15. CASE PollWake
  BY Zenon, <1>15 DEF PollWake
<1>16. CASE IdleTick
  BY Zenon, <1>16 DEF IdleTick
<1>17. CASE DrainRead
  BY Zenon, <1>17 DEF DrainRead, PtyRead
<1>18. CASE DrainEnd
  BY Zenon, <1>18 DEF DrainEnd, PtyEnd, EndSession
<1>19. CASE PublishAdd
  BY Zenon, <1>19 DEF PublishAdd
<1>20. CASE PublishSend
  BY Zenon, <1>20 DEF PublishSend
<1>21. CASE CheckBacklog
  BY Zenon, <1>21 DEF CheckBacklog, AfterRead
<1>22. CASE PauseReads
  BY Zenon, <1>22 DEF PauseReads, AfterRead
<1>23. CASE WriterTake
  BY Zenon, <1>23 DEF WriterTake
<1>24. CASE WriterNotify
  BY <1>24 DEF WriterNotify, FlushTo
<1>25. CASE WriterFlushDue
  BY <1>25 DEF WriterFlushDue, FlushTo, Pending
<1>26. CASE WriterFlushAsked
  BY <1>26 DEF WriterFlushAsked, FlushTo
<1>27. CASE WriterClose
  BY <1>27 DEF WriterClose, FlushTo
<1>28. CASE ExitClose
  BY Zenon, <1>28 DEF ExitClose
<1>29. CASE ExitClosed
  BY Zenon, <1>29 DEF ExitClosed
<1>30. CASE ExitPublish
  BY Zenon, <1>30 DEF ExitPublish
<1>31. CASE UNCHANGED vars
  BY Zenon, <1>31 DEF vars
<1> QED
  BY Zenon, <1>1, <1>2, <1>3, <1>4, <1>5, <1>6, <1>7, <1>8, <1>9, <1>10, <1>11, <1>12, <1>13, <1>14, <1>15, <1>16, <1>17, <1>18, <1>19, <1>20, <1>21, <1>22, <1>23, <1>24, <1>25, <1>26, <1>27, <1>28, <1>29, <1>30, <1>31 DEF Next, Reactor, Writer, Exit

\* Every step keeps the backlog bound and what it rests on.
LEMMA PressureStep ==
    ASSUME TypeOK, ChannelInv, BacklogExact, ExitInv, PressureInv, [Next]_vars
    PROVE  PressureInv'
<1> USE JournalConstants DEF TypeOK, ChannelInv, BacklogExact, PressureInv, Steady, Added, Queued, Stale, Crowded, Read, Held, Avail, childVars, reactorVars, chanVars, writerVars, exitVars
<1>1. CASE ChildWrite
  BY <1>1 DEF ChildWrite
<1>2. CASE ChildExit
  BY Zenon, <1>2 DEF ChildExit
<1>3. CASE Kill
  BY Zenon, <1>3 DEF Kill
<1>4. CASE RequestHandoff
  BY <1>4 DEF RequestHandoff
<1>5. CASE ControlEmpty
  BY <1>5 DEF ControlEmpty
<1>6. CASE ControlWake
  BY <1>6 DEF ControlWake, Receive
<1>7. CASE ControlDrained
  BY <1>7 DEF ControlDrained, Receive
<1>8. CASE ControlFailed
  BY <1>8 DEF ControlFailed, EndSession, Receive
<1>9. CASE ControlHandoff
  BY <1>9 DEF ControlHandoff, Receive
<1>10. CASE HandoffFlushFails
  BY <1>10 DEF HandoffFlushFails
<1>11. CASE HandoffAbandoned
  <2>1. backlog = 0
    BY <1>11 DEF HandoffAbandoned, ExitInv
  <2>2. backlog' = 0 /\ running' = running /\ childGone' = childGone
    BY Zenon, <1>11, <2>1 DEF HandoffAbandoned
  <2>3. control' = control /\ wpc' = wpc /\ remaining' = remaining /\ rpc' = "control"
    BY Zenon, <1>11 DEF HandoffAbandoned
  <2> QED
    BY <2>2, <2>3
<1>12. CASE HandoffCommitted
  BY <1>12 DEF HandoffCommitted
<1>13. CASE PollRead
  BY <1>13 DEF PollRead, PtyRead
<1>14. CASE PollEnd
  BY Zenon, <1>14 DEF PollEnd, PtyEnd, EndSession
<1>15. CASE PollWake
  BY <1>15 DEF PollWake
<1>16. CASE IdleTick
  BY Zenon, <1>16 DEF IdleTick
<1>17. CASE DrainRead
  BY Zenon, <1>17 DEF DrainRead, PtyRead, ExitInv
<1>18. CASE DrainEnd
  BY Zenon, <1>18 DEF DrainEnd, PtyEnd, EndSession
<1>19. CASE PublishAdd
  BY <1>19 DEF PublishAdd
<1>20. CASE PublishSend
  BY <1>20 DEF PublishSend
<1>21. CASE CheckBacklog
  BY <1>21 DEF CheckBacklog, AfterRead
<1>22. CASE PauseReads
  BY <1>22 DEF PauseReads, AfterRead
<1>23. CASE WriterTake
  BY <1>23 DEF WriterTake
<1>24. CASE WriterNotify
  BY <1>24 DEF WriterNotify, FlushTo
<1>25. CASE WriterFlushDue
  BY <1>25 DEF WriterFlushDue, FlushTo, Pending
<1>26. CASE WriterFlushAsked
  BY <1>26 DEF WriterFlushAsked, FlushTo
<1>27. CASE WriterClose
  BY <1>27 DEF WriterClose, FlushTo
<1>28. CASE ExitClose
  BY <1>28 DEF ExitClose
<1>29. CASE ExitClosed
  BY Zenon, <1>29 DEF ExitClosed
<1>30. CASE ExitPublish
  BY Zenon, <1>30 DEF ExitPublish
<1>31. CASE UNCHANGED vars
  BY <1>31 DEF vars
<1> QED
  BY Zenon, <1>1, <1>2, <1>3, <1>4, <1>5, <1>6, <1>7, <1>8, <1>9, <1>10, <1>11, <1>12, <1>13, <1>14, <1>15, <1>16, <1>17, <1>18, <1>19, <1>20, <1>21, <1>22, <1>23, <1>24, <1>25, <1>26, <1>27, <1>28, <1>29, <1>30, <1>31 DEF Next, Reactor, Writer, Exit

\* The invariant holds initially and every step keeps it.
LEMMA IInvHolds == Spec => []IInv
<1>1. Init => IInv
  <2> USE JournalConstants DEF Init
  <2>1. Init => TypeOK
    <3> SUFFICES ASSUME Init PROVE TypeOK
      BY Zenon
    <3>1. /\ childGone \in BOOLEAN /\ running \in BOOLEAN /\ killed \in BOOLEAN
          /\ readInterest \in BOOLEAN /\ paused \in BOOLEAN /\ error \in BOOLEAN
      BY Zenon
    <3>2. control \in Seq(Messages)
      OBVIOUS
    <3> QED
      BY <3>1, <3>2 DEF TypeOK
  <2>2. Init => ChannelInv
    BY DEF ChannelInv, Read
  <2>3. Init => BacklogExact
    BY DEF BacklogExact, Held
  <2>4. Init => ExitInv
    BY Zenon DEF ExitInv
  <2>5. Init => PressureInv
    BY DEF PressureInv, Steady, Added, Queued, Stale, Crowded
  <2> QED
    BY Zenon, <2>1, <2>2, <2>3, <2>4, <2>5 DEF IInv
<1>2. IInv /\ [Next]_vars => IInv'
  BY Zenon, TypeStep, ChannelStep, BacklogStep, ExitStep, PressureStep DEF IInv
<1> QED
  BY <1>1, <1>2, PTL DEF Spec

\* Types are kept for ever (all the state of OutputJournal).
THEOREM TypeCorrect == Spec => []TypeOK
<1>1. IInv => TypeOK
  BY Zenon DEF IInv
<1> QED
  BY <1>1, IInvHolds, PTL

\* The atomic byte counter of JournalBackpressure is exact in every state, so
\* the writer's fetch_sub cannot wrap: reactor and writer agree on what is
\* in flight between them.
THEOREM BacklogIsExact == Spec => [](BacklogExact /\ backlog >= 0)
<1>1. IInv => BacklogExact /\ backlog >= 0
  BY DEF IInv, BacklogExact, ChannelInv, TypeOK, Held
<1> QED
  BY <1>1, IInvHolds, PTL

\* Backpressure bounds the memory a running Session pins behind a slow disk,
\* whatever the sizes of reads and marks and however the threads interleave
\* (apply_journal_backpressure, journal_drained).
THEOREM BacklogIsBounded == Spec => []BoundedBacklog
<1>1. IInv => BoundedBacklog
  BY JournalConstants DEF IInv, BoundedBacklog, PressureInv, Steady, Added, TypeOK
<1> QED
  BY <1>1, IInvHolds, PTL

\* SessionTeardown::run publishes Exited with a clean outcome only beside a
\* journal that holds everything read from the PTY, and, when no Kill cut it
\* short, everything the child wrote.
THEOREM ExitIsComplete == Spec => [](ExitedJournalComplete /\ ExitedAfterEof)
<1>1. IInv => ExitedJournalComplete /\ ExitedAfterEof
  BY Zenon DEF IInv, ExitedJournalComplete, ExitedAfterEof, ExitInv
<1> QED
  BY <1>1, IInvHolds, PTL

\* A committed handoff leaves the new core a journal with every byte this
\* core sent (Reactor::handoff flushes before it exports).
THEOREM HandoffIsComplete == Spec => []MovedJournalComplete
<1>1. IInv => MovedJournalComplete
  BY DEF IInv, MovedJournalComplete, ExitInv, ChannelInv, BacklogExact, Held, TypeOK
<1> QED
  BY <1>1, IInvHolds, PTL
-----------------------------------------------------------------------------
\* OutputJournal implements DurableOutput.

\* The child is reaped before its exit is published.
GoneInv == childGone \in BOOLEAN /\ (manifest = "exited" => childGone)

DStep == [Durable!DurableNext]_(Durable!durableVars)

LEMMA GoneHolds == Spec => []GoneInv
<1>1. Init => GoneInv
  BY Zenon DEF Init, GoneInv
<1>2. ASSUME GoneInv, [Next]_vars PROVE GoneInv'
  <2>1. CASE Kill \/ ChildExit \/ ExitPublish
    BY <1>2, <2>1, Zenon DEF Kill, ChildExit, ExitPublish, GoneInv, exitVars
  <2>2. CASE ~(Kill \/ ChildExit \/ ExitPublish)
    <3>1. UNCHANGED <<childGone, manifest>>
      BY <1>2, <2>2, Zenon DEF Next, ChildWrite, RequestHandoff, Reactor, Writer, Exit,
         ControlEmpty, ControlWake, ControlDrained, ControlFailed, ControlHandoff,
         HandoffFlushFails, HandoffAbandoned, HandoffCommitted, PollRead, PollEnd, PollWake,
         IdleTick, DrainRead, DrainEnd, PublishAdd, PublishSend, CheckBacklog, PauseReads,
         PtyRead, PtyEnd, EndSession, WriterTake, WriterNotify, WriterFlushDue,
         WriterFlushAsked, WriterClose, ExitClose, ExitClosed, vars, childVars, exitVars
    <3> QED
      BY <1>2, <3>1, Zenon DEF GoneInv
  <2> QED
    BY Zenon, <2>1, <2>2
<1> QED
  BY <1>1, <1>2, PTL DEF Spec

LEMMA HiddenStep ==
    ASSUME UNCHANGED <<produced, written, manifest, killed>>,
           manifest = "exited" => result' = result, rpc' = "moved" <=> rpc = "moved"
    PROVE  DStep
  BY Zenon DEF DStep, Durable!durableVars

\* A flush moves the journal forward within what the child wrote, and moves
\* nothing when the Session is gone in good order.
LEMMA FlushMaps ==
    ASSUME IInv, FlushTo(taken), UNCHANGED <<produced, rpc, manifest, result, killed>>
    PROVE  DStep
<1>1. CASE written' = written
  BY Zenon, <1>1, HiddenStep
<1>2. CASE written' # written
  <2>1. written' = taken /\ written < taken /\ taken <= produced /\ taken \in Nat
    BY <1>2 DEF FlushTo, IInv, ChannelInv, TypeOK, Read
  <2>2. rpc # "moved" /\ (manifest = "exited" => result = "err")
    BY <2>1 DEF IInv, ExitInv, ChannelInv, TypeOK
  <2>3. Durable!Write
    BY <2>1, <2>2 DEF Durable!Write, IInv, TypeOK
  <2> QED
    BY Zenon, <2>3 DEF DStep, Durable!DurableNext
<1> QED
  BY Zenon, <1>1, <1>2

LEMMA WriterMaps == ASSUME IInv, Writer PROVE DStep
<1>1. /\ FlushTo(taken) \/ UNCHANGED written
      /\ UNCHANGED <<produced, rpc, manifest, result, killed>>
  BY Zenon DEF Writer, WriterTake, WriterNotify, WriterFlushDue, WriterFlushAsked, WriterClose,
     childVars, reactorVars, exitVars
<1> QED
  BY Zenon, <1>1, FlushMaps, HiddenStep

\* Of the reactor's steps only a committed handoff shows.
LEMMA ReactorMaps == ASSUME IInv, Reactor PROVE DStep
<1>1. manifest = "running" /\ rpc \notin {"ended", "moved"}
  BY Zenon DEF Reactor, ControlEmpty, ControlWake, ControlDrained, ControlFailed, ControlHandoff,
     HandoffFlushFails, HandoffAbandoned, HandoffCommitted, PollRead, PollEnd, PollWake,
     IdleTick, DrainRead, DrainEnd, PublishAdd, PublishSend, CheckBacklog, PauseReads,
     Receive, IInv, ExitInv, TypeOK
<1>2. CASE HandoffCommitted
  <2>1. Durable!Move
    BY Zenon, <1>1, <1>2 DEF HandoffCommitted, childVars, writerVars, exitVars, Durable!Move
  <2> QED
    BY Zenon, <2>1 DEF DStep, Durable!DurableNext
<1>3. CASE ~HandoffCommitted
  <2>1. rpc' # "moved" /\ UNCHANGED <<produced, written, manifest, killed>>
    BY Zenon, <1>1, <1>3 DEF Reactor, ControlEmpty, ControlWake, ControlDrained, ControlFailed,
       ControlHandoff, HandoffFlushFails, HandoffAbandoned, PollRead, PollEnd, PollWake,
       IdleTick, DrainRead, DrainEnd, PublishAdd, PublishSend, CheckBacklog, PauseReads,
       PtyRead, PtyEnd, EndSession, Receive, AfterRead, childVars, writerVars, exitVars
  <2> QED
    BY Zenon, <1>1, <2>1, HiddenStep
<1> QED
  BY Zenon, <1>2, <1>3

LEMMA ExitMaps == ASSUME IInv, Exit PROVE DStep
<1>1. rpc = "ended"
  BY Zenon DEF Exit, ExitClose, ExitClosed, ExitPublish, IInv, ExitInv
<1>2. CASE ExitClose \/ ExitClosed
  <2>1. manifest # "exited"
    BY Zenon, <1>2 DEF ExitClose, ExitClosed, IInv, ExitInv
  <2> QED
    BY Zenon, <1>2, <2>1, HiddenStep DEF ExitClose, ExitClosed, childVars, reactorVars, writerVars,
       exitVars
<1>3. CASE ExitPublish
  <2>1. manifest = "running" /\ result \in {"ok", "err"}
    BY Zenon, <1>3 DEF ExitPublish, IInv, ExitInv, TypeOK
  <2>2. result = "ok" /\ ~killed => written = produced
    BY Zenon, <1>1, <1>3 DEF ExitPublish, IInv, ExitInv
  <2>3. Durable!Exited(result)
    BY Zenon, <1>1, <1>3, <2>1, <2>2 DEF ExitPublish, writerVars, reactorVars, Durable!Exited
  <2> QED
    BY Zenon, <2>1, <2>3 DEF DStep, Durable!DurableNext
<1> QED
  BY Zenon, <1>2, <1>3 DEF Exit

\* The child and the command threads.
LEMMA ChildMaps ==
    ASSUME IInv, GoneInv, ChildWrite \/ ChildExit \/ Kill \/ RequestHandoff PROVE DStep
<1>1. CASE ChildWrite
  <2>1. manifest # "exited"
    BY <1>1, Zenon DEF ChildWrite, GoneInv
  <2>2. Durable!Produce
    BY Zenon, <1>1, <2>1 DEF ChildWrite, reactorVars, writerVars, exitVars, Durable!Produce
  <2> QED
    BY Zenon, <2>2 DEF DStep, Durable!DurableNext
<1>2. CASE Kill
  <2>1. Durable!Stop
    BY Zenon, <1>2 DEF Kill, writerVars, exitVars, Durable!Stop
  <2> QED
    BY Zenon, <2>1 DEF DStep, Durable!DurableNext
<1>3. CASE ChildExit \/ RequestHandoff
  BY Zenon, <1>3, HiddenStep DEF ChildExit, RequestHandoff, childVars, reactorVars, writerVars,
     exitVars
<1> QED
  BY Zenon, <1>1, <1>2, <1>3

\* The threads of a core implement the durable journal, whatever the sizes of
\* reads, batches and marks and however they interleave (publish_chunk,
\* run_journal_writer, SessionTeardown::run, Reactor::handoff).
THEOREM JournalIsDurable == Spec => ImplementsDurable
<1>1. Init => Durable!DurableInit
  BY Zenon DEF Init, Durable!DurableInit
<1>2. IInv /\ GoneInv /\ [Next]_vars => [Durable!DurableNext]_(Durable!durableVars)
  <2> SUFFICES ASSUME IInv, GoneInv, [Next]_vars PROVE DStep
    BY Zenon DEF DStep
  <2>1. CASE UNCHANGED vars
    BY Zenon, <2>1, HiddenStep DEF vars, childVars, reactorVars, writerVars, exitVars
  <2>2. CASE Next
    BY Zenon, <2>2, ChildMaps, ReactorMaps, WriterMaps, ExitMaps DEF Next
  <2> QED
    BY Zenon, <2>1, <2>2
<1> QED
  BY <1>1, <1>2, IInvHolds, GoneHolds, PTL DEF Spec, ImplementsDurable, Durable!DurableSpec
=============================================================================
