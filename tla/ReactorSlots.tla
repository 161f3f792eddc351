---------------------------- MODULE ReactorSlots ---------------------------
(***************************************************************************)
(* The reactor of one PTY core and what addresses its Sessions by slot: a  *)
(* slot is given out at registration and again as soon as its Session      *)
(* ends, while the teardown thread, the journal writer, a Kill and the     *)
(* timer thread still hold the number.                                     *)
(*                                                                         *)
(* The bytes of a Session are in OutputJournal, the protocol between cores *)
(* is in PtyCore; here a handoff is what Reactor::handoff does to slots    *)
(* and timer jobs.                                                         *)
(***************************************************************************)
EXTENDS Integers, Sequences

CONSTANTS
    Sessions,
    None,         \* an empty slot
    MaxHandoffs,  \* bound: handoff attempts
    MaxWedges     \* bound: waits for the timer thread that time out

ASSUME SlotConstants ==
    /\ None \notin Sessions
    /\ {MaxHandoffs, MaxWedges} \subseteq Nat

VARIABLES
    st,        \* where each Session is, its teardown thread included
    running,   \* SessionShared.running
    waking,    \* Sessions whose Kill request has set the flag and not woken
               \* the reactor yet
    slotOf,    \* SessionShared.slot, 0 before registration
    journal,   \* the writer's entry: "none", "open", "failed", "closed"
    outcome,   \* what the Session ended with: "none", "ok", or an error, of its
               \* "own" or of "another" Session
    slots,     \* Reactor.sessions
    free,      \* Reactor.free_slots
    control,   \* the control channel
    timerq,    \* the timer channel
    jobs,      \* the timer thread's jobs by slot
    retired,   \* Sessions whose teardown got the timer's ack
    gaveUp,    \* Sessions whose teardown did not wait for it
    hand,      \* Reactor::handoff: [pc, todo, paused, ack]
    handoffs, wedges

sessionVars == <<st, running, waking, slotOf, journal, outcome>>
boundVars   == <<handoffs, wedges>>
vars == <<sessionVars, slots, free, control, timerq, jobs, retired, gaveUp, hand, boundVars>>

NoHandoff == [pc |-> "idle", todo |-> {}, paused |-> <<>>, ack |-> FALSE]

Init ==
    /\ st = [s \in Sessions |-> "new"] /\ running = [s \in Sessions |-> TRUE]
    /\ waking = {} /\ slotOf = [s \in Sessions |-> 0]
    /\ journal = [s \in Sessions |-> "none"] /\ outcome = [s \in Sessions |-> "none"]
    /\ slots = <<>> /\ free = <<>> /\ control = <<>> /\ timerq = <<>>
    /\ jobs = <<>> /\ retired = {} /\ gaveUp = {}
    /\ hand = NoHandoff /\ handoffs = 0 /\ wedges = 0

\* Control and TimerMsg.
Register(s)  == [k |-> "register", s |-> s]
Wake(i)      == [k |-> "wake", slot |-> i]
Failed(i, s) == [k |-> "failed", slot |-> i, s |-> s]  \* s is only in the error text
AddJobs(i, s) == [k |-> "add", slot |-> i, s |-> s]
Retire(i, s)  == [k |-> "remove", slot |-> i, s |-> s, try |-> 0]
Quiesce(i, n) == [k |-> "remove", slot |-> i, s |-> None, try |-> n]

Controls ==
    [k : {"register"}, s : Sessions] \cup [k : {"wake"}, slot : Nat]
    \cup [k : {"failed"}, slot : Nat, s : Sessions]
TimerMsgs ==
    [k : {"add"}, slot : Nat, s : Sessions]
    \cup [k : {"remove"}, slot : Nat, s : Sessions \cup {None}, try : Nat]

TypeOK ==
    /\ st \in [Sessions -> {"new", "asked", "refused", "hosted", "closing", "retiring",
                            "exited", "moved"}]
    /\ running \in [Sessions -> BOOLEAN]
    /\ waking \subseteq Sessions
    /\ slotOf \in [Sessions -> 0 .. Len(slots)]
    /\ journal \in [Sessions -> {"none", "open", "failed", "closed"}]
    /\ outcome \in [Sessions -> {"none", "ok", "own", "another"}]
    /\ slots \in Seq(Sessions \cup {None}) /\ free \in Seq(1 .. Len(slots))
    /\ control \in Seq(Controls) /\ timerq \in Seq(TimerMsgs)
    /\ jobs \in Seq(Seq(Sessions)) /\ Len(jobs) = Len(slots)
    /\ retired \subseteq Sessions /\ gaveUp \subseteq Sessions
    /\ hand.pc \in {"idle", "flush", "retire", "export", "abandon"}
    /\ hand.todo \subseteq 1 .. Len(slots) /\ hand.paused \in Seq(1 .. Len(slots))
    /\ hand.ack \in BOOLEAN
    /\ handoffs \in 0 .. MaxHandoffs /\ wedges \in 0 .. MaxWedges

Occupied(i) == i \in 1 .. Len(slots) /\ slots[i] # None

\* The reactor thread serves nobody else during a handoff.
Free == hand.pc = "idle"

Next1(k) == Free /\ control # <<>> /\ Head(control).k = k
Taken    == control' = Tail(control)

-----------------------------------------------------------------------------
\* Registration.

\* start_host opens the journal and hands the Session to the reactor.
Launch(s) ==
    /\ st[s] = "new"
    /\ st' = [st EXCEPT ![s] = "asked"] /\ journal' = [journal EXCEPT ![s] = "open"]
    /\ control' = Append(control, Register(s))
    /\ UNCHANGED <<running, waking, slotOf, outcome, slots, free, timerq, jobs,
                   retired, gaveUp, hand, boundVars>>

\* Reactor::register (and adopt, which registers the same way): the slot freed
\* last, or a new one.
DoRegister ==
    /\ Next1("register") /\ Taken
    /\ LET s    == Head(control).s
           i    == IF free # <<>> THEN free[Len(free)] ELSE Len(slots) + 1
           wide == IF free # <<>> THEN slots ELSE Append(slots, None)
       IN  /\ slotOf' = [slotOf EXCEPT ![s] = i]
           /\ jobs' = IF free # <<>> THEN jobs ELSE Append(jobs, <<>>)
           /\ \/ /\ st' = [st EXCEPT ![s] = "hosted"]
                 /\ slots' = [wide EXCEPT ![i] = s]
                 /\ free' = IF free # <<>> THEN SubSeq(free, 1, Len(free) - 1) ELSE free
                 /\ timerq' = Append(timerq, AddJobs(i, s))
              \/ /\ st' = [st EXCEPT ![s] = "refused"]  \* the poller refused an fd
                 /\ slots' = wide /\ timerq' = timerq
                 /\ free' = IF free # <<>> THEN free ELSE <<i>>
    /\ UNCHANGED <<running, waking, journal, outcome, retired, gaveUp, hand, boundVars>>

-----------------------------------------------------------------------------
\* The end of a Session.

\* Mutant: the teardown thread gives the slot back.
EndSessionKeepsSlot(i, result) ==
    IF ~Occupied(i) THEN UNCHANGED <<st, outcome, slots, free>>
    ELSE /\ slots' = [slots EXCEPT ![i] = None]
         /\ free' = free
         /\ outcome' = [outcome EXCEPT ![slots[i]] = result]
         /\ st' = [st EXCEPT ![slots[i]] = "closing"]

\* end_session: the slot is free at once, the rest is left to a teardown
\* thread.
EndSession(i, result) ==
    IF ~Occupied(i) THEN UNCHANGED <<st, outcome, slots, free>>
    ELSE /\ slots' = [slots EXCEPT ![i] = None]
         /\ free' = Append(free, i)
         /\ outcome' = [outcome EXCEPT ![slots[i]] = result]
         /\ st' = [st EXCEPT ![slots[i]] = "closing"]

\* dispatch, TokenKind::Pty: the PTY is at its end.  An event reaches the
\* Session it is for: `finish` took its tokens out of the registry.
PtyEnds(s) ==
    /\ Free /\ st[s] = "hosted"
    /\ EndSession(slotOf[s], "ok")
    /\ UNCHANGED <<running, waking, slotOf, journal, control, timerq, jobs,
                   retired, gaveUp, hand, boundVars>>

\* with_session: a panic in a callback ends the Session it ran for.
Panics(s) ==
    /\ Free /\ st[s] = "hosted"
    /\ EndSession(slotOf[s], "own")
    /\ UNCHANGED <<running, waking, slotOf, journal, control, timerq, jobs,
                   retired, gaveUp, hand, boundVars>>

\* A Kill request on its own thread: the flag, then the wake.
KillFlag(s) ==
    /\ st[s] = "hosted" /\ running[s]
    /\ waking' = waking \cup {s} /\ running' = [running EXCEPT ![s] = FALSE]
    /\ UNCHANGED <<st, slotOf, journal, outcome, slots, free, control, timerq,
                   jobs, retired, gaveUp, hand, boundVars>>

KillWake(s) ==
    /\ s \in waking /\ waking' = waking \ {s}
    /\ control' = Append(control, Wake(slotOf[s]))
    /\ UNCHANGED <<st, running, slotOf, journal, outcome, slots, free, timerq,
                   jobs, retired, gaveUp, hand, boundVars>>

\* drain_control, Wake: a stopped Session is drained and ends, unless it still
\* prints; a running one only flushes its clients.
DoWake ==
    /\ Next1("wake") /\ Taken
    /\ LET i == Head(control).slot
       IN  \/ Occupied(i) /\ ~running[slots[i]] /\ EndSession(i, "ok")
           \/ UNCHANGED <<st, outcome, slots, free>>
    /\ UNCHANGED <<running, waking, slotOf, journal, timerq, jobs, retired,
                   gaveUp, hand, boundVars>>

\* idle_tick: "a Kill whose wake was lost still ends".
IdleTick(s) ==
    /\ Free /\ st[s] = "hosted" /\ ~running[s]
    /\ EndSession(slotOf[s], "ok")
    /\ UNCHANGED <<running, waking, slotOf, journal, control, timerq, jobs,
                   retired, gaveUp, hand, boundVars>>

\* run_journal_writer: a write of a Session's bytes fails, also of the bytes
\* its teardown has not had closed yet.
WriterFails(s) ==
    /\ journal[s] = "open" /\ st[s] \in {"hosted", "closing"}
    /\ journal' = [journal EXCEPT ![s] = "failed"]
    /\ control' = Append(control, Failed(slotOf[s], s))
    /\ UNCHANGED <<st, running, waking, slotOf, outcome, slots, free, timerq, jobs,
                   retired, gaveUp, hand, boundVars>>

\* drain_control, JournalFailed.
DoFailed ==
    /\ Next1("failed") /\ Taken
    /\ LET m == Head(control)
       IN  EndSession(m.slot, IF Occupied(m.slot) /\ slots[m.slot] # m.s THEN "another" ELSE "own")
    /\ UNCHANGED <<running, waking, slotOf, journal, timerq, jobs, retired,
                   gaveUp, hand, boundVars>>

-----------------------------------------------------------------------------
\* SessionTeardown::run, on a thread of its own.

\* Mutant: the exit is published without waiting for the timer thread.
TeardownCloseNoWait(s) ==
    /\ st[s] = "closing" /\ st' = [st EXCEPT ![s] = "retiring"]
    /\ journal' = [journal EXCEPT ![s] = "closed"] /\ running' = [running EXCEPT ![s] = FALSE]
    /\ timerq' = Append(timerq, Retire(slotOf[s], s)) /\ retired' = retired \cup {s}
    /\ UNCHANGED <<waking, slotOf, outcome, slots, free, control, jobs, gaveUp, hand, boundVars>>

\* The writer closes the journal, an error of it is the Session's; then the
\* timer jobs of its slot are to go.
TeardownClose(s) ==
    /\ st[s] = "closing" /\ st' = [st EXCEPT ![s] = "retiring"]
    /\ journal' = [journal EXCEPT ![s] = "closed"] /\ running' = [running EXCEPT ![s] = FALSE]
    /\ \/ journal[s] = "open" /\ UNCHANGED outcome
       \/ outcome' = [outcome EXCEPT ![s] = IF @ = "ok" THEN "own" ELSE @]
    /\ timerq' = Append(timerq, Retire(slotOf[s], s))
    /\ UNCHANGED <<waking, slotOf, slots, free, control, jobs, retired, gaveUp, hand, boundVars>>

\* With the ack, or after 30 s, the exit is published.
TeardownExit(s) ==
    /\ st[s] = "retiring" /\ st' = [st EXCEPT ![s] = "exited"]
    /\ \/ s \in retired /\ retired' = retired \ {s} /\ UNCHANGED <<gaveUp, wedges>>
       \/ /\ s \notin retired /\ wedges < MaxWedges
          /\ wedges' = wedges + 1 /\ gaveUp' = gaveUp \cup {s} /\ retired' = retired
    /\ UNCHANGED <<running, waking, slotOf, journal, outcome, slots, free, control, timerq,
                   jobs, hand, handoffs>>

-----------------------------------------------------------------------------
\* run_timer.

TimerAdd ==
    /\ timerq # <<>> /\ Head(timerq).k = "add" /\ timerq' = Tail(timerq)
    /\ LET m == Head(timerq) IN jobs' = [jobs EXCEPT ![m.slot] = Append(@, m.s)]
    /\ UNCHANGED <<sessionVars, slots, free, control, retired, gaveUp, hand, boundVars>>

TimerRemove ==
    /\ timerq # <<>> /\ Head(timerq).k = "remove" /\ timerq' = Tail(timerq)
    /\ LET m == Head(timerq)
       IN  /\ jobs' = [jobs EXCEPT ![m.slot] = <<>>]
           /\ retired' = IF m.s = None THEN retired ELSE retired \cup {m.s}
           /\ hand' = [hand EXCEPT !.ack = @ \/ (hand.pc = "retire" /\ m.try = handoffs)]
    /\ UNCHANGED <<sessionVars, slots, free, control, gaveUp, boundVars>>

-----------------------------------------------------------------------------
\* Reactor::handoff.

DoHandoff ==
    /\ Free /\ handoffs < MaxHandoffs
    /\ handoffs' = handoffs + 1
    /\ hand' = [pc |-> "flush", paused |-> <<>>, ack |-> FALSE,
                todo |-> {i \in 1 .. Len(slots) : slots[i] # None}]
    /\ UNCHANGED <<sessionVars, slots, free, control, timerq, jobs, retired, gaveUp, wedges>>

\* The Sessions are taken in the order of their slots.
IsNext(i) == \A j \in hand.todo : i <= j

\* The journal of the next Session is flushed, then its jobs are to go.
HandoffFlush ==
    /\ hand.pc = "flush"
    /\ \E i \in hand.todo : IsNext(i) /\
       LET s == slots[i]
       IN  \/ /\ journal[s] = "open" /\ UNCHANGED journal
              /\ timerq' = Append(timerq, Quiesce(i, handoffs))
              /\ hand' = [hand EXCEPT !.pc = "retire", !.ack = FALSE]
           \/ /\ journal' = [journal EXCEPT ![s] = "failed"]
              /\ timerq' = timerq /\ hand' = [hand EXCEPT !.pc = "abandon"]
    /\ UNCHANGED <<st, running, waking, slotOf, outcome, slots, free, control, jobs,
                   retired, gaveUp, boundVars>>

\* The timer's ack, or 10 s without it.
HandoffRetired ==
    /\ hand.pc = "retire"
    /\ \/ /\ hand.ack /\ wedges' = wedges
          /\ \E i \in hand.todo :
                /\ IsNext(i)
                /\ hand' = [pc |-> "flush", todo |-> hand.todo \ {i}, ack |-> FALSE,
                            paused |-> Append(hand.paused, i)]
       \/ /\ ~hand.ack /\ wedges < MaxWedges /\ wedges' = wedges + 1
          /\ hand' = [hand EXCEPT !.pc = "abandon"]
    /\ UNCHANGED <<sessionVars, slots, free, control, timerq, jobs, retired, gaveUp,
                   handoffs>>

\* export_handoff refuses a Session that is stopping.
HandoffExport ==
    /\ hand.pc = "flush" /\ hand.todo = {}
    /\ hand' = [hand EXCEPT !.pc =
          IF \A k \in 1 .. Len(hand.paused) : running[slots[hand.paused[k]]]
          THEN "export" ELSE "abandon"]
    /\ UNCHANGED <<sessionVars, slots, free, control, timerq, jobs, retired, gaveUp, boundVars>>

\* The new core commits: the slots are free, nothing is torn down.
HandoffCommits ==
    /\ hand.pc = "export" /\ hand' = NoHandoff
    /\ st' = [s \in Sessions |-> IF s \in {slots[hand.paused[k]] : k \in 1 .. Len(hand.paused)}
                                 THEN "moved" ELSE st[s]]
    /\ free' = free \o hand.paused
    /\ slots' = [i \in 1 .. Len(slots) |->
                    IF i \in {hand.paused[k] : k \in 1 .. Len(hand.paused)} THEN None ELSE slots[i]]
    /\ UNCHANGED <<running, waking, slotOf, journal, outcome, control, timerq, jobs,
                   retired, gaveUp, boundVars>>

\* Mutant: every Session gets its jobs again, paused or not.
HandoffAbandonsAll ==
    /\ hand.pc \in {"export", "abandon"} /\ hand' = NoHandoff
    /\ timerq' = timerq \o SelectSeq([i \in 1 .. Len(slots) |-> AddJobs(i, slots[i])],
                                     LAMBDA m : m.s # None)
    /\ UNCHANGED <<sessionVars, slots, free, control, jobs, retired, gaveUp, boundVars>>

\* It does not, or the old core gave up before: paused Sessions get their jobs
\* again.
HandoffAbandons ==
    /\ hand.pc \in {"export", "abandon"} /\ hand' = NoHandoff
    /\ timerq' = timerq \o
          [k \in 1 .. Len(hand.paused) |-> AddJobs(hand.paused[k], slots[hand.paused[k]])]
    /\ UNCHANGED <<sessionVars, slots, free, control, jobs, retired, gaveUp, boundVars>>

-----------------------------------------------------------------------------
Reactor ==
    \/ DoRegister \/ DoWake \/ DoFailed \/ DoHandoff
    \/ HandoffFlush \/ HandoffRetired \/ HandoffExport \/ HandoffCommits \/ HandoffAbandons

Timer == TimerAdd \/ TimerRemove

Teardown(s) == TeardownClose(s) \/ TeardownExit(s)

Next ==
    \/ Reactor \/ Timer
    \/ \E s \in Sessions :
          \/ Launch(s) \/ PtyEnds(s) \/ Panics(s) \/ KillFlag(s) \/ KillWake(s)
          \/ IdleTick(s) \/ WriterFails(s) \/ Teardown(s)

Spec == Init /\ [][Next]_vars

-----------------------------------------------------------------------------
\* Properties

\* The slot table is exact: a hosted Session is in the slot it was told, no
\* other Session is in a slot, and the free list holds every empty slot once
\* (so no two Sessions are ever given the same one).
SlotsExact ==
    /\ \A s \in Sessions : st[s] = "hosted" => slots[slotOf[s]] = s
    /\ \A i \in 1 .. Len(slots) :
          /\ slots[i] # None => st[slots[i]] = "hosted" /\ slotOf[slots[i]] = i
          /\ slots[i] = None <=> \E k \in 1 .. Len(free) : free[k] = i
    /\ \A k, l \in 1 .. Len(free) : free[k] = free[l] => k = l

\* "Timer jobs retired BEFORE" the exited manifest: no job of the Session, run
\* or still to be added, can write to the manifest after its exit, unless the
\* teardown stopped waiting.
RetiredFirst ==
    \A s \in Sessions : st[s] = "exited" /\ s \notin gaveUp =>
       /\ \A i \in 1 .. Len(jobs) : \A k \in 1 .. Len(jobs[i]) : jobs[i][k] # s
       /\ \A k \in 1 .. Len(timerq) : timerq[k].k = "add" => timerq[k].s # s

\* However often handoffs are abandoned, a Session's jobs are never there
\* twice: its observers would race each other on the manifest.
JobsOnce ==
    \A s \in Sessions :
       \A i, j \in 1 .. Len(jobs) : \A k \in 1 .. Len(jobs[i]), l \in 1 .. Len(jobs[j]) :
          jobs[i][k] = s /\ jobs[j][l] = s => i = j /\ k = l
=============================================================================
