------------------------------ MODULE Activity ------------------------------
(***************************************************************************)
(* The worker's activity engine (activity.rs) for one managed Session,     *)
(* with what feeds it: the hook scripts of the agent, which record each    *)
(* event on disk and then post it; the Host's cancellation marker; the     *)
(* manifest's runtime generation; the output.  Events are posted live and  *)
(* read back from disk, so the engine meets each of them never, once or    *)
(* twice, and may be restarted in between.                                 *)
(*                                                                         *)
(* Time is counted in steps of the clock; the clock resolves two events of *)
(* one agent.  Times are those the code compares: arrival for a post, the  *)
(* file's time for the recorded event.                                     *)
(***************************************************************************)
EXTENDS Naturals, Sequences

CONSTANTS Events,    \* events the agent reports
          Children,  \* background activities
          Timeout,   \* HOOK_IDLE_TIMEOUT
          Guard,     \* LEGACY_GENERATION_STOP_GUARD
          MoveMax,   \* events, keys, outputs, relaunches and restarts together
          TimeMax, GenMax

Openers == {"Start", "UserPromptSubmit"}
Closers == {"Stop", "StopFailure", "StopCancelled", "Idle"}

\* An AskUserQuestion permission request only proves that hooks are there.
LatchOnly == {"HookSeen", "AskUserQuestion"}

ASSUME ActivityConstants ==
    /\ Events \subseteq Openers \cup Closers \cup LatchOnly \cup {"PermissionRequest"}
    /\ Timeout \in Nat \ {0} /\ Guard \in Nat
    /\ {MoveMax, TimeMax, GenMax} \subseteq Nat

None == 1000      \* an absent time or generation, later than any real one
Times == 0..TimeMax
Opt(S) == S \cup {None}

VARIABLES
    now,
    tagged,    \* the installed hooks carry the runtime generation
    gen,       \* manifest.runtime_launch_generation
    launched,  \* manifest.runtime_launched_at
    agent,     \* generation of the agent that runs
    relaunch,  \* launch time of an agent the manifest does not name yet
    reporter,  \* event each generation's hook script has recorded, not yet posted
    seed,      \* last-hook-event.json
    work,      \* background-hooks markers of each generation
    inbox,     \* posts received and not yet applied
    typed,     \* the Host's input tracker: Escape and Enter not yet recorded
    marker,    \* hook-cancellation.json
    expiry,    \* hook-expiry.json
    moved,     \* the screen changed since the engine sampled it
    outAt,     \* time of the last output
    entry,     \* the engine's Entry
    hist       \* counters for the bounds and what the properties refer to

disk == <<seed, work, marker, expiry>>
vars == <<now, tagged, gen, launched, agent, relaunch, reporter, disk, inbox, typed,
          moved, outAt, entry, hist>>

NoEvent == "none"
Event == Events \cup {NoEvent}

NoKeys == [cancelled |-> None, submitted |-> None]
NoChild == [at |-> None, deadline |-> None, expired |-> FALSE]

Default ==
    [gen |-> 0, seen |-> FALSE, state |-> "none", deadline |-> None, base |-> FALSE,
     transition |-> None, completed |-> FALSE, native |-> FALSE, cancelled |-> None,
     lastCancelled |-> None, submitted |-> None, opener |-> None, turn |-> None,
     hookGen |-> None, confirmed |-> None, legacy |-> None, lapsed |-> FALSE,
     kids |-> [k \in Children |-> NoChild]]

TypeOK ==
    /\ now \in Times /\ tagged \in BOOLEAN /\ gen \in 1..GenMax /\ agent \in 1..GenMax
    /\ launched \in Times /\ relaunch \in Opt(Times)
    /\ reporter \in [1..GenMax -> Event]
    /\ seed \in [event : Event, gen : Opt(1..GenMax), at : Opt(Times)]
    /\ work \in [1..GenMax -> [Children -> Opt(Times)]]
    /\ \A i \in DOMAIN inbox :
          inbox[i] \in [event : Events, gen : Opt(1..GenMax), at : Times]
    /\ typed \in [cancelled : Opt(Times), submitted : Opt(Times)]
    /\ marker \in [gen : Opt(1..GenMax), cancelled : Opt(Times), submitted : Opt(Times)]
    /\ expiry \in [gen : Opt(1..GenMax), through : Opt(Times)]
    /\ moved \in BOOLEAN /\ outAt \in Times
    /\ entry.state \in {"none", "Busy", "Idle", "Attention"}
    /\ entry.state = "Busy" => entry.deadline # None
    /\ entry.completed => entry.state = "Idle"

Init ==
    /\ now = 0 /\ tagged \in BOOLEAN /\ gen = 1 /\ launched = 0 /\ agent = 1
    /\ relaunch = None /\ reporter = [g \in 1..GenMax |-> NoEvent]
    /\ seed = [event |-> NoEvent, gen |-> None, at |-> None]
    /\ work = [g \in 1..GenMax |-> [k \in Children |-> None]] /\ inbox = <<>>
    /\ typed = NoKeys
    /\ marker = [gen |-> None, cancelled |-> None, submitted |-> None]
    /\ expiry = [gen |-> None, through |-> None]
    /\ moved = FALSE /\ outAt = 0 /\ entry = Default
    /\ hist = [moves |-> 0, late |-> FALSE, last |-> NoEvent, at |-> 0,
               opened |-> FALSE]

\* A move of the environment, of which there are MoveMax; Enter is not counted,
\* the first one after a cancellation is all that matters.
Move(h) == h.moves < MoveMax /\ hist' = [h EXCEPT !.moves = @ + 1]
-----------------------------------------------------------------------------
(* The engine.  An operator takes an Entry and returns the next one; `ok`  *)
(* says whether an event was accepted.                                     *)

\* Mutant: the latch of the old runtime is kept.
LaunchKeeps(e) == [e EXCEPT !.gen = gen]

\* observe_runtime_launch: a new generation starts from nothing, unless one of
\* its own events came first.
Launch(e) ==
    LET legacy == e.hookGen = None /\ e.legacy # None /\ e.legacy >= launched
        kept   == e.hookGen = gen \/ legacy
    IN  IF e.gen = gen THEN e
        ELSE [(IF kept THEN e ELSE Default) EXCEPT
                 !.gen = gen, !.confirmed = IF legacy THEN gen ELSE @]

Cancelled(e) == e.cancelled # None \/ e.native

Shown(e, event, t) ==
    LET f == [e EXCEPT !.transition = t, !.completed = event = "Stop", !.deadline = None]
    IN  CASE event \in Openers ->
               [f EXCEPT !.state = "Busy", !.deadline = t + Timeout, !.turn = t,
                         !.lapsed = FALSE]
          [] event = "PermissionRequest" ->
               [f EXCEPT !.state = "Attention", !.base = FALSE]
          [] OTHER ->
               [f EXCEPT !.state = "Idle", !.native = @ \/ event = "StopCancelled"]

\* apply_hook_event_unchecked: nothing of a cancelled turn is accepted; the
\* opening event of the next one waits for its submission marker.
Apply(e, event, t) ==
    LET opens == event \in Openers
        again == e.submitted # None /\ e.submitted > e.cancelled /\ t >= e.submitted
        f == [e EXCEPT !.native = FALSE, !.seen = TRUE, !.cancelled = None,
                       !.opener = IF e.cancelled = None THEN @ ELSE None]
    IN  IF e.native /\ ~opens THEN [entry |-> e, ok |-> FALSE]
        ELSE IF e.cancelled # None /\ ~(opens /\ again)
        THEN [entry |-> [e EXCEPT !.native = FALSE,
                                  !.opener = IF opens /\ t >= e.cancelled THEN t ELSE @],
              ok |-> FALSE]
        ELSE [entry |-> IF event \in LatchOnly \/ (event = "Idle" /\ f.state = "Idle")
                        THEN f ELSE Shown(f, event, t),
              ok |-> TRUE]

\* apply_hook_event_for_runtime: events of an older generation are dropped;
\* without a generation a closing event counts only after an opening one, or
\* once the guard is over.
ApplyFor(old, event, t, g) ==
    LET e == Launch(old)
        f == IF event \notin Openers THEN e
             ELSE [e EXCEPT !.confirmed = IF g = None THEN gen ELSE g,
                            !.legacy = IF g = None THEN t ELSE @]
        stale == IF g = None THEN t < launched ELSE g < gen
        doubtful == /\ event \in Closers /\ g = None /\ gen > 1 /\ e.confirmed # gen
                    /\ t < launched + Guard
        r == Apply(f, event, t)
    IN  IF stale \/ doubtful THEN [entry |-> e, ok |-> FALSE]
        ELSE IF r.ok THEN [r EXCEPT !.entry.hookGen = g] ELSE r

\* Mutant: the turn that is cancelled stays as it is shown.
ObserveCancellationLoud(e) ==
    IF marker.gen # gen \/ (e.lastCancelled # None /\ marker.cancelled <= e.lastCancelled)
    THEN e
    ELSE [e EXCEPT !.lastCancelled = marker.cancelled, !.cancelled = marker.cancelled,
                   !.submitted = marker.submitted, !.opener = None]

\* Mutant: the next turn, when it has begun already, is fenced off too.
ObserveCancellationAlways(e) ==
    IF marker.gen # gen \/ (e.lastCancelled # None /\ marker.cancelled <= e.lastCancelled)
    THEN e
    ELSE [e EXCEPT !.lastCancelled = marker.cancelled, !.cancelled = marker.cancelled,
                   !.submitted = marker.submitted, !.opener = None, !.completed = FALSE,
                   !.state = IF e.seen THEN "Idle" ELSE @, !.deadline = None]

\* observe_cancellation, with the opening event that came before the marker.
ObserveCancellation(e) ==
    LET started == /\ marker.submitted # None /\ marker.submitted > marker.cancelled
                   /\ e.turn # None /\ e.turn >= marker.submitted
        noted   == [e EXCEPT !.lastCancelled = marker.cancelled, !.opener = None]
        fenced  == [noted EXCEPT !.completed = FALSE, !.cancelled = marker.cancelled,
                                 !.state = IF e.seen THEN "Idle" ELSE @, !.deadline = None]
        f == IF e.lastCancelled # None /\ marker.cancelled <= e.lastCancelled THEN e
             ELSE IF started THEN noted ELSE fenced
        h == [f EXCEPT !.submitted = marker.submitted, !.opener = None]
    IN  IF marker.gen # gen THEN e
        ELSE IF f.opener = None THEN h ELSE Apply(h, "Start", f.opener).entry

\* Mutant: a child is known by its name alone.
BackgroundByName(e) ==
    [e EXCEPT
        !.seen = @ \/ \E k \in Children : work[gen][k] # None,
        !.kids = [k \in Children |->
                    IF work[gen][k] = None THEN NoChild ELSE IF @[k] # NoChild THEN @[k]
                    ELSE [at |-> work[gen][k], deadline |-> work[gen][k] + Timeout,
                          expired |-> FALSE]]]

\* sync_background_from_disk
Background(e) ==
    LET there(k) == work[gen][k] # None /\ work[gen][k] >= launched
        known(k) == e.kids[k].at = work[gen][k]
    IN  [e EXCEPT
            !.seen = @ \/ \E k \in Children : there(k) /\ ~known(k),
            !.kids = [k \in Children |->
                        IF ~there(k) THEN NoChild ELSE IF known(k) THEN @[k]
                        ELSE [at |-> work[gen][k], deadline |-> work[gen][k] + Timeout,
                              expired |-> FALSE]]]

\* Mutant: once an event arrived live the recorded one is not looked at.
SeedOnce(old) ==
    LET e == Background(ObserveCancellation(Launch(old)))
    IN  IF seed.event = NoEvent \/ seed.at < launched \/ e.transition # None THEN e
        ELSE ApplyFor(e, seed.event, seed.at, seed.gen).entry

\* Mutant: the recorded time-out is not looked at.
SeedRevives(old) ==
    LET e == Background(ObserveCancellation(Launch(old)))
        r == ApplyFor(e, seed.event, seed.at, seed.gen)
    IN  IF \/ seed.event = NoEvent \/ seed.at < launched
           \/ e.transition # None /\ seed.at <= e.transition
        THEN e
        ELSE IF r.ok /\ seed.event \in Openers
        THEN [r.entry EXCEPT !.deadline = (IF outAt > seed.at THEN outAt ELSE seed.at) + Timeout]
        ELSE r.entry

\* seed_from_disk: the recorded event, when it is news.  A prompt's lease runs
\* from the last output.
Seed(old) ==
    LET e == Background(ObserveCancellation(Launch(old)))
        r == ApplyFor(e, seed.event, seed.at, seed.gen)
        lease == IF seed.event = "UserPromptSubmit" /\ ~Cancelled(e) /\ outAt > seed.at
                 THEN outAt ELSE seed.at
        lapsed == expiry.gen = gen /\ seed.at <= expiry.through
    IN  IF \/ seed.event = NoEvent \/ seed.at < launched
           \/ e.transition # None /\ seed.at <= e.transition
        THEN e
        ELSE IF ~r.ok \/ seed.event \notin Openers THEN r.entry
        ELSE IF lapsed THEN [r.entry EXCEPT !.state = "Idle", !.deadline = None]
        ELSE [r.entry EXCEPT !.deadline = lease + Timeout]

Grew(e) == e.base /\ moved
Expires(e) == ~Cancelled(e) /\ e.state = "Busy" /\ e.deadline <= now

\* note_output_and_sweep
Sweep(e, clears) ==
    LET late(k) == /\ e.kids[k].at # None /\ ~e.kids[k].expired
                   /\ ~Grew(e) /\ e.kids[k].deadline <= now
        alive(k) == e.kids[k].at # None /\ ~e.kids[k].expired
        f == [e EXCEPT
                 !.base = TRUE, !.lapsed = @ \/ \E k \in Children : late(k),
                 !.kids = [k \in Children |->
                             IF late(k) THEN [@[k] EXCEPT !.expired = TRUE]
                             ELSE IF alive(k) /\ Grew(e)
                             THEN [@[k] EXCEPT !.deadline = now + Timeout] ELSE @[k]]]
    IN  IF Expires(e) THEN [f EXCEPT !.completed = FALSE, !.state = "Idle", !.deadline = None]
        ELSE IF /\ ~Cancelled(e) /\ Grew(e)
                /\ e.state = "Busy" \/ (e.state = "Attention" /\ clears)
        THEN [f EXCEPT !.state = "Busy", !.deadline = now + Timeout]
        ELSE f

\* hook_owned_state and is_completed
Working(e) == \E k \in Children : e.kids[k].at # None /\ ~e.kids[k].expired

Status(e) ==
    IF ~e.seen THEN "none"
    ELSE IF e.state # "Attention" /\ Working(e) THEN "Busy" ELSE e.state

Completed(e) ==
    e.seen /\ e.state = "Idle" /\ e.completed /\ ~e.lapsed /\ ~Working(e)
-----------------------------------------------------------------------------
(* The worker.                                                             *)

\* Driver::tick: one received post.
Deliver ==
    /\ inbox # <<>> /\ inbox' = Tail(inbox)
    /\ LET m == Head(inbox) IN
          entry' = ApplyFor(ObserveCancellation(Launch(entry)), m.event, m.at, m.gen).entry
    /\ UNCHANGED <<now, tagged, gen, launched, agent, relaunch, reporter, disk, typed,
                   moved, outAt, hist>>

\* record_hook_expiry
RecordExpiry(e) ==
    expiry' = IF expiry.gen # None /\ \/ expiry.gen > e.gen
                                      \/ expiry.gen = e.gen /\ expiry.through >= e.transition
              THEN expiry ELSE [gen |-> e.gen, through |-> e.transition]

\* session_status: the scan of one Session.  A changed permission screen that
\* cannot be read is looked at again by the next scan.
Scan ==
    LET e == Seed(entry) IN
    /\ \/ ~e.seen /\ entry' = [e EXCEPT !.base = FALSE] /\ UNCHANGED <<moved, expiry, hist>>
       \/ e.state = "Attention" /\ Grew(e) /\ entry' = e /\ UNCHANGED <<moved, expiry, hist>>
       \/ /\ e.seen /\ moved' = FALSE
          /\ \E clears \in BOOLEAN : entry' = Sweep(e, clears)
          /\ IF Expires(e) THEN RecordExpiry(e) /\ hist' = [hist EXCEPT !.opened = FALSE]
             ELSE UNCHANGED <<expiry, hist>>
    /\ UNCHANGED <<now, tagged, gen, launched, agent, relaunch, reporter, seed, work,
                   marker, inbox, typed, outAt>>

\* The worker is restarted: posts it had received are gone.
Restart ==
    /\ entry # Default /\ Move(hist)
    /\ entry' = Default /\ inbox' = <<>> /\ moved' = FALSE
    /\ UNCHANGED <<now, tagged, gen, launched, agent, relaunch, reporter, disk, typed, outAt>>
-----------------------------------------------------------------------------
(* The agent and its hook scripts (scripts.rs).                            *)

Durable == Openers \cup {"Stop", "StopFailure", "StopCancelled", "PermissionRequest",
                         "AskUserQuestion"}

\* The script records the event; the agent waits for it before the next one.
Emit(event) ==
    /\ reporter[agent] = NoEvent /\ now > hist.at
    /\ reporter' = [reporter EXCEPT ![agent] = event]
    /\ seed' = IF event \in Durable
               THEN [event |-> event, gen |-> IF tagged THEN agent ELSE None, at |-> now]
               ELSE seed
    /\ Move([hist EXCEPT !.last = event, !.at = now,
                         !.opened = @ \/ event \in Openers])
    /\ UNCHANGED <<now, tagged, gen, launched, agent, relaunch, work, marker, expiry,
                   inbox, typed, moved, outAt, entry>>

\* It posts the event, which arrives or is lost.
Post(g) ==
    /\ reporter[g] # NoEvent
    /\ reporter' = [reporter EXCEPT ![g] = NoEvent]
    /\ \/ UNCHANGED <<inbox, hist>>
       \/ /\ inbox' = Append(inbox, [event |-> reporter[g], at |-> now,
                                     gen |-> IF tagged THEN g ELSE None])
          /\ hist' = IF g = agent THEN [hist EXCEPT !.at = now] ELSE hist
    /\ UNCHANGED <<now, tagged, gen, launched, agent, relaunch, disk, typed, moved,
                   outAt, entry>>

\* A child's own marker, which must carry the generation, appears or disappears.
ChildWork(k) ==
    /\ tagged
    /\ work' = [work EXCEPT ![agent][k] = IF @ = None THEN now ELSE None]
    /\ Move(hist)
    /\ UNCHANGED <<now, tagged, gen, launched, agent, relaunch, reporter, seed, marker,
                   expiry, inbox, typed, moved, outAt, entry>>

Output ==
    /\ outAt < now /\ Move(hist)
    /\ moved' = entry.base /\ outAt' = now
    /\ UNCHANGED <<now, tagged, gen, launched, agent, relaunch, reporter, disk, inbox,
                   typed, entry>>
-----------------------------------------------------------------------------
(* The Host.                                                               *)

\* resume_agent_in_place submits the command of the next generation: the old
\* agent has ended, its last script may still be posting.
Submit ==
    /\ agent = gen /\ agent < GenMax
    /\ agent' = agent + 1 /\ relaunch' = now
    /\ seed' = [event |-> NoEvent, gen |-> None, at |-> None]
    /\ Move([hist EXCEPT !.last = NoEvent])
    /\ UNCHANGED <<now, tagged, gen, launched, reporter, work, marker, expiry, inbox,
                   typed, moved, outAt, entry>>

\* It then commits the generation to the manifest.
Commit ==
    /\ relaunch # None
    /\ gen' = agent /\ launched' = relaunch /\ relaunch' = None
    /\ typed' = NoKeys
    /\ UNCHANGED <<now, tagged, agent, reporter, disk, inbox, moved, outAt, entry, hist>>

\* InputTracker::feed: Escape, once there is something to cancel, and Enter.
Escape ==
    /\ relaunch = None /\ hist.last # NoEvent /\ Move(hist)
    /\ typed' = [cancelled |-> now, submitted |-> None]
    /\ UNCHANGED <<now, tagged, gen, launched, agent, relaunch, reporter, disk, inbox,
                   moved, outAt, entry>>

Enter ==
    /\ relaunch = None /\ typed.submitted = None
    /\ typed.cancelled # None \/ marker.gen = gen   \* else it is not recorded
    /\ typed' = [typed EXCEPT !.submitted = now]
    /\ UNCHANGED <<now, tagged, gen, launched, agent, relaunch, reporter, disk, inbox,
                   moved, outAt, entry, hist>>

\* The cancellation timer job: record_in.  A submission counts when it is later
\* than the cancellation, and the first one counts.
Persist ==
    LET same  == marker.gen = gen
        fresh == typed.cancelled # None /\ ~(same /\ typed.cancelled <= marker.cancelled)
        base  == IF fresh THEN [gen |-> gen, cancelled |-> typed.cancelled, submitted |-> None]
                 ELSE marker
        counts == typed.submitted # None /\ typed.submitted > base.cancelled
        first(a, b) == IF a < b THEN a ELSE b
    IN
    /\ typed # NoKeys
    /\ typed' = NoKeys
    /\ marker' = IF ~fresh /\ ~same THEN marker
                 ELSE IF counts THEN [base EXCEPT !.submitted = first(@, typed.submitted)]
                 ELSE base
    /\ UNCHANGED <<now, tagged, gen, launched, agent, relaunch, reporter, seed, work,
                   expiry, inbox, moved, outAt, entry, hist>>

\* Posting, applying and recording take at most one step of the clock, which is
\* shorter than Timeout; the commit of a launch follows at once.
Pending == inbox # <<>> \/ typed # NoKeys \/ \E g \in 1..GenMax : reporter[g] # NoEvent

Tick ==
    /\ now < TimeMax /\ relaunch = None /\ ~(Pending /\ hist.late)
    /\ now' = now + 1 /\ hist' = [hist EXCEPT !.late = Pending]
    /\ UNCHANGED <<tagged, gen, launched, agent, relaunch, reporter, disk, inbox, typed,
                   moved, outAt, entry>>

Next ==
    \/ Deliver \/ Scan \/ Restart \/ Output \/ Submit \/ Commit \/ Escape \/ Enter
    \/ Persist \/ Tick
    \/ \E event \in Events : Emit(event)
    \/ \E g \in 1..GenMax : Post(g)
    \/ \E k \in Children : ChildWork(k)

Spec == Init /\ [][Next]_vars
-----------------------------------------------------------------------------
(* Properties.                                                             *)

Quiet == inbox = <<>> /\ agent = gen

\* What the next scan will find.
Scanned == Sweep(Seed(entry), TRUE)

\* A new runtime starts from nothing: with hooks that carry the generation,
\* nothing the old one reported, before or after the relaunch and in whatever
\* order it arrived, shows in a generation that has reported nothing yet.
FreshRuntime ==
    (tagged /\ entry.gen = agent /\ hist.last = NoEvent /\ agent > 1) =>
       entry.state = "none" /\ ~Cancelled(entry) /\ ~entry.completed

\* While a turn counts as cancelled none of its late events, no output and no
\* recorded event makes it busy or asks for attention again.
FenceHolds == Cancelled(entry) => entry.state \in {"none", "Idle"}

\* A turn that has ended is not shown as running by a scan that finds no
\* post waiting, whether its last post arrived, was lost, was overtaken by the
\* scan, or the worker was restarted in between.
EndIsSeen ==
    (Quiet /\ tagged /\ hist.last \in {"Stop", "StopFailure", "StopCancelled"}) =>
       LET e == Scanned IN e.state = "Idle" \/ Cancelled(e)

\* A turn that has begun is shown as running by such a scan until it times
\* out, or unless it was cancelled; one that was submitted after a
\* cancellation is not taken for the cancelled one, even when its opening event
\* overtook the record of the key that submitted it.
BeginIsSeen ==
    (Quiet /\ tagged /\ hist.last \in Openers /\ hist.opened) =>
       LET e == Seed(entry) IN
       \/ e.state = "Busy"
       \/ e.cancelled # None /\ (marker.submitted = None \/ seed.at <= marker.submitted)

\* Background work keeps the Session busy through the end or the cancellation
\* of the main turn, a lost post and a restart of the worker, for as long as its
\* own lease lasts.
WorkIsSeen ==
    \A k \in Children :
       (work[gen][k] # None /\ work[gen][k] >= launched /\ now < work[gen][k] + Timeout) =>
          LET e == Scanned IN Status(e) \in {"Busy", "Attention"} /\ ~Completed(e)

\* A turn that timed out is not revived from disk, by this worker or by one
\* started later: a scan shows work again only after another opening event, or
\* after a permission request was answered.
NoRevival ==
    [][(/\ entry.state \notin {"Busy", "Attention"} /\ entry'.state = "Busy"
        /\ inbox' = inbox)
          => hist.opened]_vars
=============================================================================
