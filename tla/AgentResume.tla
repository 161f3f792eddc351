------------------------------ MODULE AgentResume ------------------------------
(* Resume Agent in place: one managed Session whose agent has returned to its
   shell is given a new launch line in the same PTY.

   A resume is one transaction under agent_restart_lock
   (session_host.rs, resume_agent_in_place).  It reads the manifest, proves that
   the owned shell is at the terminal, sets the hook seed of the old launch
   aside, publishes the latch runtime_launch_pending, types the line and only
   then commits the next generation.  The latch keeps a second Controller from
   typing another line while the shell has not started the first.  It is
   released by the runtime observer, a timer job that sees the agent in the PTY
   or the marker directory the line makes when it is done.

   The latch is in two places: the manifest, and an atomic of the process that
   hosts the Session.  A handoff moves the Session to a new core while a
   transaction may be under way in the old one.

   The shell is external: its lines, jobs and the agent are modelled from what
   the Host submits and inspects.                                            *)
EXTENDS Integers, Sequences

CONSTANTS
    GenMax,     \* bound on launch generations
    MoveMax     \* bound on what comes from outside: lines and Ctrl-Z of the user,
                \* hook events, failing writes, handoffs

ASSUME ResumeConstants ==
    GenMax \in Nat \ {0} /\ MoveMax \in Nat

Gens == 1..GenMax
Shell == 0              \* the foreground when no job has it
Job == GenMax + 1       \* a line, and a job, of the user's own
Hosts == {1, 2}         \* the core that launched the Session and the one that adopts it

VARIABLES
    state, gen, pending,    \* the manifest: state, runtime_launch_generation,
                            \* runtime_launch_pending
    latch,      \* pending_runtime_generation of each host
    generation, \* runtime_generation of each host
    step, expected, staged, \* the resume each host is in: where it is, the generation
                            \* it was asked to resume from, the seed it set aside
    serving,    \* the host that owns the Session
    export,     \* the latch a handoff carries, once exported
    old,        \* the exporting core is still running
    fg, bg,     \* foreground of the terminal; suspended agents
    queue,      \* lines the terminal has accepted and the shell has not read
    open,       \* the launch whose line the shell is inside
    marker,     \* .runtime-launch-complete and the launch that made it
    seed,       \* last-hook-event.json and the launch that wrote it
    pass, seen, leader, pend, done,     \* the pass of the runtime observer: where it
                            \* is, the agent it saw, whether the shell led the terminal,
                            \* the latch and the marker it read
    moves, wrote, torn, cut, raced      \* the bound, and what the properties refer to;
                            \* never read by the code

manifest == <<state, gen, pending>>
txn == <<step, expected, staged>>
obs == <<pass, seen, leader, pend, done>>
hist == <<moves, wrote, torn, cut, raced>>
host == <<manifest, latch, generation, txn, serving, export, old, obs>>
term == <<fg, bg, queue, open, marker>>
vars == <<host, term, seed, hist>>

FlagsOK == {pending, old, leader, torn, cut, raced} \subseteq BOOLEAN

HostOK ==
    /\ state \in {"running", "exited"} /\ gen \in Gens
    /\ latch \in [Hosts -> 0..GenMax] /\ generation \in [Hosts -> 0..GenMax]
    /\ serving \in Hosts /\ export \in -1..GenMax

TxnOK ==
    /\ step \in [Hosts -> {"idle", "checked", "staged", "published", "latched",
                           "written", "committed"}]
    /\ expected \in [Hosts -> 0..GenMax] /\ staged \in [Hosts -> 0..GenMax]

TermOK ==
    /\ fg \in 0..Job /\ bg \subseteq Gens
    /\ queue \in Seq(1..Job) /\ open \in 0..GenMax
    /\ marker \in 0..GenMax

ObsOK ==
    /\ pass \in {"idle", "looked", "found", "cleared", "released"}
    /\ seen \in 0..GenMax /\ pend \in 0..GenMax /\ done \in 0..GenMax

MarkOK == seed \in 0..GenMax /\ moves \in 0..MoveMax /\ wrote \in 0..GenMax

TypeOK == FlagsOK /\ HostOK /\ TxnOK /\ TermOK /\ ObsOK /\ MarkOK

\* Managed startup: generation 1 begins latched and its line is under way.
Init ==
    /\ state = "running" /\ gen = 1 /\ pending = TRUE
    /\ latch = [h \in Hosts |-> IF h = 1 THEN 1 ELSE 0] /\ generation = latch
    /\ step = [h \in Hosts |-> "idle"]
    /\ expected = [h \in Hosts |-> 0] /\ staged = [h \in Hosts |-> 0]
    /\ serving = 1 /\ export = -1 /\ old = TRUE
    /\ fg = Shell /\ bg = {} /\ queue = <<1>> /\ open = 0
    /\ marker = 0 /\ seed = 0
    /\ pass = "idle" /\ seen = 0 /\ leader = FALSE /\ pend = 0 /\ done = 0
    /\ moves = 0 /\ wrote = 0 /\ torn = FALSE /\ cut = FALSE /\ raced = FALSE

Running == state = "running"
\* The generation of the launch.
NextGen(h) == expected[h] + 1

\* The runtime guard is held from the shell's last wait to the PTY write.
Guarded(h) == step[h] \in {"staged", "published", "latched"}

\* A line the terminal has accepted; one that launches an agent.
Queued(line) == \E i \in DOMAIN queue : queue[i] = line
LaunchQueued == \E i \in DOMAIN queue : queue[i] # Job

\* Something comes from outside, within the bound.
Moved == moves < MoveMax /\ moves' = moves + 1

-----------------------------------------------------------------------------
(* The terminal: what the shell does with the lines it is given.             *)

\* The shell reads a line; a launch may also fail before an agent appears.
StartLine ==
    /\ Running /\ fg = Shell /\ open = 0 /\ queue # <<>>
    /\ queue' = Tail(queue)
    /\ IF Head(queue) = Job
         THEN fg' = Job /\ UNCHANGED open
         ELSE fg' \in {Head(queue), Shell} /\ open' = Head(queue)
    /\ UNCHANGED <<host, bg, marker, seed, hist>>

\* The agent or the user's job ends.
EndJob ==
    /\ Running /\ fg # Shell
    /\ fg' = Shell
    /\ UNCHANGED <<host, bg, queue, open, marker, seed, hist>>

\* Ctrl-Z; the line of the first launch runs without job control.
Suspend ==
    /\ Running /\ fg \in Gens /\ open # 1 /\ Moved
    /\ bg' = bg \cup {fg} /\ fg' = Shell
    /\ UNCHANGED <<host, queue, open, marker, seed, wrote, torn, cut, raced>>

\* A suspended agent is brought back, or ends where it is.
Continue ==
    /\ Running /\ fg = Shell /\ open = 0
    /\ \E g \in bg : bg' = bg \ {g} /\ fg' \in {g, Shell}
    /\ UNCHANGED <<host, queue, open, marker, seed, hist>>

\* Mutant: the line is typed without its completion wrapper.
CompleteSilent ==
    /\ Running /\ fg = Shell /\ open # 0
    /\ open' = 0
    /\ UNCHANGED <<host, fg, bg, queue, marker, seed, hist>>

\* The rest of a launch line: mkdir, which leaves an older directory alone.
Complete ==
    /\ Running /\ fg = Shell /\ open # 0
    /\ marker' = IF marker = 0 THEN open ELSE marker
    /\ open' = 0
    /\ UNCHANGED <<host, fg, bg, queue, seed, hist>>

\* Input of the user takes agent_restart_lock.
Type ==
    /\ Running /\ Moved /\ \A h \in Hosts : step[h] = "idle"
    /\ queue' = Append(queue, Job)
    /\ UNCHANGED <<host, fg, bg, open, marker, seed, wrote, torn, cut, raced>>

\* A hook of a live agent records its event.
HookWrite ==
    /\ Running /\ Moved
    /\ \E g \in (Gens \cap {fg}) \cup bg : seed' = g /\ wrote' = g
    /\ UNCHANGED <<host, term, torn, cut, raced>>

\* The shell's Session ends and its exit is published.
Exit ==
    /\ Running /\ ~Guarded(serving) /\ pass = "idle" /\ export = -1
    /\ state' = "exited" /\ pending' = FALSE /\ UNCHANGED gen
    /\ fg' = Shell /\ bg' = {} /\ queue' = <<>> /\ open' = 0
    /\ UNCHANGED <<latch, generation, txn, serving, export, old, obs,
                   marker, seed, hist>>

\* Mutant: a suspended agent does not count.
OwnedShellForegroundOnly ==
    Running /\ fg = Shell /\ open # 1 /\ ~Queued(1)

\* classify_restart_agent_foreground = OwnedShell.
OwnedShell ==
    /\ Running /\ fg = Shell /\ bg = {}
    /\ open # 1 /\ ~Queued(1)

-----------------------------------------------------------------------------
(* The transaction.                                                          *)

Goto(h, s) == step' = [step EXCEPT ![h] = s] /\ UNCHANGED <<expected, staged>>

End(h) ==
    /\ step' = [step EXCEPT ![h] = "idle"]
    /\ expected' = [expected EXCEPT ![h] = 0] /\ staged' = [staged EXCEPT ![h] = 0]

\* Mutant: a refused resume forgets the seed it set aside.
RollbackDrops(h) == UNCHANGED seed

\* StagedRestartMarker::rollback.
Rollback(h) == seed' = IF seed = 0 THEN staged[h] ELSE seed

\* clear_runtime_launch_pending, whose manifest write may fail unnoticed; what
\* led to it is already spent.
ClearPending(h, spent) ==
    /\ \/ /\ pending' = (pending /\ gen # expected[h])
          /\ moves' = moves + spent
          /\ UNCHANGED torn
       \/ /\ moves + spent < MoveMax /\ moves' = moves + spent + 1
          /\ torn' = TRUE
          /\ UNCHANGED pending
    /\ latch' = [latch EXCEPT ![h] = IF @ = NextGen(h) THEN 0 ELSE @]
    /\ UNCHANGED <<state, gen, wrote, cut, raced>>

\* Every generation up to the current one has been read by a Controller that
\* may still ask to resume from it (agent_in_place_action reads before it locks).
\* A request refused by these first checks leaves no trace.
Begin(asked) ==
    /\ step[serving] = "idle" /\ export = -1
    /\ Running /\ gen = asked
    /\ ~pending /\ latch[serving] = 0
    /\ OwnedShell
    /\ gen < GenMax
    /\ step' = [step EXCEPT ![serving] = "checked"]
    /\ expected' = [expected EXCEPT ![serving] = gen]
    /\ UNCHANGED <<staged, manifest, latch, generation, serving, export, old, obs, term,
                   seed, hist>>

\* The shell is awaited under the guard, the marker cleared, the seed staged.
Prepare(h) ==
    /\ step[h] = "checked"
    /\ IF OwnedShell
         THEN /\ marker' = 0
              /\ step' = [step EXCEPT ![h] = "staged"]
              /\ staged' = [staged EXCEPT ![h] = seed]
              /\ seed' = 0
              /\ UNCHANGED expected
         ELSE End(h) /\ UNCHANGED <<marker, seed>>
    /\ UNCHANGED <<manifest, latch, generation, serving, export, old, obs,
                   fg, bg, queue, open, hist>>

\* The latch goes to the manifest if nothing moved since it was loaded.
Published(h) == pending \/ (Running /\ gen = expected[h])

Publish(h) ==
    /\ step[h] = "staged"
    /\ \/ /\ OwnedShell
          /\ pending' = Published(h)
          /\ IF gen = expected[h] /\ Published(h)
               THEN Goto(h, "published") /\ UNCHANGED seed
               ELSE End(h) /\ Rollback(h)
          /\ UNCHANGED moves
       \/ /\ IF OwnedShell THEN Moved ELSE UNCHANGED moves
          /\ End(h) /\ Rollback(h)
          /\ UNCHANGED pending
    /\ UNCHANGED <<state, gen, latch, generation, serving, export, old, obs, term,
                   wrote, torn, cut, raced>>

\* The compare-and-swap on the host's own latch.
Latch(h) ==
    /\ step[h] = "published"
    /\ IF latch[h] = 0
         THEN /\ latch' = [latch EXCEPT ![h] = NextGen(h)]
              /\ Goto(h, "latched")
              /\ UNCHANGED <<manifest, seed, hist>>
         ELSE ClearPending(h, 0) /\ Rollback(h) /\ End(h)
    /\ UNCHANGED <<generation, serving, export, old, obs, term>>

\* The last proof and the write of Ctrl-U, the line and Return.
Write(h) ==
    /\ step[h] = "latched"
    /\ \/ /\ OwnedShell
          /\ queue' = Append(queue, NextGen(h))
          /\ Goto(h, "written")
          /\ UNCHANGED <<manifest, latch, marker, seed, hist>>
       \/ /\ OwnedShell => moves < MoveMax
          /\ ClearPending(h, IF OwnedShell THEN 1 ELSE 0) /\ Rollback(h)
          /\ marker' = IF OwnedShell THEN 0 ELSE marker
          /\ End(h)
          /\ UNCHANGED queue
    /\ UNCHANGED <<generation, serving, export, old, obs, fg, bg, open>>

\* The generation is committed, or that write fails after the submission.
Commit(h) ==
    /\ step[h] = "written"
    /\ \/ /\ gen' = NextGen(h) /\ pending' = TRUE
          /\ UNCHANGED <<moves, torn>>
       \/ /\ Moved /\ torn' = TRUE
          /\ UNCHANGED <<gen, pending>>
    /\ Goto(h, "committed")
    /\ UNCHANGED <<state, latch, generation, serving, export, old, obs, term, seed,
                   wrote, cut, raced>>

\* Mutant: the observer is not told of the new generation.
StoreNothing(h) ==
    /\ step[h] = "committed"
    /\ End(h)
    /\ UNCHANGED <<manifest, latch, generation, serving, export, old, obs, term, seed, hist>>

\* The observer learns the generation and the staged seed is dropped, even
\* when the commit failed.
Store(h) ==
    /\ step[h] = "committed"
    /\ generation' = [generation EXCEPT ![h] = NextGen(h)]
    /\ End(h)
    /\ UNCHANGED <<manifest, latch, serving, export, old, obs, term, seed, hist>>

-----------------------------------------------------------------------------
(* The runtime observer, a timer job of the serving host.                    *)

\* The pass is over.
Rest == pass' = "idle" /\ seen' = 0 /\ leader' = FALSE /\ pend' = 0 /\ done' = 0

\* The foreground of the PTY, read under the runtime guard.
ObserveForeground ==
    /\ Running /\ pass = "idle" /\ export = -1 /\ ~Guarded(serving)
    /\ pass' = "looked" /\ leader' = (fg = Shell)
    /\ seen' = IF fg \in Gens THEN fg ELSE 0
    /\ UNCHANGED <<pend, done, manifest, latch, generation, txn, serving, export, old,
                   term, seed, hist>>

\* The latch, every process of the Session, and the marker.
Recognized == (Gens \cap {fg}) \cup bg

\* There is evidence for the launch that is pending, or the pass is over.
Evidence(agent, completion) ==
    IF latch[serving] # 0 /\ (agent # 0 \/ completion # 0)
      THEN /\ pass' = "found" /\ pend' = latch[serving]
           /\ seen' = agent /\ done' = completion
           /\ UNCHANGED leader
      ELSE Rest

ReturnedToOwnedShell ==
    leader /\ Recognized = {} /\ open # 1 /\ ~Queued(1)

\* Mutant: an idle shell alone proves that the launch is over.
CompletionUnproved == IF ReturnedToOwnedShell THEN latch[serving] ELSE 0
Completion == IF ReturnedToOwnedShell THEN marker ELSE 0

ObserveProcesses ==
    /\ pass = "looked"
    /\ \E agent \in IF seen = 0 /\ Recognized # {} THEN Recognized ELSE {seen} :
          Evidence(agent, Completion)
    /\ UNCHANGED <<manifest, latch, generation, txn, serving, export, old,
                   term, seed, hist>>

\* The manifest's latch is released if it is the one the evidence is for.
ObserverClear ==
    /\ pass = "found" /\ ~Guarded(serving)
    /\ \/ /\ gen = pend
          /\ pending' = FALSE /\ pass' = "cleared"
          /\ raced' = (raced \/ pend \notin {seen, done})
          /\ UNCHANGED <<seen, leader, pend, done, moves>>
       \/ gen # pend /\ Rest /\ UNCHANGED <<pending, moves, raced>>
       \/ Moved /\ Rest /\ UNCHANGED <<pending, raced>>
    /\ UNCHANGED <<state, gen, latch, generation, txn, serving, export, old, term, seed,
                   wrote, torn, cut>>

ObserverRelease ==
    /\ pass = "cleared"
    /\ latch' = [latch EXCEPT ![serving] = IF @ = pend THEN 0 ELSE @]
    /\ IF done # 0 THEN pass' = "released" /\ UNCHANGED <<seen, leader, pend, done>>
                   ELSE Rest
    /\ UNCHANGED <<manifest, generation, txn, serving, export, old, term, seed, hist>>

\* The consumed marker is removed, whichever launch made the one that is there.
ObserverRemove ==
    /\ pass = "released"
    /\ marker' = 0
    /\ Rest
    /\ raced' = (raced \/ marker \notin {0, done})
    /\ UNCHANGED <<manifest, latch, generation, txn, serving, export, old,
                   fg, bg, queue, open, seed, moves, wrote, torn, cut>>

-----------------------------------------------------------------------------
(* A handoff of the Session to a new core.                                   *)

\* The timer jobs are retired, then the latch is read.
Export ==
    /\ Running /\ serving = 1 /\ export = -1 /\ Moved
    /\ pass = "idle" /\ ~Guarded(1)
    /\ export' = latch[1]
    /\ UNCHANGED <<manifest, latch, generation, txn, serving, old, obs, term, seed,
                   wrote, torn, cut, raced>>

\* The handoff fails and the Session goes on where it was.
Unexport ==
    /\ export # -1
    /\ export' = -1
    /\ UNCHANGED <<manifest, latch, generation, txn, serving, old, obs,
                   term, seed, hist>>

\* The new core takes the latch from the handoff, the generation from disk.
Adopt ==
    /\ export # -1 /\ ~Guarded(1)
    /\ serving' = 2
    /\ latch' = [latch EXCEPT ![2] = export]
    /\ generation' = [generation EXCEPT ![2] = gen]
    /\ export' = -1
    /\ cut' = (step[1] # "idle" \/ latch[1] # export)
    /\ UNCHANGED <<manifest, txn, old, obs, term, seed, moves, wrote, torn, raced>>

\* The old core leaves; a resume still under way in it ends where it is.
Leave ==
    /\ serving = 2 /\ old /\ ~Guarded(1)
    /\ old' = FALSE
    /\ End(1)
    /\ UNCHANGED <<manifest, latch, generation, serving, export, obs, term,
                   seed, hist>>

Transaction(h) ==
    Prepare(h) \/ Publish(h) \/ Latch(h) \/ Write(h) \/ Commit(h) \/ Store(h)

Observer ==
    \/ ObserveForeground \/ ObserveProcesses
    \/ ObserverClear \/ ObserverRelease \/ ObserverRemove

Next ==
    \/ StartLine \/ EndJob \/ Suspend \/ Continue \/ Complete
    \/ Type \/ HookWrite \/ Exit
    \/ \E asked \in 1..gen : Begin(asked)
    \/ \E h \in Hosts : Transaction(h)
    \/ Observer
    \/ Export \/ Unexport \/ Adopt \/ Leave

Spec == Init /\ [][Next]_vars

\* The shell reads its lines, the user's own jobs end, transactions run to their
\* end, the observer is a repeating timer job and a handoff is answered.
FairSpec ==
    /\ Spec
    /\ WF_vars(StartLine) /\ WF_vars(Complete) /\ WF_vars(fg = Job /\ EndJob)
    /\ \A h \in Hosts : WF_vars(Transaction(h))
    /\ WF_vars(Observer)
    /\ WF_vars(Unexport \/ Adopt)

-----------------------------------------------------------------------------
Pending == pending \/ latch[serving] # 0

(* The cases the properties leave out, each a window of the code:
     torn   a write of the manifest failed after the latch was published;
     cut    a handoff took the Session while a resume ran in the old core;
     raced  a whole resume ran inside one pass of the observer, or between the
            end of an agent and the mkdir of its line, and the pass then used
            the evidence, or removed the marker, of another launch.         *)

\* No Controller types a launch line behind one the shell has not started, or
\* into an agent: the manifest is loaded once, long before the PTY write, and
\* only the lock, the latch and the repeated proof of the shell stand between
\* (resume_agent_in_place).
OneLaunch ==
    ~raced /\ ~cut =>
        /\ \A i, j \in DOMAIN queue : queue[i] # Job /\ queue[j] # Job => i = j
        /\ LaunchQueued => fg \notin Gens

\* From the PTY write until the shell starts the line, one of the two latches
\* is up in the host that serves the Session, through the commit, a failed
\* commit, passes of the observer and a handoff: every other resume is refused.
LatchCovers ==
    ~raced /\ ~cut /\ LaunchQueued => Pending

\* Between resumes the generation the host tags input and observations with is
\* the one on disk, also after a handoff, which reads it from the manifest.
GenerationKnown ==
    ~torn /\ ~cut /\ step[serving] = "idle" =>
        generation[serving] = gen

\* A resume refused at any step gives the hook seed back, and never over a newer
\* one: between resumes the seed on disk is the last one written, unless its
\* launch has been superseded (StagedRestartMarker).
SeedKept ==
    (~torn /\ ~cut /\ \A h \in Hosts : step[h] = "idle") =>
        seed = wrote \/ wrote < gen

\* The latch is released: a launch that starts is seen, one that ends too fast
\* to be seen leaves its marker, a refused one takes the latch back, and the
\* host that adopts the Session goes on with the latch it was handed.
LatchSettles ==
    Pending ~> (~Pending \/ ~Running \/ torn \/ cut \/ raced)
================================================================================
