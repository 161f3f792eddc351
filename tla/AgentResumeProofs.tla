-------------------------- MODULE AgentResumeProofs --------------------------
(*****************************************************************************)
(* Proofs about AgentResume for any number of generations and of moves from  *)
(* outside: one launch line at a time, the latch that covers it, the         *)
(* generation the host knows and the hook seed a refused resume gives back.  *)
(* IInv is the inductive invariant; every action has one lemma.              *)
(*****************************************************************************)
EXTENDS AgentResume, TLAPS

\* The steps of a resume that come before the compare-and-swap on the latch.
Early == {"checked", "staged", "published"}

\* Only the serving host is inside a resume, unless a handoff cut one short,
\* and a resume starts below the bound.
HomeInv ==
    /\ serving = 1 => ~cut /\ step[2] = "idle"
    /\ serving = 2 => export = -1
    /\ serving = 2 /\ ~cut => step[1] = "idle"
    /\ \A h \in Hosts : step[h] # "idle" => expected[h] \in 1..(GenMax - 1)

\* What the lock protects: the generation a resume was checked against is still
\* the one on disk, the latch is down until its compare-and-swap and is the
\* resume's own from there to the commit.
TxnInv ==
    ~cut =>
      /\ step[serving] \in Early \cup {"latched", "written"} => gen = expected[serving]
      /\ step[serving] = "committed" => gen \in {expected[serving], NextGen(serving)}
      /\ step[serving] \in Early => latch[serving] = 0
      /\ step[serving] \in {"latched", "written"} => latch[serving] = NextGen(serving)

\* The latch an observer is about to release is not the one of a launch whose
\* generation is still to be committed, and it has evidence for it.
ClearInv ==
    ~cut /\ pass = "cleared" => pend <= gen /\ (raced \/ pend \in {seen, done})

\* The generation the host knows trails the manifest only between the commit
\* and the store.
GenInv ==
    ~cut /\ ~torn =>
      /\ step[serving] = "committed" => gen = NextGen(serving)
      /\ step[serving] # "committed" => generation[serving] = gen

HostInv ==
    FlagsOK /\ HostOK /\ TxnOK /\ ObsOK /\ HomeInv /\ TxnInv /\ ClearInv /\ GenInv

\* The newest launch whose line has been typed: ahead of the manifest from the
\* PTY write to the commit, and for good when the commit failed.
Top == IF latch[serving] = gen + 1 /\ step[serving] # "latched" THEN gen + 1 ELSE gen

\* Every launch there is a trace of.
Traces == {fg, open, marker, seen, done, wrote} \cup bg \cup {queue[i] : i \in DOMAIN queue}

\* No trace is of a launch that has not been typed: the next line is new to the
\* terminal, the marker and the observer.
FreshInv == ~cut => \A g \in Traces : g = Job \/ g <= Top

\* A launch line in the queue is the one the latch is for, the only one, and
\* nothing else has come from it yet.
LaunchInv ==
    ~cut /\ ~raced => \A i \in DOMAIN queue : queue[i] # Job =>
      /\ queue[i] = latch[serving]
      /\ queue[i] \notin {fg, open, marker, seen, done}
      /\ fg \notin Gens /\ bg = {}
      /\ step[serving] \notin Early \cup {"latched"}
      /\ \A j \in DOMAIN queue : queue[j] # Job => i = j

\* The last hook event is on disk or set aside by the resume under way, or its
\* launch has been superseded.
SeedInv ==
    ~cut /\ ~torn =>
      /\ Guarded(serving) => \/ wrote < gen
                             \/ seed = 0 /\ staged[serving] = wrote
                             \/ seed # 0 /\ seed = wrote
      /\ ~Guarded(serving) => \/ wrote < gen
                              \/ seed = wrote
                              \/ step[serving] = "written" /\ wrote <= gen

IInv == HostInv /\ TermOK /\ MarkOK /\ FreshInv /\ LaunchInv /\ SeedInv

USE ResumeConstants DEF Gens, Hosts, Job, Shell

-----------------------------------------------------------------------------
(* What a step leaves alone, and what it may add to the traces.              *)

\* A step that touches neither the resume nor the generation keeps what
\* relates them.
LEMMA TxnFrame ==
  ASSUME HostInv, UNCHANGED <<gen, latch, generation, txn, serving, export, torn, cut>>
  PROVE  TxnOK' /\ HomeInv' /\ TxnInv' /\ GenInv' /\ Top' = Top
<1> USE DEF txn
<1>1. TxnOK' /\ HomeInv'
  BY Zenon DEF HostInv, TxnOK, HomeInv
<1>2. TxnInv' /\ GenInv'
  BY Zenon DEF HostInv, TxnInv, GenInv, NextGen
<1>3. Top' = Top
  BY Zenon DEF Top
<1> QED
  BY <1>1, <1>2, <1>3, Zenon

\* A step outside the observer keeps what its pass rests on.
LEMMA PassFrame ==
  ASSUME HostInv, UNCHANGED <<obs, gen, raced, cut>>
  PROVE  ObsOK' /\ ClearInv'
  BY Zenon DEF HostInv, ObsOK, ClearInv, obs

\* A step of the terminal keeps all that is said of the hosts.
LEMMA HostFrame ==
  ASSUME HostInv, UNCHANGED <<host, torn, cut, raced>>
  PROVE  HostInv' /\ Top' = Top
<1> USE DEF host, manifest
<1>1. FlagsOK' /\ HostOK'
  BY Zenon DEF HostInv, FlagsOK, HostOK, obs
<1>2. TxnOK' /\ HomeInv' /\ TxnInv' /\ GenInv' /\ Top' = Top
  BY TxnFrame, Zenon
<1>3. ObsOK' /\ ClearInv'
  BY PassFrame, Zenon
<1> QED
  BY <1>1, <1>2, <1>3, Zenon DEF HostInv

\* The seed is safe where neither it nor the resume moves.
LEMMA SeedFrame ==
  ASSUME SeedInv, UNCHANGED <<gen, txn, serving, seed, wrote, torn, cut>>
  PROVE  SeedInv'
  BY Zenon DEF SeedInv, txn, Guarded, NextGen

\* Top is a number.
LEMMA TopType == gen \in Nat /\ gen' \in Nat => Top \in Nat /\ Top' \in Nat
<1>1. \A n \in Nat : n + 1 \in Nat
  OBVIOUS
<1> QED
  BY <1>1, Zenon DEF Top

\* A step that adds no trace but that of the launch typed last keeps FreshInv.
LEMMA FreshStep ==
  ASSUME IInv, HostInv', ~cut' => ~cut, ~cut' => Top' = Top \/ Top < Top',
         ~cut' => Traces' \subseteq Traces \cup {Shell, Job, Top'}
  PROVE  FreshInv'
<1> SUFFICES ASSUME ~cut', NEW g \in Traces' PROVE g = Job \/ g <= Top'
  BY Zenon DEF FreshInv
<1>1. g \in Traces => g = Job \/ g <= Top
  BY Zenon DEF IInv, FreshInv
<1>2. gen \in Nat /\ gen' \in Nat
  BY DEF IInv, HostInv, HostOK
<1>3. Top \in Nat /\ Top' \in Nat
  BY <1>2, TopType, Zenon
<1>4. fg \in Nat /\ open \in Nat /\ marker \in Nat /\ bg \subseteq Nat
  BY DEF IInv, TermOK
<1>5. seen \in Nat /\ done \in Nat
  BY DEF IInv, HostInv, ObsOK
<1>6. wrote \in Nat
  BY DEF IInv, MarkOK
<1>7. \A i \in DOMAIN queue : queue[i] \in Nat
  BY DEF IInv, TermOK
<1>8. g \in Traces => g \in Nat
  BY <1>4, <1>5, <1>6, <1>7, Zenon DEF Traces
<1> QED
  BY <1>1, <1>3, <1>8

-----------------------------------------------------------------------------
(* The terminal.                                                             *)

\* The shell reads a line.
LEMMA StartLineKeeps == IInv /\ StartLine => IInv'
<1> SUFFICES ASSUME IInv, StartLine PROVE IInv'
  OBVIOUS
<1>1. UNCHANGED <<host, bg, marker, seed, hist>>
  BY Zenon DEF StartLine
<1>2. HostInv' /\ Top' = Top /\ MarkOK' /\ SeedInv'
  BY <1>1, HostFrame, SeedFrame, Zenon DEF IInv, hist, host, manifest, MarkOK
<1>3. /\ queue' = Tail(queue) /\ fg = Shell /\ open = 0
      /\ queue # <<>> /\ queue \in Seq(1..Job)
  BY Zenon DEF StartLine, IInv, TermOK
<1>4. /\ Head(queue) = queue[1] /\ 1 \in DOMAIN queue /\ Head(queue) \in 1..Job
      /\ queue' \in Seq(1..Job)
      /\ \A i \in DOMAIN queue' : i + 1 \in DOMAIN queue /\ queue'[i] = queue[i + 1]
      /\ DOMAIN queue' \subseteq Nat \ {0}
  BY <1>3
<1>5. \/ Head(queue) = Job /\ fg' = Job /\ open' = open
      \/ Head(queue) # Job /\ fg' \in {Head(queue), Shell} /\ open' = Head(queue)
  BY Zenon DEF StartLine
<1>6. TermOK'
  BY <1>1, <1>3, <1>4, <1>5 DEF IInv, TermOK
<1>7. Traces' \subseteq Traces \cup {Shell, Job, Top'}
  <2>1. {queue'[i] : i \in DOMAIN queue'} \subseteq {queue[i] : i \in DOMAIN queue}
    <3> SUFFICES ASSUME NEW i \in DOMAIN queue' PROVE queue'[i] \in {queue[k] : k \in DOMAIN queue}
      BY Zenon
    <3> QED
      BY <1>4, Zenon
  <2>2. Head(queue) \in {queue[i] : i \in DOMAIN queue}
    BY <1>4, Zenon
  <2>3. {fg', open'} \subseteq {fg, open, Shell, Job, Head(queue)}
    BY <1>5, Zenon
  <2> QED
    BY <1>1, <2>1, <2>2, <2>3, Zenon DEF Traces, host, obs, hist
<1>8. FreshInv'
  BY <1>1, <1>2, <1>7, FreshStep, Zenon DEF hist
<1>9. LaunchInv'
  <2> SUFFICES ASSUME ~cut, ~raced, NEW i \in DOMAIN queue', queue'[i] # Job
               PROVE  /\ queue'[i] = latch[serving]
                      /\ queue'[i] \notin {fg', open', marker, seen, done}
                      /\ fg' \notin Gens /\ bg = {}
                      /\ step[serving] \notin Early \cup {"latched"}
                      /\ \A j \in DOMAIN queue' : queue'[j] # Job => i = j
    BY <1>1, Zenon DEF LaunchInv, host, txn, obs, hist
  <2>1. i + 1 \in DOMAIN queue /\ queue'[i] = queue[i + 1] /\ i + 1 # 1
    BY <1>4
  <2>2. Head(queue) = Job
    BY <1>4, <2>1, Zenon DEF IInv, LaunchInv
  <2>3. \A j \in DOMAIN queue' : queue'[j] # Job => i + 1 = j + 1
    BY <1>4, <2>1, Zenon DEF IInv, LaunchInv
  <2>4. \A j \in DOMAIN queue' : queue'[j] # Job => i = j
    BY <1>4, <2>3
  <2>5. fg' = Job /\ open' = open
    BY <1>5, <2>2, Zenon
  <2>6. Job \notin Gens
    OBVIOUS
  <2> QED
    BY <2>1, <2>4, <2>5, <2>6, Zenon DEF IInv, LaunchInv
<1> QED
  BY <1>2, <1>6, <1>8, <1>9, Zenon DEF IInv

\* The agent or the job in the foreground ends.
LEMMA EndJobKeeps == IInv /\ EndJob => IInv'
<1> SUFFICES ASSUME IInv, EndJob PROVE IInv'
  OBVIOUS
<1>1. fg' = Shell /\ UNCHANGED <<host, bg, queue, open, marker, seed, hist>>
  BY Zenon DEF EndJob
<1>2. HostInv' /\ Top' = Top /\ MarkOK' /\ SeedInv'
  BY <1>1, HostFrame, SeedFrame, Zenon DEF IInv, hist, host, manifest, MarkOK
<1>3. TermOK'
  BY <1>1 DEF IInv, TermOK
<1>4. Traces' \subseteq Traces \cup {Shell, Job, Top'}
  BY <1>1, Zenon DEF Traces, host, obs, hist
<1>5. FreshInv'
  BY <1>1, <1>2, <1>4, FreshStep, Zenon DEF hist
<1>6. Shell \notin Gens /\ \A i \in DOMAIN queue : queue[i] # Shell
  BY DEF IInv, TermOK
<1>7. LaunchInv'
  BY <1>1, <1>6, Zenon DEF IInv, LaunchInv, host, txn, obs, hist
<1> QED
  BY <1>2, <1>3, <1>5, <1>7, Zenon DEF IInv

\* Ctrl-Z.
LEMMA SuspendKeeps == IInv /\ Suspend => IInv'
<1> SUFFICES ASSUME IInv, Suspend PROVE IInv'
  OBVIOUS
<1>1. /\ fg \in Gens /\ fg' = Shell /\ bg' = bg \cup {fg} /\ Moved
      /\ UNCHANGED <<host, queue, open, marker, seed, wrote, torn, cut, raced>>
  BY Zenon DEF Suspend
<1>2. HostInv' /\ Top' = Top /\ SeedInv'
  BY <1>1, HostFrame, SeedFrame, Zenon DEF IInv, host, manifest
<1>3. TermOK'
  BY <1>1 DEF IInv, TermOK
<1>4. MarkOK'
  BY <1>1 DEF IInv, MarkOK, Moved
<1>5. Traces' \subseteq Traces \cup {Shell, Job, Top'}
  BY <1>1, Zenon DEF Traces, host, obs
<1>6. FreshInv'
  BY <1>1, <1>2, <1>5, FreshStep, Zenon
<1>7. LaunchInv'
  BY <1>1, Zenon DEF IInv, LaunchInv
<1> QED
  BY <1>2, <1>3, <1>4, <1>6, <1>7, Zenon DEF IInv

\* A suspended agent is brought back, or ends.
LEMMA ContinueKeeps == IInv /\ Continue => IInv'
<1> SUFFICES ASSUME IInv, Continue PROVE IInv'
  OBVIOUS
<1>1. UNCHANGED <<host, queue, open, marker, seed, hist>>
  BY Zenon DEF Continue
<1>2. PICK g \in bg : bg' = bg \ {g} /\ fg' \in {g, Shell}
  BY Zenon DEF Continue
<1>3. HostInv' /\ Top' = Top /\ MarkOK' /\ SeedInv'
  BY <1>1, HostFrame, SeedFrame, Zenon DEF IInv, hist, host, manifest, MarkOK
<1>4. TermOK'
  BY <1>1, <1>2 DEF IInv, TermOK
<1>5. Traces' \subseteq Traces \cup {Shell, Job, Top'}
  BY <1>1, <1>2, Zenon DEF Traces, host, obs, hist
<1>6. FreshInv'
  BY <1>1, <1>3, <1>5, FreshStep, Zenon DEF hist
<1>7. LaunchInv'
  BY <1>1, <1>2, Zenon DEF IInv, LaunchInv, hist
<1> QED
  BY <1>3, <1>4, <1>6, <1>7, Zenon DEF IInv

\* The launch line makes its marker.
LEMMA CompleteKeeps == IInv /\ Complete => IInv'
<1> SUFFICES ASSUME IInv, Complete PROVE IInv'
  OBVIOUS
<1>1. /\ open' = 0 /\ marker' \in {open, marker}
      /\ UNCHANGED <<host, fg, bg, queue, seed, hist>>
  BY Zenon DEF Complete
<1>2. HostInv' /\ Top' = Top /\ MarkOK' /\ SeedInv'
  BY <1>1, HostFrame, SeedFrame, Zenon DEF IInv, hist, host, manifest, MarkOK
<1>3. TermOK'
  BY <1>1 DEF IInv, TermOK
<1>4. Traces' \subseteq Traces \cup {Shell, Job, Top'}
  BY <1>1, Zenon DEF Traces, host, obs, hist
<1>5. FreshInv'
  BY <1>1, <1>2, <1>4, FreshStep, Zenon DEF hist
<1>6. \A i \in DOMAIN queue : queue[i] # 0
  BY DEF IInv, TermOK
<1>7. LaunchInv'
  BY <1>1, <1>6, Zenon DEF IInv, LaunchInv, host, txn, obs, hist
<1> QED
  BY <1>2, <1>3, <1>5, <1>7, Zenon DEF IInv

\* Input of the user.
LEMMA TypeKeeps == IInv /\ Type => IInv'
<1> SUFFICES ASSUME IInv, Type PROVE IInv'
  OBVIOUS
<1>1. /\ queue' = Append(queue, Job) /\ Moved
      /\ UNCHANGED <<host, fg, bg, open, marker, seed, wrote, torn, cut, raced>>
  BY Zenon DEF Type
<1>2. HostInv' /\ Top' = Top /\ SeedInv'
  BY <1>1, HostFrame, SeedFrame, Zenon DEF IInv, host, manifest
<1>3. /\ queue' \in Seq(1..Job)
      /\ \A i \in DOMAIN queue' : queue'[i] = Job \/ (i \in DOMAIN queue /\ queue'[i] = queue[i])
  BY <1>1 DEF IInv, TermOK
<1>4. TermOK'
  BY <1>1, <1>3, Zenon DEF IInv, TermOK
<1>5. MarkOK'
  BY <1>1 DEF IInv, MarkOK, Moved
<1>6. Traces' \subseteq Traces \cup {Shell, Job, Top'}
  BY <1>1, <1>3, Zenon DEF Traces, host, obs
<1>7. FreshInv'
  BY <1>1, <1>2, <1>6, FreshStep, Zenon
<1>8. LaunchInv'
  BY <1>1, <1>3, Zenon DEF IInv, LaunchInv, host, txn, obs
<1> QED
  BY <1>2, <1>4, <1>5, <1>7, <1>8, Zenon DEF IInv

\* A hook records its event.
LEMMA HookWriteKeeps == IInv /\ HookWrite => IInv'
<1> SUFFICES ASSUME IInv, HookWrite PROVE IInv'
  OBVIOUS
<1>1. Moved /\ UNCHANGED <<host, term, torn, cut, raced>>
  BY Zenon DEF HookWrite
<1>2. PICK g \in (Gens \cap {fg}) \cup bg : seed' = g /\ wrote' = g
  BY Zenon DEF HookWrite
<1>3. g \in Gens
  BY <1>2, Zenon DEF IInv, TermOK
<1>4. HostInv' /\ Top' = Top
  BY <1>1, HostFrame, Zenon DEF IInv
<1>5. TermOK'
  BY <1>1, Zenon DEF IInv, TermOK, term
<1>6. MarkOK'
  BY <1>1, <1>2, <1>3 DEF IInv, MarkOK, Moved
<1>7. Traces' \subseteq Traces \cup {Shell, Job, Top'}
  BY <1>1, <1>2, Zenon DEF Traces, term, host, obs
<1>8. FreshInv'
  BY <1>1, <1>4, <1>7, FreshStep, Zenon
<1>9. LaunchInv'
  BY <1>1, Zenon DEF IInv, LaunchInv, host, txn, obs, term
<1>10. g # 0
  BY <1>3
<1>11. SeedInv'
  BY <1>1, <1>2, <1>10, Zenon DEF SeedInv
<1> QED
  BY <1>4, <1>5, <1>6, <1>8, <1>9, <1>11, Zenon DEF IInv

\* The Session ends.
LEMMA ExitKeeps == IInv /\ Exit => IInv'
<1> SUFFICES ASSUME IInv, Exit PROVE IInv'
  OBVIOUS
<1>1. /\ state' = "exited" /\ pending' = FALSE
      /\ fg' = Shell /\ bg' = {} /\ queue' = <<>> /\ open' = 0
      /\ UNCHANGED <<gen, latch, generation, txn, serving, export, old, obs,
                     marker, seed, hist>>
  BY Zenon DEF Exit
<1>2. FlagsOK' /\ HostOK'
  BY <1>1, Zenon DEF IInv, HostInv, FlagsOK, HostOK, obs, hist
<1>3. TxnOK' /\ HomeInv' /\ TxnInv' /\ GenInv' /\ Top' = Top
  BY <1>1, TxnFrame, Zenon DEF IInv, hist
<1>4. ObsOK' /\ ClearInv'
  BY <1>1, PassFrame, Zenon DEF IInv, hist
<1>5. HostInv'
  BY <1>2, <1>3, <1>4, Zenon DEF HostInv
<1>6. SeedInv'
  BY <1>1, SeedFrame, Zenon DEF IInv, hist
<1>7. DOMAIN queue' = {}
  BY <1>1
<1>8. TermOK'
  BY <1>1 DEF IInv, TermOK
<1>9. MarkOK'
  BY <1>1, Zenon DEF IInv, MarkOK, hist
<1>10. Traces' \subseteq Traces \cup {Shell, Job, Top'}
  BY <1>1, <1>7, Zenon DEF Traces, obs, hist
<1>11. FreshInv'
  BY <1>1, <1>3, <1>5, <1>10, FreshStep, Zenon DEF hist
<1>12. LaunchInv'
  BY <1>7, Zenon DEF LaunchInv
<1> QED
  BY <1>5, <1>6, <1>8, <1>9, <1>11, <1>12, Zenon DEF IInv

-----------------------------------------------------------------------------
(* The resume of a host.                                                     *)

\* The host that is inside a resume is the one that serves the Session.
LEMMA Acting ==
  ASSUME HostInv, ~cut, NEW h \in Hosts, step[h] # "idle"
  PROVE  h = serving
<1>1. serving \in {1, 2} /\ h \in {1, 2}
  BY Zenon DEF HostInv, HostOK
<1>2. (serving = 1 => step[2] = "idle") /\ (serving = 2 => step[1] = "idle")
  BY Zenon DEF HostInv, HomeInv
<1> QED
  BY <1>1, <1>2, Zenon

\* A step of the resume of one host keeps HomeInv.
LEMMA HomeStep ==
  ASSUME HostInv, UNCHANGED <<serving, export, cut>>, NEW h \in Hosts, step[h] # "idle",
         step'[h] = "idle" \/ expected'[h] = expected[h],
         \A k \in Hosts : k # h => step'[k] = step[k] /\ expected'[k] = expected[k]
  PROVE  HomeInv'
<1>1. 1 \in Hosts /\ 2 \in Hosts
  BY Zenon
<1> QED
  BY <1>1, Zenon DEF HostInv, HomeInv

\* With the latch down, or up for a line that is still to be typed, no launch
\* line is in the queue.
LEMMA NoLaunch ==
  ASSUME IInv, ~cut, ~raced, latch[serving] = 0 \/ step[serving] = "latched"
  PROVE  ~LaunchQueued
<1>1. \A i \in DOMAIN queue : queue[i] # 0
  BY DEF IInv, TermOK
<1> QED
  BY <1>1, Zenon DEF IInv, LaunchInv, LaunchQueued

\* An update of one host's entry.
LEMMA Except ==
  ASSUME NEW S, NEW f \in [Hosts -> S], NEW h \in Hosts, NEW x \in S
  PROVE  /\ [f EXCEPT ![h] = x] \in [Hosts -> S]
         /\ [f EXCEPT ![h] = x][h] = x
         /\ \A k \in Hosts : k # h => [f EXCEPT ![h] = x][k] = f[k]
  BY Zenon

\* A resume passes its first checks.
LEMMA BeginKeeps == ASSUME IInv, NEW a, Begin(a) PROVE IInv'
<1>1. /\ step[serving] = "idle" /\ export = -1 /\ latch[serving] = 0 /\ gen < GenMax
      /\ step' = [step EXCEPT ![serving] = "checked"]
      /\ expected' = [expected EXCEPT ![serving] = gen]
      /\ UNCHANGED <<staged, manifest, latch, generation, serving, export, old, obs, term,
                     seed, hist>>
  BY Zenon DEF Begin
<1>2. serving \in Hosts /\ gen \in Gens
  BY Zenon DEF IInv, HostInv, HostOK
<1>3. gen \in 0..GenMax /\ gen \in 1..(GenMax - 1)
  BY <1>1, <1>2
<1>4. /\ TxnOK' /\ step'[serving] = "checked" /\ expected'[serving] = gen
      /\ \A k \in Hosts : k # serving => step'[k] = step[k] /\ expected'[k] = expected[k]
  BY <1>1, <1>2, <1>3, Except, Zenon DEF IInv, HostInv, TxnOK
<1>5. FlagsOK' /\ HostOK'
  BY <1>1, Zenon DEF IInv, HostInv, FlagsOK, HostOK, obs, hist, manifest
<1>6. HomeInv'
  <2>1. 1 # 2
    OBVIOUS
  <2> QED
    BY <1>1, <1>3, <1>4, <2>1, Zenon DEF IInv, HostInv, HomeInv, hist
<1>7. TxnInv'
  BY <1>1, <1>4, Zenon DEF TxnInv, Early, manifest
<1>8. GenInv'
  BY <1>1, <1>4, Zenon DEF IInv, HostInv, GenInv, manifest, hist
<1>9. ObsOK' /\ ClearInv'
  BY <1>1, PassFrame, Zenon DEF IInv, hist, manifest
<1>10. HostInv'
  BY <1>4, <1>5, <1>6, <1>7, <1>8, <1>9, Zenon DEF HostInv
<1>11. TermOK' /\ MarkOK'
  BY <1>1, Zenon DEF IInv, TermOK, MarkOK, term, hist
<1>12. Top' = Top
  BY <1>1, <1>4, Zenon DEF Top, manifest
<1>13. FreshInv'
  <2>1. Traces' = Traces
    BY <1>1, Zenon DEF Traces, term, obs, hist
  <2> QED
    BY <1>1, <1>10, <1>12, <2>1, FreshStep, Zenon DEF hist
<1>14. LaunchInv'
  BY <1>1, NoLaunch, Zenon DEF LaunchInv, LaunchQueued, hist, term
<1>15. SeedInv'
  BY <1>1, <1>4, Zenon DEF IInv, SeedInv, Guarded, manifest, hist
<1> QED
  BY <1>10, <1>11, <1>13, <1>14, <1>15, Zenon DEF IInv

\* A resume that ends clears its host's entries only.
LEMMA EndEffect ==
  ASSUME HostInv, NEW h \in Hosts, End(h)
  PROVE  /\ TxnOK' /\ step'[h] = "idle"
         /\ \A k \in Hosts : k # h => /\ step'[k] = step[k] /\ expected'[k] = expected[k]
                                      /\ staged'[k] = staged[k]
<1>1. 0 \in 0..GenMax
  OBVIOUS
<1> QED
  BY <1>1, Except, Zenon DEF HostInv, TxnOK, End

\* A resume that goes on.
LEMMA GotoEffect ==
  ASSUME HostInv, NEW h \in Hosts,
         NEW s \in {"published", "latched", "written", "committed"}, Goto(h, s)
  PROVE  /\ TxnOK' /\ UNCHANGED <<expected, staged>> /\ step'[h] = s
         /\ \A k \in Hosts : k # h => step'[k] = step[k]
<1>1. s \in {"idle", "checked", "staged", "published", "latched", "written", "committed"}
  BY Zenon
<1> QED
  BY <1>1, Except, Zenon DEF HostInv, TxnOK, Goto

\* A step of a resume before the compare-and-swap: no launch line is queued.
LEMMA EarlyStep ==
  ASSUME IInv, FlagsOK', HostOK', TxnOK', NEW h \in Hosts, step[h] \in Early,
         UNCHANGED <<gen, latch, generation, serving, export, obs,
                     fg, bg, queue, open, wrote, torn, cut, raced>>,
         marker' \in {0, marker},
         step'[h] = "idle" \/ (step'[h] \in Early /\ expected'[h] = expected[h]),
         \A k \in Hosts : k # h => step'[k] = step[k] /\ expected'[k] = expected[k]
  PROVE  HostInv' /\ FreshInv' /\ LaunchInv'
<1>1. ObsOK' /\ ClearInv'
  BY PassFrame, Zenon DEF IInv
<1>2. HomeInv'
  BY HomeStep, Zenon DEF IInv, Early
<1>3. ~cut => h = serving /\ latch[serving] = 0 /\ gen = expected[serving]
  BY Acting, Zenon DEF IInv, HostInv, TxnInv, Early
<1>4. TxnInv'
  BY <1>3, Zenon DEF TxnInv, Early
<1>5. GenInv'
  BY <1>3, Zenon DEF IInv, HostInv, GenInv, Early
<1>6. HostInv'
  BY <1>1, <1>2, <1>4, <1>5, Zenon DEF HostInv
<1>7. ~cut => Top' = Top
  <2>1. gen + 1 # 0
    BY DEF IInv, HostInv, HostOK
  <2> QED
    BY <1>3, <2>1, Zenon DEF Top
<1>8. FreshInv'
  <2>1. Traces' \subseteq Traces \cup {Shell, Job, Top'}
    BY Zenon DEF Traces, obs
  <2> QED
    BY <1>6, <1>7, <2>1, FreshStep, Zenon
<1>9. LaunchInv'
  BY <1>3, NoLaunch, Zenon DEF LaunchInv, LaunchQueued
<1> QED
  BY <1>6, <1>8, <1>9, Zenon

\* The marker is cleared and the seed set aside.
LEMMA PrepareKeeps == ASSUME IInv, NEW h \in Hosts, Prepare(h) PROVE IInv'
<1>1. /\ step[h] = "checked"
      /\ UNCHANGED <<manifest, latch, generation, serving, export, old, obs,
                     fg, bg, queue, open, hist>>
  BY Zenon DEF Prepare
<1>2. /\ TxnOK'
      /\ \A k \in Hosts : k # h => step'[k] = step[k] /\ expected'[k] = expected[k]
      /\ \/ /\ marker' = 0 /\ seed' = 0 /\ step'[h] = "staged"
            /\ expected'[h] = expected[h] /\ staged'[h] = seed
         \/ step'[h] = "idle" /\ UNCHANGED <<marker, seed>>
  <2>1. CASE End(h) /\ UNCHANGED <<marker, seed>>
    BY <2>1, EndEffect, Zenon DEF IInv
  <2>2. CASE /\ marker' = 0 /\ seed' = 0 /\ expected' = expected
             /\ step' = [step EXCEPT ![h] = "staged"]
             /\ staged' = [staged EXCEPT ![h] = seed]
    BY <2>2, Except, Zenon DEF IInv, HostInv, MarkOK, TxnOK
  <2> QED
    BY <2>1, <2>2, Zenon DEF Prepare
<1>3. FlagsOK' /\ HostOK'
  BY <1>1, Zenon DEF IInv, HostInv, FlagsOK, HostOK, obs, hist, manifest
<1>4. HostInv' /\ FreshInv' /\ LaunchInv'
  BY <1>1, <1>2, <1>3, EarlyStep, Zenon DEF Early, manifest, hist
<1>5. 0 \in 0..GenMax
  OBVIOUS
<1>6. TermOK' /\ MarkOK'
  BY <1>1, <1>2, <1>5, Zenon DEF IInv, TermOK, MarkOK, hist
<1>7. ~cut => h = serving
  BY <1>1, Acting, Zenon DEF IInv
<1>8. SeedInv'
  BY <1>1, <1>2, <1>7, Zenon DEF IInv, SeedInv, Guarded, manifest, hist
<1> QED
  BY <1>4, <1>6, <1>8, Zenon DEF IInv

\* The latch goes to the manifest, or the resume is refused.
LEMMA PublishKeeps == ASSUME IInv, NEW h \in Hosts, Publish(h) PROVE IInv'
<1>1. /\ step[h] = "staged"
      /\ UNCHANGED <<state, gen, latch, generation, serving, export, old, obs, term,
                     wrote, torn, cut, raced>>
  BY Zenon DEF Publish
<1>2. \/ Goto(h, "published") /\ seed' = seed
      \/ End(h) /\ Rollback(h)
  BY Zenon DEF Publish
<1>3. /\ TxnOK'
      /\ \A k \in Hosts : k # h => step'[k] = step[k] /\ expected'[k] = expected[k]
      /\ \/ /\ step'[h] = "published" /\ expected'[h] = expected[h]
            /\ staged'[h] = staged[h] /\ seed' = seed
         \/ step'[h] = "idle" /\ Rollback(h)
  <2>1. CASE Goto(h, "published") /\ seed' = seed
    BY <2>1, GotoEffect, Zenon DEF IInv
  <2>2. CASE End(h) /\ Rollback(h)
    BY <2>2, EndEffect, Zenon DEF IInv
  <2> QED
    BY <1>2, <2>1, <2>2, Zenon
<1>4. pending' \in BOOLEAN
  BY Zenon DEF Publish, Published, IInv, HostInv, FlagsOK
<1>5. FlagsOK' /\ HostOK'
  BY <1>1, <1>4, Zenon DEF IInv, HostInv, FlagsOK, HostOK, obs
<1>6. HostInv' /\ FreshInv' /\ LaunchInv'
  BY <1>1, <1>3, <1>5, EarlyStep, Zenon DEF Early, term
<1>7. seed' \in 0..GenMax
  BY <1>3, Zenon DEF Rollback, IInv, MarkOK, HostInv, TxnOK
<1>8. moves' \in 0..MoveMax
  <2>1. moves' = moves \/ (moves < MoveMax /\ moves' = moves + 1)
    BY Zenon DEF Publish, Moved
  <2> QED
    BY <2>1 DEF IInv, MarkOK
<1>9. TermOK' /\ MarkOK'
  BY <1>1, <1>7, <1>8, Zenon DEF IInv, TermOK, MarkOK, term
<1>10. ~cut => h = serving
  BY <1>1, Acting, Zenon DEF IInv
<1>11. SeedInv'
  <2>1. UNCHANGED <<gen, wrote, serving, torn, cut>>
    BY <1>1, Zenon
  <2>2. ~cut /\ ~torn => \/ wrote < gen
                         \/ seed = 0 /\ staged[serving] = wrote
                         \/ seed # 0 /\ seed = wrote
    BY <1>1, <1>10, Zenon DEF IInv, SeedInv, Guarded
  <2>3. CASE step'[h] = "published" /\ staged'[h] = staged[h] /\ seed' = seed
    BY <1>10, <2>1, <2>2, <2>3, Zenon DEF SeedInv, Guarded
  <2>4. CASE step'[h] = "idle" /\ Rollback(h)
    BY <1>10, <2>1, <2>2, <2>4, Zenon DEF SeedInv, Guarded, Rollback
  <2> QED
    BY <1>3, <2>3, <2>4, Zenon
<1> QED
  BY <1>6, <1>9, <1>11, Zenon DEF IInv

\* What clear_runtime_launch_pending leaves behind.
LEMMA ClearEffect ==
  ASSUME IInv, NEW h \in Hosts, NEW n \in {0, 1}, moves + n <= MoveMax, ClearPending(h, n)
  PROVE  /\ pending' \in BOOLEAN /\ torn' \in BOOLEAN /\ moves' \in 0..MoveMax
         /\ torn' = torn \/ torn'
         /\ latch' \in [Hosts -> 0..GenMax]
         /\ UNCHANGED <<state, gen, wrote, cut, raced>>
<1>1. pending' \in BOOLEAN /\ torn' \in BOOLEAN /\ (torn' = torn \/ torn')
  BY Zenon DEF ClearPending, IInv, HostInv, FlagsOK
<1>2. moves' \in 0..MoveMax
  BY DEF ClearPending, IInv, MarkOK
<1>3. latch' \in [Hosts -> 0..GenMax]
  <2>1. latch' = [latch EXCEPT ![h] = IF latch[h] = NextGen(h) THEN 0 ELSE latch[h]]
    BY Zenon DEF ClearPending
  <2>2. 0 \in 0..GenMax
    OBVIOUS
  <2>3. (IF latch[h] = NextGen(h) THEN 0 ELSE latch[h]) \in 0..GenMax
    BY <2>2, Zenon DEF IInv, HostInv, HostOK
  <2> QED
    BY <2>1, <2>3, Except, Zenon DEF IInv, HostInv, HostOK
<1> QED
  BY <1>1, <1>2, <1>3, Zenon DEF ClearPending

\* The generation a resume is for is within the bound.
LEMMA NextGenType ==
  ASSUME HostInv, NEW h \in Hosts, step[h] # "idle"
  PROVE  NextGen(h) \in Gens /\ NextGen(h) \in 0..GenMax
<1>1. expected[h] \in 1..(GenMax - 1)
  BY Zenon DEF HostInv, HomeInv
<1> QED
  BY <1>1 DEF NextGen

\* The compare-and-swap; under the lock it cannot fail.
LEMMA LatchKeeps == ASSUME IInv, NEW h \in Hosts, Latch(h) PROVE IInv'
<1>1. step[h] = "published" /\ UNCHANGED <<generation, serving, export, old, obs, term>>
  BY Zenon DEF Latch
<1>2. /\ TxnOK' /\ FlagsOK' /\ latch' \in [Hosts -> 0..GenMax]
      /\ seed' \in 0..GenMax /\ moves' \in 0..MoveMax
      /\ UNCHANGED <<state, gen, wrote, cut, raced>>
      /\ step'[h] = "idle" \/ expected'[h] = expected[h]
      /\ \A k \in Hosts : k # h => step'[k] = step[k] /\ expected'[k] = expected[k]
      /\ latch[h] = 0 =>
           /\ latch'[h] = NextGen(h) /\ step'[h] = "latched"
           /\ UNCHANGED <<expected, staged, seed, torn>>
  <2>1. CASE latch[h] = 0
    <3>1. /\ latch' = [latch EXCEPT ![h] = NextGen(h)]
          /\ Goto(h, "latched") /\ UNCHANGED <<manifest, seed, hist>>
      BY <2>1, Zenon DEF Latch
    <3>2. NextGen(h) \in 0..GenMax
      BY <1>1, NextGenType, Zenon DEF IInv
    <3>3. latch' \in [Hosts -> 0..GenMax] /\ latch'[h] = NextGen(h)
      BY <3>1, <3>2, Except, Zenon DEF IInv, HostInv, HostOK
    <3>4. FlagsOK'
      BY <1>1, <3>1, Zenon DEF IInv, HostInv, FlagsOK, manifest, hist, obs
    <3> QED
      BY <3>1, <3>3, <3>4, GotoEffect, Zenon DEF IInv, MarkOK, manifest, hist
  <2>2. CASE latch[h] # 0
    <3>1. ClearPending(h, 0) /\ Rollback(h) /\ End(h)
      BY <2>2, Zenon DEF Latch
    <3>2. 0 \in {0, 1} /\ moves + 0 <= MoveMax
      BY DEF IInv, MarkOK
    <3>3. /\ pending' \in BOOLEAN /\ torn' \in BOOLEAN /\ moves' \in 0..MoveMax
          /\ latch' \in [Hosts -> 0..GenMax] /\ UNCHANGED <<state, gen, wrote, cut, raced>>
      BY <3>1, <3>2, ClearEffect, Zenon
    <3>4. FlagsOK'
      BY <1>1, <3>3, Zenon DEF IInv, HostInv, FlagsOK, obs
    <3>5. seed' \in 0..GenMax
      BY <3>1, Zenon DEF Rollback, IInv, MarkOK, HostInv, TxnOK
    <3> QED
      BY <2>2, <3>1, <3>3, <3>4, <3>5, EndEffect, Zenon DEF IInv
  <2> QED
    BY <2>1, <2>2, Zenon
<1>3. HostOK'
  BY <1>1, <1>2, Zenon DEF IInv, HostInv, HostOK
<1>4. HomeInv'
  BY <1>1, <1>2, HomeStep, Zenon DEF IInv
<1>5. ObsOK' /\ ClearInv'
  BY <1>1, <1>2, PassFrame, Zenon DEF IInv
<1>6. ~cut => h = serving /\ latch[serving] = 0 /\ gen = expected[serving]
  BY <1>1, Acting, Zenon DEF IInv, HostInv, TxnInv, Early
<1>7. ~cut => /\ latch'[serving] = NextGen(serving) /\ step'[serving] = "latched"
               /\ UNCHANGED <<expected, staged, seed, torn>>
  BY <1>2, <1>6, Zenon
<1>8. "latched" \notin Early /\ "latched" # "committed"
  BY Zenon DEF Early
<1>9. UNCHANGED <<gen, generation, serving, wrote, cut>>
  BY <1>1, <1>2, Zenon
<1>10. ~cut => step[serving] = "published"
  BY <1>1, <1>6, Zenon
<1>11. TxnInv'
  <2> SUFFICES ASSUME ~cut
               PROVE  /\ step'[serving] = "latched" /\ gen' = expected'[serving]
                      /\ latch'[serving] = expected'[serving] + 1
    BY <1>1, <1>2, <1>8, Zenon DEF TxnInv, NextGen
  <2> QED
    BY <1>2, <1>6, <1>7, Zenon DEF NextGen
<1>12. GenInv'
  BY <1>7, <1>8, <1>9, <1>10, Zenon DEF IInv, HostInv, GenInv
<1>13. HostInv'
  BY <1>2, <1>3, <1>4, <1>5, <1>11, <1>12, Zenon DEF HostInv
<1>14. TermOK' /\ MarkOK'
  BY <1>1, <1>2, Zenon DEF IInv, TermOK, MarkOK, term
<1>15. ~cut => Top' = Top
  <2>1. gen + 1 # 0
    BY DEF IInv, HostInv, HostOK
  <2> QED
    BY <1>1, <1>2, <1>6, <2>1, Zenon DEF Top
<1>16. FreshInv'
  <2>1. Traces' = Traces
    BY <1>1, <1>2, Zenon DEF Traces, term, obs
  <2> QED
    BY <1>2, <1>13, <1>15, <2>1, FreshStep, Zenon
<1>17. LaunchInv'
  BY <1>1, <1>2, <1>6, NoLaunch, Zenon DEF LaunchInv, LaunchQueued, term
<1>18. SeedInv'
  <2>1. ~cut => step[serving] = "published" /\ step'[serving'] = "latched"
    BY <1>7, <1>9, <1>10, Zenon
  <2>2. ~cut /\ ~torn => \/ wrote < gen
                         \/ seed = 0 /\ staged[serving] = wrote
                         \/ seed # 0 /\ seed = wrote
    BY <2>1, Zenon DEF IInv, SeedInv, Guarded
  <2>3. ~cut' => UNCHANGED <<gen, wrote, serving, seed, staged, torn, cut>>
    BY <1>7, <1>9, Zenon
  <2> QED
    BY <2>1, <2>2, <2>3, Zenon DEF SeedInv, Guarded
<1> QED
  BY <1>13, <1>14, <1>16, <1>17, <1>18, Zenon DEF IInv

\* The line is typed: its launch is newer than every trace there is.
LEMMA SubmitKeeps ==
  ASSUME IInv, NEW h \in Hosts, step[h] = "latched", OwnedShell,
         queue' = Append(queue, NextGen(h)), Goto(h, "written"),
         UNCHANGED <<manifest, latch, generation, serving, export, old, obs,
                     fg, bg, open, marker, seed, hist>>
  PROVE  IInv'
<1>1. /\ TxnOK' /\ UNCHANGED <<expected, staged>> /\ step'[h] = "written"
      /\ \A k \in Hosts : k # h => step'[k] = step[k]
  BY GotoEffect, Zenon DEF IInv
<1>2. FlagsOK' /\ HostOK'
  BY Zenon DEF IInv, HostInv, FlagsOK, HostOK, obs, hist, manifest
<1>3. HomeInv'
  BY <1>1, HomeStep, Zenon DEF IInv, hist
<1>4. ObsOK' /\ ClearInv'
  BY PassFrame, Zenon DEF IInv, hist, manifest
<1>5. UNCHANGED <<gen, latch, serving, generation, wrote, torn, cut, raced>>
  BY Zenon DEF manifest, hist
<1>6. ~cut => /\ h = serving /\ gen = expected[serving]
              /\ latch[serving] = NextGen(serving)
  BY Acting, Zenon DEF IInv, HostInv, TxnInv
<1>7. ~cut => step[serving] = "latched" /\ step'[serving'] = "written"
  BY <1>1, <1>5, <1>6, Zenon
<1>8. TxnInv'
  BY <1>1, <1>5, <1>6, <1>7, Zenon DEF TxnInv, NextGen, Early
<1>9. GenInv'
  BY <1>1, <1>5, <1>7, Zenon DEF IInv, HostInv, GenInv
<1>10. HostInv'
  BY <1>1, <1>2, <1>3, <1>4, <1>8, <1>9, Zenon DEF HostInv
<1>11. NextGen(h) \in 1..Job /\ gen \in Nat
  <2>1. NextGen(h) \in Gens /\ gen \in Gens
    BY NextGenType, Zenon DEF IInv, HostInv, HostOK
  <2> QED
    BY <2>1
<1>12. /\ queue' \in Seq(1..Job)
       /\ \A i \in DOMAIN queue' : \/ i = Len(queue) + 1 /\ queue'[i] = NextGen(h)
                                   \/ i \in DOMAIN queue /\ queue'[i] = queue[i]
  BY <1>11 DEF IInv, TermOK
<1>13. TermOK' /\ MarkOK'
  BY <1>12, Zenon DEF IInv, TermOK, MarkOK, hist
<1>14. ~cut => Top = gen /\ Top' = NextGen(h) /\ Top < Top'
  <2>1. ~cut => Top = gen /\ Top' = gen + 1 /\ NextGen(h) = gen + 1
    BY <1>5, <1>6, <1>7, Zenon DEF Top, NextGen
  <2>2. gen < gen + 1
    BY <1>11
  <2> QED
    BY <2>1, <2>2, Zenon
<1>15. FreshInv'
  <2>1. ~cut' => Traces' \subseteq Traces \cup {Shell, Job, Top'}
    <3>1. {queue'[i] : i \in DOMAIN queue'} \subseteq {queue[i] : i \in DOMAIN queue} \cup {NextGen(h)}
      BY <1>12, Zenon
    <3> QED
      BY <1>5, <1>14, <3>1, Zenon DEF Traces, obs
  <2> QED
    BY <1>5, <1>10, <1>14, <2>1, FreshStep, Zenon
<1>16. ~cut => \A g \in {open, marker, seen, done, wrote} : g <= gen
  <2>1. ~cut => \A g \in {open, marker, seen, done, wrote} : g = Job \/ g <= gen
    BY <1>14, Zenon DEF IInv, FreshInv, Traces
  <2>2. /\ open # Job /\ marker # Job /\ seen # Job /\ done # Job /\ wrote # Job
    BY DEF IInv, TermOK, HostInv, ObsOK, MarkOK
  <2> QED
    BY <2>1, <2>2, Zenon
<1>17. LaunchInv'
  <2>1. ASSUME ~cut, ~raced, NEW i \in DOMAIN queue', queue'[i] # Job
        PROVE  i = Len(queue) + 1 /\ queue'[i] = NextGen(h)
    BY <1>7, <1>12, <2>1, NoLaunch, Zenon DEF LaunchQueued
  <2>2. ~cut => NextGen(h) \notin {Shell, open, marker, seen, done}
    <3>1. open \in Nat /\ marker \in Nat /\ seen \in Nat /\ done \in Nat
      BY DEF IInv, TermOK, HostInv, ObsOK
    <3> QED
      BY <1>11, <1>14, <1>16, <3>1
  <2>3. fg = Shell /\ bg = {} /\ Shell \notin Gens
    <3>1. Shell \notin Gens
      OBVIOUS
    <3> QED
      BY <3>1, Zenon DEF OwnedShell
  <2> QED
    BY <1>5, <1>6, <1>7, <2>1, <2>2, <2>3, Zenon DEF LaunchInv, Early, obs
<1>18. SeedInv'
  <2>1. ~cut => wrote <= gen
    BY <1>16, Zenon
  <2> QED
    BY <1>5, <1>7, <2>1, Zenon DEF SeedInv, Guarded
<1> QED
  BY <1>10, <1>13, <1>15, <1>17, <1>18, Zenon DEF IInv

\* The line is not typed: the latch is taken back and the seed too.
LEMMA RefusedKeeps ==
  ASSUME IInv, NEW h \in Hosts, step[h] = "latched", NEW n \in {0, 1}, moves + n <= MoveMax,
         ClearPending(h, n), Rollback(h), End(h), marker' \in {0, marker},
         UNCHANGED <<generation, serving, export, old, obs, fg, bg, queue, open>>
  PROVE  IInv'
<1>1. /\ pending' \in BOOLEAN /\ torn' \in BOOLEAN /\ moves' \in 0..MoveMax
      /\ torn' = torn \/ torn'
      /\ latch' \in [Hosts -> 0..GenMax]
      /\ UNCHANGED <<state, gen, wrote, cut, raced>>
  BY ClearEffect, Zenon
<1>2. /\ TxnOK' /\ step'[h] = "idle"
      /\ \A k \in Hosts : k # h => step'[k] = step[k] /\ expected'[k] = expected[k]
  BY EndEffect, Zenon DEF IInv
<1>3. FlagsOK' /\ HostOK'
  BY <1>1, Zenon DEF IInv, HostInv, FlagsOK, HostOK, obs
<1>4. HomeInv'
  BY <1>1, <1>2, HomeStep, Zenon DEF IInv
<1>5. ObsOK' /\ ClearInv'
  BY <1>1, PassFrame, Zenon DEF IInv
<1>6. ~cut => /\ h = serving /\ latch[serving] = NextGen(serving)
              /\ step[serving] = "latched" /\ step'[serving'] = "idle"
  BY <1>2, Acting, Zenon DEF IInv, HostInv, TxnInv
<1>7. ~cut => latch'[serving] = 0
  <2>1. latch' = [latch EXCEPT ![h] = IF latch[h] = NextGen(h) THEN 0 ELSE latch[h]]
    BY Zenon DEF ClearPending
  <2> QED
    BY <1>6, <2>1, Zenon DEF IInv, HostInv, HostOK
<1>8. TxnInv'
  BY <1>1, <1>6, Zenon DEF TxnInv, Early
<1>9. GenInv'
  <2>1. UNCHANGED <<gen, generation, serving, cut>> /\ (torn' = torn \/ torn')
    BY <1>1, Zenon
  <2> QED
    BY <1>6, <2>1, Zenon DEF IInv, HostInv, GenInv
<1>10. HostInv'
  BY <1>2, <1>3, <1>4, <1>5, <1>8, <1>9, Zenon DEF HostInv
<1>11. 0 \in 0..GenMax /\ seed' \in 0..GenMax
  <2>1. 0 \in 0..GenMax
    OBVIOUS
  <2> QED
    BY <2>1, Zenon DEF Rollback, IInv, MarkOK, HostInv, TxnOK
<1>12. TermOK' /\ MarkOK'
  BY <1>1, <1>11, Zenon DEF IInv, TermOK, MarkOK
<1>13. ~cut => Top' = Top
  <2>1. gen + 1 # 0
    BY DEF IInv, HostInv, HostOK
  <2> QED
    BY <1>1, <1>6, <1>7, <2>1, Zenon DEF Top
<1>14. FreshInv'
  <2>1. Traces' \subseteq Traces \cup {Shell, Job, Top'}
    BY <1>1, Zenon DEF Traces, obs
  <2> QED
    BY <1>1, <1>10, <1>13, <2>1, FreshStep, Zenon
<1>15. LaunchInv'
  BY <1>1, <1>6, NoLaunch, Zenon DEF LaunchInv, LaunchQueued
<1>16. SeedInv'
  <2>1. ~cut /\ ~torn => \/ wrote < gen
                         \/ seed = 0 /\ staged[serving] = wrote
                         \/ seed # 0 /\ seed = wrote
    BY <1>6, Zenon DEF IInv, SeedInv, Guarded
  <2>2. UNCHANGED <<gen, wrote, serving, cut>> /\ (torn' = torn \/ torn')
    BY <1>1, Zenon
  <2> QED
    BY <1>6, <2>1, <2>2, Zenon DEF SeedInv, Guarded, Rollback
<1> QED
  BY <1>10, <1>12, <1>14, <1>15, <1>16, Zenon DEF IInv

\* The PTY write.
LEMMA WriteKeeps == ASSUME IInv, NEW h \in Hosts, Write(h) PROVE IInv'
<1>1. step[h] = "latched" /\ UNCHANGED <<generation, serving, export, old, obs, fg, bg, open>>
  BY Zenon DEF Write
<1>2. CASE /\ OwnedShell /\ queue' = Append(queue, NextGen(h)) /\ Goto(h, "written")
           /\ UNCHANGED <<manifest, latch, marker, seed, hist>>
  BY <1>1, <1>2, SubmitKeeps, Zenon
<1>3. CASE /\ OwnedShell => moves < MoveMax
           /\ ClearPending(h, IF OwnedShell THEN 1 ELSE 0) /\ Rollback(h)
           /\ marker' = IF OwnedShell THEN 0 ELSE marker
           /\ End(h) /\ UNCHANGED queue
  <2>1. moves \in 0..MoveMax
    BY Zenon DEF IInv, MarkOK
  <2>2. CASE OwnedShell
    <3>1. moves + 1 <= MoveMax
      BY <1>3, <2>1, <2>2
    <3> QED
      BY <1>1, <1>3, <2>2, <3>1, RefusedKeeps, Zenon
  <2>3. CASE ~OwnedShell
    <3>1. moves + 0 <= MoveMax
      BY <2>1
    <3> QED
      BY <1>1, <1>3, <2>3, <3>1, RefusedKeeps, Zenon
  <2> QED
    BY <2>2, <2>3, Zenon
<1> QED
  BY <1>2, <1>3, Zenon DEF Write

\* The generation is committed, or that write fails.
LEMMA CommitKeeps == ASSUME IInv, NEW h \in Hosts, Commit(h) PROVE IInv'
<1>1. /\ step[h] = "written" /\ Goto(h, "committed")
      /\ UNCHANGED <<state, latch, generation, serving, export, old, obs, term, seed,
                     wrote, cut, raced>>
  BY Zenon DEF Commit
<1>2. \/ gen' = NextGen(h) /\ pending' = TRUE /\ UNCHANGED <<moves, torn>>
      \/ Moved /\ torn' = TRUE /\ UNCHANGED <<gen, pending>>
  BY Zenon DEF Commit
<1>3. /\ TxnOK' /\ UNCHANGED <<expected, staged>> /\ step'[h] = "committed"
      /\ \A k \in Hosts : k # h => step'[k] = step[k]
  BY <1>1, GotoEffect, Zenon DEF IInv
<1>4. FlagsOK' /\ HostOK'
  <2>1. NextGen(h) \in Gens
    BY <1>1, NextGenType, Zenon DEF IInv
  <2> QED
    BY <1>1, <1>2, <2>1, Zenon DEF IInv, HostInv, FlagsOK, HostOK, obs
<1>5. HomeInv'
  BY <1>1, <1>3, HomeStep, Zenon DEF IInv
<1>6. ~cut => /\ h = serving /\ gen = expected[serving] /\ latch[serving] = NextGen(serving)
              /\ step[serving] = "written" /\ step'[serving'] = "committed"
  BY <1>1, <1>3, Acting, Zenon DEF IInv, HostInv, TxnInv
<1>7. UNCHANGED <<latch, expected, generation, serving, seed, wrote, cut, raced>>
  BY <1>1, <1>3, Zenon
<1>8. ~cut => (gen' = gen /\ torn') \/ gen' = NextGen(serving)
  BY <1>2, <1>6, Zenon
<1>9. ObsOK' /\ ClearInv'
  <2>1. gen \in Nat /\ pend \in Nat
    BY DEF IInv, HostInv, HostOK, ObsOK
  <2>2. pend <= gen => pend <= gen + 1
    BY <2>1
  <2>3. ~cut => gen' = gen \/ gen' = gen + 1
    BY <1>6, <1>8, Zenon DEF NextGen
  <2> QED
    BY <1>1, <2>2, <2>3, Zenon DEF IInv, HostInv, ObsOK, ClearInv, obs
<1>10. TxnInv'
  BY <1>6, <1>7, <1>8, Zenon DEF TxnInv, NextGen, Early
<1>11. GenInv'
  BY <1>6, <1>7, <1>8, Zenon DEF GenInv, NextGen
<1>12. HostInv'
  BY <1>3, <1>4, <1>5, <1>9, <1>10, <1>11, Zenon DEF HostInv
<1>13. moves' \in 0..MoveMax
  <2>1. moves' = moves \/ (moves < MoveMax /\ moves' = moves + 1)
    BY <1>2, Zenon DEF Moved
  <2> QED
    BY <2>1 DEF IInv, MarkOK
<1>14. TermOK' /\ MarkOK'
  BY <1>1, <1>13, Zenon DEF IInv, TermOK, MarkOK, term
<1>15. ~cut => Top' = Top
  <2>1. gen \in Nat /\ gen + 1 # gen + 2
    BY DEF IInv, HostInv, HostOK
  <2>2. (gen + 1) + 1 = gen + 2
    BY <2>1
  <2> QED
    BY <1>6, <1>7, <1>8, <2>1, <2>2, Zenon DEF Top, NextGen
<1>16. FreshInv'
  <2>1. Traces' = Traces
    BY <1>1, Zenon DEF Traces, term, obs
  <2> QED
    BY <1>7, <1>12, <1>15, <2>1, FreshStep, Zenon
<1>17. LaunchInv'
  <2>1. UNCHANGED <<fg, bg, queue, open, marker, seen, done>>
    BY <1>1, Zenon DEF term, obs
  <2> QED
    BY <1>6, <1>7, <2>1, Zenon DEF IInv, LaunchInv, Early
<1>18. SeedInv'
  <2>1. ~cut /\ ~torn => seed = wrote \/ wrote < gen + 1
    <3>1. gen \in Nat /\ wrote \in Nat
      BY DEF IInv, HostInv, HostOK, MarkOK
    <3>2. wrote < gen \/ wrote <= gen => wrote < gen + 1
      BY <3>1
    <3> QED
      BY <1>6, <3>2, Zenon DEF IInv, SeedInv, Guarded
  <2>2. torn' = torn \/ torn'
    BY <1>2, Zenon
  <2> QED
    BY <1>6, <1>7, <1>8, <2>1, <2>2, Zenon DEF SeedInv, Guarded, NextGen
<1> QED
  BY <1>12, <1>14, <1>16, <1>17, <1>18, Zenon DEF IInv

\* The observer learns the generation.
LEMMA StoreKeeps == ASSUME IInv, NEW h \in Hosts, Store(h) PROVE IInv'
<1>1. /\ step[h] = "committed" /\ End(h)
      /\ generation' = [generation EXCEPT ![h] = NextGen(h)]
      /\ UNCHANGED <<manifest, latch, serving, export, old, obs, term, seed, hist>>
  BY Zenon DEF Store
<1>2. /\ TxnOK' /\ step'[h] = "idle"
      /\ \A k \in Hosts : k # h => step'[k] = step[k] /\ expected'[k] = expected[k]
  BY <1>1, EndEffect, Zenon DEF IInv
<1>3. generation' \in [Hosts -> 0..GenMax] /\ generation'[h] = NextGen(h)
  <2>1. NextGen(h) \in 0..GenMax
    BY <1>1, NextGenType, Zenon DEF IInv
  <2> QED
    BY <1>1, <2>1, Except, Zenon DEF IInv, HostInv, HostOK
<1>4. FlagsOK' /\ HostOK'
  BY <1>1, <1>3, Zenon DEF IInv, HostInv, FlagsOK, HostOK, obs, hist, manifest
<1>5. HomeInv'
  BY <1>1, <1>2, HomeStep, Zenon DEF IInv, hist
<1>6. ObsOK' /\ ClearInv'
  BY <1>1, PassFrame, Zenon DEF IInv, hist, manifest
<1>7. ~cut => h = serving /\ step[serving] = "committed" /\ step'[serving'] = "idle"
  BY <1>1, <1>2, Acting, Zenon DEF IInv
<1>8. UNCHANGED <<gen, latch, serving, seed, wrote, torn, cut, raced>>
  BY <1>1, Zenon DEF manifest, hist
<1>9. TxnInv'
  BY <1>7, <1>8, Zenon DEF TxnInv, Early
<1>10. GenInv'
  BY <1>3, <1>7, <1>8, Zenon DEF IInv, HostInv, GenInv
<1>11. HostInv'
  BY <1>2, <1>4, <1>5, <1>6, <1>9, <1>10, Zenon DEF HostInv
<1>12. TermOK' /\ MarkOK'
  BY <1>1, Zenon DEF IInv, TermOK, MarkOK, term, hist
<1>13. ~cut => Top' = Top
  BY <1>7, <1>8, Zenon DEF Top
<1>14. FreshInv'
  <2>1. Traces' = Traces
    BY <1>1, Zenon DEF Traces, term, obs, hist
  <2> QED
    BY <1>8, <1>11, <1>13, <2>1, FreshStep, Zenon
<1>15. LaunchInv'
  BY <1>1, <1>7, <1>8, Zenon DEF IInv, LaunchInv, term, obs, Early
<1>16. SeedInv'
  BY <1>7, <1>8, Zenon DEF IInv, SeedInv, Guarded
<1> QED
  BY <1>11, <1>12, <1>14, <1>15, <1>16, Zenon DEF IInv

-----------------------------------------------------------------------------
(* The observer.                                                             *)

\* The reads of an observer's pass; what it saw is a trace already.
LEMMA LookKeeps ==
  ASSUME IInv, pass' \in {"idle", "looked", "found"}, leader' \in BOOLEAN,
         seen' \in {0, seen, fg} \cup bg, seen' \in 0..GenMax,
         done' \in {0, done, marker}, pend' \in 0..GenMax,
         UNCHANGED <<manifest, latch, generation, txn, serving, export, old,
                     term, seed, hist>>
  PROVE  IInv'
<1>1. FlagsOK' /\ HostOK'
  BY Zenon DEF IInv, HostInv, FlagsOK, HostOK, hist, manifest
<1>2. TxnOK' /\ HomeInv' /\ TxnInv' /\ GenInv' /\ Top' = Top
  BY TxnFrame, Zenon DEF IInv, hist, manifest
<1>3. ObsOK'
  <2>1. 0 \in 0..GenMax
    OBVIOUS
  <2>2. done' \in 0..GenMax
    BY <2>1, Zenon DEF IInv, HostInv, ObsOK, TermOK
  <2>3. pass' \in {"idle", "looked", "found", "cleared", "released"}
    BY Zenon
  <2> QED
    BY <2>2, <2>3, Zenon DEF ObsOK
<1>4. ClearInv'
  BY Zenon DEF ClearInv
<1>5. HostInv'
  BY <1>1, <1>2, <1>3, <1>4, Zenon DEF HostInv
<1>6. TermOK' /\ MarkOK' /\ SeedInv'
  BY SeedFrame, Zenon DEF IInv, TermOK, MarkOK, term, hist, manifest
<1>7. FreshInv'
  <2>1. Traces' \subseteq Traces \cup {Shell, Job, Top'}
    BY Zenon DEF Traces, term, hist
  <2> QED
    BY <1>2, <1>5, <2>1, FreshStep, Zenon DEF hist
<1>8. LaunchInv'
  <2>1. \A i \in DOMAIN queue : queue[i] # 0
    BY DEF IInv, TermOK
  <2>2. UNCHANGED <<fg, bg, queue, open, marker, step, latch, serving, cut, raced>>
    BY Zenon DEF term, txn, hist
  <2>3. ASSUME ~cut, ~raced, NEW i \in DOMAIN queue, queue[i] # Job
        PROVE  queue[i] \notin {seen', done'}
    <3>1. queue[i] \notin {fg, open, marker, seen, done, 0} /\ bg = {}
      BY <2>1, <2>3, Zenon DEF IInv, LaunchInv
    <3> QED
      BY <3>1, Zenon
  <2> QED
    BY <2>2, <2>3, Zenon DEF IInv, LaunchInv
<1> QED
  BY <1>5, <1>6, <1>7, <1>8, Zenon DEF IInv

\* The foreground is read.
LEMMA ObserveForegroundKeeps == IInv /\ ObserveForeground => IInv'
<1> SUFFICES ASSUME IInv, ObserveForeground PROVE IInv'
  OBVIOUS
<1>1. /\ pass' = "looked" /\ leader' = (fg = Shell)
      /\ seen' = (IF fg \in Gens THEN fg ELSE 0)
      /\ UNCHANGED <<pend, done, manifest, latch, generation, txn, serving, export, old,
                     term, seed, hist>>
  BY Zenon DEF ObserveForeground
<1>2. seen' \in 0..GenMax /\ seen' \in {0, fg}
  BY <1>1
<1>3. leader' \in BOOLEAN /\ pend' \in 0..GenMax
  BY <1>1, Zenon DEF IInv, HostInv, ObsOK
<1> QED
  BY <1>1, <1>2, <1>3, LookKeeps, Zenon

\* Latch, processes and marker are read.
LEMMA ObserveProcessesKeeps == IInv /\ ObserveProcesses => IInv'
<1> SUFFICES ASSUME IInv, ObserveProcesses PROVE IInv'
  OBVIOUS
<1>1. UNCHANGED <<manifest, latch, generation, txn, serving, export, old, term, seed, hist>>
  BY Zenon DEF ObserveProcesses
<1>2. PICK agent \in IF seen = 0 /\ Recognized # {} THEN Recognized ELSE {seen} :
          Evidence(agent, Completion)
  BY Zenon DEF ObserveProcesses
<1>3. agent \in {seen} \cup Recognized
  BY <1>2, Zenon
<1>4. agent \in {seen, fg} \cup bg /\ agent \in 0..GenMax
  <2>1. Recognized \subseteq 0..GenMax
    BY DEF Recognized, IInv, TermOK
  <2> QED
    BY <1>3, <2>1, Zenon DEF Recognized, IInv, HostInv, ObsOK
<1>5. Completion \in {0, marker}
  BY Zenon DEF Completion
<1>6. latch[serving] \in 0..GenMax /\ leader \in BOOLEAN /\ 0 \in 0..GenMax
  <2>1. 0 \in 0..GenMax
    OBVIOUS
  <2> QED
    BY <2>1, Zenon DEF IInv, HostInv, HostOK, FlagsOK
<1>7. \/ pass' = "found" /\ pend' = latch[serving] /\ seen' = agent /\ done' = Completion
         /\ leader' = leader
      \/ Rest
  BY <1>2, Zenon DEF Evidence
<1>8. CASE Rest
  BY <1>1, <1>6, <1>8, LookKeeps, Zenon DEF Rest
<1>9. CASE /\ pass' = "found" /\ pend' = latch[serving] /\ seen' = agent /\ done' = Completion
           /\ leader' = leader
  BY <1>1, <1>4, <1>5, <1>6, <1>9, LookKeeps, Zenon
<1> QED
  BY <1>7, <1>8, <1>9, Zenon

\* The manifest's latch is released.
LEMMA ObserverClearKeeps == IInv /\ ObserverClear => IInv'
<1> SUFFICES ASSUME IInv, ObserverClear PROVE IInv'
  OBVIOUS
<1>1. UNCHANGED <<state, gen, latch, generation, txn, serving, export, old, term, seed,
                  wrote, torn, cut>>
  BY Zenon DEF ObserverClear
<1>2. \/ /\ gen = pend /\ pending' = FALSE /\ pass' = "cleared"
         /\ raced' = (raced \/ pend \notin {seen, done})
         /\ UNCHANGED <<seen, leader, pend, done, moves>>
      \/ Rest /\ UNCHANGED <<pending, raced>> /\ (moves' = moves \/ Moved)
  BY Zenon DEF ObserverClear
<1>3. TxnOK' /\ HomeInv' /\ TxnInv' /\ GenInv' /\ Top' = Top
  BY <1>1, TxnFrame, Zenon DEF IInv
<1>4. FlagsOK' /\ HostOK'
  <2>1. pending' \in BOOLEAN /\ leader' \in BOOLEAN /\ raced' \in BOOLEAN
    BY <1>2, Zenon DEF IInv, HostInv, FlagsOK, Rest
  <2> QED
    BY <1>1, <2>1, Zenon DEF IInv, HostInv, FlagsOK, HostOK
<1>5. /\ seen' \in {0, seen} /\ done' \in {0, done} /\ pend' \in {0, pend}
      /\ pass' \in {"idle", "cleared"} /\ (~raced' => ~raced)
      /\ pass' = "cleared" => /\ pend' = gen' /\ UNCHANGED <<seen, done>>
                              /\ raced' \/ pend' \in {seen', done'}
  <2>1. CASE Rest /\ UNCHANGED raced
    BY <2>1, Zenon DEF Rest
  <2>2. CASE /\ gen = pend /\ pass' = "cleared"
             /\ raced' = (raced \/ pend \notin {seen, done})
             /\ UNCHANGED <<seen, pend, done>>
    <3>1. raced \in BOOLEAN
      BY Zenon DEF IInv, HostInv, FlagsOK
    <3>2. (~raced' => ~raced) /\ (raced' \/ pend \in {seen, done})
      BY <2>2, <3>1, Zenon
    <3> QED
      BY <1>1, <2>2, <3>2, Zenon
  <2> QED
    BY <1>2, <2>1, <2>2, Zenon
<1>6. ObsOK'
  <2>1. 0 \in 0..GenMax
    OBVIOUS
  <2> QED
    BY <1>5, <2>1, Zenon DEF IInv, HostInv, ObsOK
<1>7. ClearInv'
  <2>1. gen <= gen
    BY DEF IInv, HostInv, HostOK
  <2> QED
    BY <1>1, <1>5, <2>1, Zenon DEF ClearInv
<1>8. HostInv'
  BY <1>3, <1>4, <1>6, <1>7, Zenon DEF HostInv
<1>9. moves' \in 0..MoveMax
  <2>1. moves' = moves \/ (moves < MoveMax /\ moves' = moves + 1)
    BY <1>2, Zenon DEF Moved
  <2> QED
    BY <2>1 DEF IInv, MarkOK
<1>10. TermOK' /\ MarkOK' /\ SeedInv'
  BY <1>1, <1>9, SeedFrame, Zenon DEF IInv, TermOK, MarkOK, term
<1>11. FreshInv'
  <2>1. Traces' \subseteq Traces \cup {Shell, Job, Top'}
    BY <1>1, <1>5, Zenon DEF Traces, term
  <2> QED
    BY <1>1, <1>3, <1>8, <2>1, FreshStep, Zenon
<1>12. LaunchInv'
  <2>1. \A i \in DOMAIN queue : queue[i] # 0
    BY DEF IInv, TermOK
  <2>2. UNCHANGED <<fg, bg, queue, open, marker, step, latch, serving, cut>>
    BY <1>1, Zenon DEF term, txn
  <2> QED
    BY <1>5, <2>1, <2>2, Zenon DEF IInv, LaunchInv
<1> QED
  BY <1>8, <1>10, <1>11, <1>12, Zenon DEF IInv

\* The atomic is released: never that of a line the shell has not read.
LEMMA ObserverReleaseKeeps == IInv /\ ObserverRelease => IInv'
<1> SUFFICES ASSUME IInv, ObserverRelease PROVE IInv'
  OBVIOUS
<1>1. /\ pass = "cleared"
      /\ latch' = [latch EXCEPT ![serving] = IF latch[serving] = pend THEN 0 ELSE latch[serving]]
      /\ UNCHANGED <<manifest, generation, txn, serving, export, old, term, seed, hist>>
  BY Zenon DEF ObserverRelease
<1>2. /\ seen' \in {0, seen} /\ done' \in {0, done} /\ pend' \in {0, pend}
      /\ pass' \in {"idle", "released"} /\ leader' \in {FALSE, leader}
  BY Zenon DEF ObserverRelease, Rest
<1>3. /\ latch' \in [Hosts -> 0..GenMax] /\ latch'[serving] \in 0..GenMax
      /\ latch[serving] = pend => latch'[serving] = 0
      /\ latch[serving] # pend => latch'[serving] = latch[serving]
  <2>1. 0 \in 0..GenMax /\ serving \in Hosts
    <3>1. 0 \in 0..GenMax
      OBVIOUS
    <3> QED
      BY <3>1, Zenon DEF IInv, HostInv, HostOK
  <2>2. (IF latch[serving] = pend THEN 0 ELSE latch[serving]) \in 0..GenMax
    BY <2>1, Zenon DEF IInv, HostInv, HostOK
  <2>3. /\ latch' \in [Hosts -> 0..GenMax]
        /\ latch'[serving] = IF latch[serving] = pend THEN 0 ELSE latch[serving]
    BY <1>1, <2>1, <2>2, Except, Zenon DEF IInv, HostInv, HostOK
  <2> QED
    BY <2>2, <2>3, Zenon
<1>4. FlagsOK' /\ HostOK'
  BY <1>1, <1>2, <1>3, Zenon DEF IInv, HostInv, FlagsOK, HostOK, manifest, hist
<1>5. TxnOK' /\ HomeInv'
  BY <1>1, Zenon DEF IInv, HostInv, TxnOK, HomeInv, txn, hist
<1>6. UNCHANGED <<gen, generation, step, expected, serving, torn, cut, raced>>
  BY <1>1, Zenon DEF manifest, txn, hist
<1>7. ~cut => pend # gen + 1 /\ (raced \/ pend \in {seen, done})
  <2>1. gen \in Nat /\ pend \in Nat
    BY DEF IInv, HostInv, HostOK, ObsOK
  <2>2. pend <= gen => pend # gen + 1
    BY <2>1
  <2> QED
    BY <1>1, <2>2, Zenon DEF IInv, HostInv, ClearInv
<1>8. TxnInv'
  BY <1>3, <1>6, <1>7, Zenon DEF IInv, HostInv, TxnInv, NextGen
<1>9. GenInv'
  BY <1>6, Zenon DEF IInv, HostInv, GenInv, NextGen
<1>10. ObsOK'
  <2>1. 0 \in 0..GenMax
    OBVIOUS
  <2> QED
    BY <1>2, <2>1, Zenon DEF IInv, HostInv, ObsOK
<1>11. ClearInv'
  BY <1>2, Zenon DEF ClearInv
<1>12. HostInv'
  BY <1>4, <1>5, <1>8, <1>9, <1>10, <1>11, Zenon DEF HostInv
<1>13. TermOK' /\ MarkOK' /\ SeedInv'
  BY <1>1, SeedFrame, Zenon DEF IInv, TermOK, MarkOK, term, hist, manifest
<1>14. ~cut => Top' = Top
  <2>1. gen + 1 # 0
    BY DEF IInv, HostInv, HostOK
  <2> QED
    BY <1>3, <1>6, <1>7, <2>1, Zenon DEF Top
<1>15. FreshInv'
  <2>1. Traces' \subseteq Traces \cup {Shell, Job, Top'}
    BY <1>1, <1>2, Zenon DEF Traces, term, hist
  <2> QED
    BY <1>6, <1>12, <1>14, <2>1, FreshStep, Zenon
<1>16. LaunchInv'
  <2>1. \A i \in DOMAIN queue : queue[i] # 0
    BY DEF IInv, TermOK
  <2>2. UNCHANGED <<fg, bg, queue, open, marker>>
    BY <1>1, Zenon DEF term
  <2>3. ~cut /\ ~raced /\ LaunchQueued => latch'[serving] = latch[serving]
    BY <1>3, <1>7, Zenon DEF IInv, LaunchInv, LaunchQueued
  <2> QED
    BY <1>2, <1>6, <2>1, <2>2, <2>3, Zenon DEF IInv, LaunchInv, LaunchQueued
<1> QED
  BY <1>12, <1>13, <1>15, <1>16, Zenon DEF IInv

\* The marker is removed.
LEMMA ObserverRemoveKeeps == IInv /\ ObserverRemove => IInv'
<1> SUFFICES ASSUME IInv, ObserverRemove PROVE IInv'
  OBVIOUS
<1>1. /\ marker' = 0 /\ Rest /\ (~raced' => ~raced) /\ raced' \in BOOLEAN
      /\ UNCHANGED <<manifest, latch, generation, txn, serving, export, old,
                     fg, bg, queue, open, seed, moves, wrote, torn, cut>>
  BY Zenon DEF ObserverRemove
<1>2. TxnOK' /\ HomeInv' /\ TxnInv' /\ GenInv' /\ Top' = Top
  BY <1>1, TxnFrame, Zenon DEF IInv, manifest
<1>3. FlagsOK' /\ HostOK'
  BY <1>1, Zenon DEF IInv, HostInv, FlagsOK, HostOK, Rest, manifest
<1>4. 0 \in 0..GenMax
  OBVIOUS
<1>5. ObsOK' /\ ClearInv'
  BY <1>1, <1>4, Zenon DEF ObsOK, ClearInv, Rest
<1>6. HostInv'
  BY <1>2, <1>3, <1>5, Zenon DEF HostInv
<1>7. TermOK' /\ MarkOK' /\ SeedInv'
  BY <1>1, <1>4, SeedFrame, Zenon DEF IInv, TermOK, MarkOK, manifest
<1>8. FreshInv'
  <2>1. Traces' \subseteq Traces \cup {Shell, Job, Top'}
    BY <1>1, Zenon DEF Traces, Rest
  <2> QED
    BY <1>1, <1>2, <1>6, <2>1, FreshStep, Zenon
<1>9. LaunchInv'
  <2>1. \A i \in DOMAIN queue : queue[i] # 0
    BY DEF IInv, TermOK
  <2>2. /\ UNCHANGED <<fg, bg, queue, open, step, latch, serving, cut>>
        /\ seen' = 0 /\ done' = 0 /\ marker' = 0 /\ (~raced' => ~raced)
    BY <1>1, Zenon DEF txn, Rest
  <2> QED
    BY <2>1, <2>2, Zenon DEF IInv, LaunchInv
<1> QED
  BY <1>6, <1>7, <1>8, <1>9, Zenon DEF IInv

-----------------------------------------------------------------------------
(* The handoff.                                                              *)

\* The latch is read for a handoff, or the handoff fails.
LEMMA ExportKeeps == ASSUME IInv, Export \/ Unexport PROVE IInv'
<1>1. /\ export' \in {-1, latch[1]} /\ (moves' = moves \/ Moved)
      /\ UNCHANGED <<manifest, latch, generation, txn, serving, old, obs, term, seed,
                     wrote, torn, cut, raced>>
  BY Zenon DEF Export, Unexport, hist
<1>2. serving = 2 => export' = -1
  <2>1. 1 # 2
    OBVIOUS
  <2> QED
    BY <2>1, Zenon DEF Export, Unexport
<1>3. export' \in -1..GenMax
  <2>1. latch[1] \in 0..GenMax
    BY Zenon DEF IInv, HostInv, HostOK
  <2> QED
    BY <1>1, <2>1
<1>4. FlagsOK' /\ HostOK'
  BY <1>1, <1>3, Zenon DEF IInv, HostInv, FlagsOK, HostOK, obs, manifest
<1>5. HomeInv' /\ TxnOK'
  BY <1>1, <1>2, Zenon DEF IInv, HostInv, HomeInv, TxnOK, txn
<1>6. TxnInv' /\ GenInv' /\ Top' = Top
  BY <1>1, Zenon DEF IInv, HostInv, TxnInv, GenInv, Top, NextGen, manifest, txn
<1>7. ObsOK' /\ ClearInv'
  BY <1>1, PassFrame, Zenon DEF IInv, manifest
<1>8. HostInv'
  BY <1>4, <1>5, <1>6, <1>7, Zenon DEF HostInv
<1>9. moves' \in 0..MoveMax
  <2>1. moves' = moves \/ (moves < MoveMax /\ moves' = moves + 1)
    BY <1>1, Zenon DEF Moved
  <2> QED
    BY <2>1 DEF IInv, MarkOK
<1>10. TermOK' /\ MarkOK' /\ SeedInv'
  BY <1>1, <1>9, SeedFrame, Zenon DEF IInv, TermOK, MarkOK, term, manifest
<1>11. FreshInv'
  <2>1. Traces' = Traces
    BY <1>1, Zenon DEF Traces, term, obs
  <2> QED
    BY <1>1, <1>6, <1>8, <2>1, FreshStep, Zenon
<1>12. LaunchInv'
  BY <1>1, Zenon DEF IInv, LaunchInv, term, txn, obs
<1> QED
  BY <1>8, <1>10, <1>11, <1>12, Zenon DEF IInv

\* The new core takes over the latch and reads the generation.
LEMMA AdoptKeeps == IInv /\ Adopt => IInv'
<1> SUFFICES ASSUME IInv, Adopt PROVE IInv'
  OBVIOUS
<1>1. /\ export # -1 /\ serving' = 2 /\ export' = -1
      /\ latch' = [latch EXCEPT ![2] = export]
      /\ generation' = [generation EXCEPT ![2] = gen]
      /\ cut' = (step[1] # "idle" \/ latch[1] # export)
      /\ UNCHANGED <<manifest, txn, old, obs, term, seed, moves, wrote, torn, raced>>
  BY Zenon DEF Adopt
<1>2. serving = 1 /\ ~cut /\ step[2] = "idle"
  BY <1>1, Zenon DEF IInv, HostInv, HostOK, HomeInv
<1>3. 2 \in Hosts /\ export \in 0..GenMax /\ gen \in 0..GenMax /\ 1 # 2
  BY <1>1 DEF IInv, HostInv, HostOK
<1>4. /\ latch' \in [Hosts -> 0..GenMax] /\ latch'[2] = export
      /\ generation' \in [Hosts -> 0..GenMax] /\ generation'[2] = gen
  BY <1>1, <1>3, Except, Zenon DEF IInv, HostInv, HostOK
<1>5. cut' \in BOOLEAN /\ (~cut' => step[1] = "idle" /\ latch[1] = export)
  BY <1>1, Zenon
<1>6. -1 \in -1..GenMax
  OBVIOUS
<1>7. FlagsOK' /\ HostOK'
  BY <1>1, <1>3, <1>4, <1>5, <1>6, Zenon DEF IInv, HostInv, FlagsOK, HostOK, obs, manifest
<1>8. UNCHANGED <<gen, step, expected, staged, seed, wrote, torn, raced>>
  BY <1>1, Zenon DEF manifest, txn
<1>9. HomeInv' /\ TxnOK'
  BY <1>1, <1>3, <1>5, <1>8, Zenon DEF IInv, HostInv, HomeInv, TxnOK
<1>10. TxnInv' /\ GenInv'
  BY <1>1, <1>2, <1>4, <1>8, Zenon DEF TxnInv, GenInv, Early
<1>11. ObsOK' /\ ClearInv'
  <2>1. UNCHANGED <<pass, seen, pend, done, gen, raced>>
    BY <1>1, Zenon DEF obs, manifest
  <2> QED
    BY <1>2, <2>1, Zenon DEF IInv, HostInv, ObsOK, ClearInv
<1>12. HostInv'
  BY <1>7, <1>9, <1>10, <1>11, Zenon DEF HostInv
<1>13. TermOK' /\ MarkOK'
  BY <1>1, Zenon DEF IInv, TermOK, MarkOK, term
<1>14. ~cut' => Top' = Top
  BY <1>1, <1>2, <1>4, <1>5, <1>8, Zenon DEF Top
<1>15. FreshInv'
  <2>1. Traces' = Traces
    BY <1>1, Zenon DEF Traces, term, obs
  <2> QED
    BY <1>2, <1>12, <1>14, <2>1, FreshStep, Zenon
<1>16. LaunchInv'
  <2>1. UNCHANGED <<fg, bg, queue, open, marker, seen, done>>
    BY <1>1, Zenon DEF term, obs
  <2>2. ~cut' => latch'[serving'] = latch[serving]
    BY <1>1, <1>2, <1>4, <1>5, Zenon
  <2>3. step'[serving'] = "idle"
    BY <1>1, <1>2, <1>8, Zenon
  <2> QED
    BY <1>2, <1>8, <2>1, <2>2, <2>3, Zenon DEF IInv, LaunchInv, Early
<1>17. SeedInv'
  <2>1. step'[serving'] = "idle"
    BY <1>1, <1>2, <1>8, Zenon
  <2>2. ~cut' => step[serving] = "idle"
    BY <1>2, <1>5, Zenon
  <2> QED
    BY <1>2, <1>8, <2>1, <2>2, Zenon DEF IInv, SeedInv, Guarded
<1> QED
  BY <1>12, <1>13, <1>15, <1>16, <1>17, Zenon DEF IInv

\* The old core leaves.
LEMMA LeaveKeeps == IInv /\ Leave => IInv'
<1> SUFFICES ASSUME IInv, Leave PROVE IInv'
  OBVIOUS
<1>1. /\ serving = 2 /\ old' = FALSE /\ End(1)
      /\ UNCHANGED <<manifest, latch, generation, serving, export, obs, term, seed, hist>>
  BY Zenon DEF Leave
<1>2. 1 \in Hosts /\ 2 \in Hosts /\ 1 # 2
  OBVIOUS
<1>3. /\ TxnOK' /\ step'[1] = "idle"
      /\ step'[2] = step[2] /\ expected'[2] = expected[2] /\ staged'[2] = staged[2]
  BY <1>1, <1>2, EndEffect, Zenon DEF IInv
<1>4. FlagsOK' /\ HostOK'
  BY <1>1, Zenon DEF IInv, HostInv, FlagsOK, HostOK, obs, hist, manifest
<1>5. HomeInv'
  BY <1>1, <1>2, <1>3, Zenon DEF IInv, HostInv, HomeInv, hist
<1>6. UNCHANGED <<gen, latch, generation, serving, seed, wrote, torn, cut, raced>>
  BY <1>1, Zenon DEF manifest, hist
<1>7. /\ step'[serving] = step[serving] /\ expected'[serving] = expected[serving]
      /\ staged'[serving] = staged[serving]
  BY <1>1, <1>3, Zenon
<1>8. TxnInv' /\ GenInv'
  BY <1>6, <1>7, Zenon DEF IInv, HostInv, TxnInv, GenInv, NextGen
<1>9. ObsOK' /\ ClearInv'
  BY <1>1, PassFrame, Zenon DEF IInv, hist, manifest
<1>10. HostInv'
  BY <1>3, <1>4, <1>5, <1>8, <1>9, Zenon DEF HostInv
<1>11. TermOK' /\ MarkOK'
  BY <1>1, Zenon DEF IInv, TermOK, MarkOK, term, hist
<1>12. Top' = Top
  BY <1>6, <1>7, Zenon DEF Top
<1>13. FreshInv'
  <2>1. Traces' = Traces
    BY <1>1, Zenon DEF Traces, term, obs, hist
  <2> QED
    BY <1>6, <1>10, <1>12, <2>1, FreshStep, Zenon
<1>14. LaunchInv'
  <2>1. UNCHANGED <<fg, bg, queue, open, marker, seen, done>>
    BY <1>1, Zenon DEF term, obs
  <2> QED
    BY <1>6, <1>7, <2>1, Zenon DEF IInv, LaunchInv
<1>15. SeedInv'
  BY <1>6, <1>7, Zenon DEF IInv, SeedInv, Guarded
<1> QED
  BY <1>10, <1>11, <1>13, <1>14, <1>15, Zenon DEF IInv

-----------------------------------------------------------------------------
(* The theorems.                                                             *)

\* A step that changes nothing.
LEMMA StutterKeeps == IInv /\ UNCHANGED vars => IInv'
<1> SUFFICES ASSUME IInv, UNCHANGED vars PROVE IInv'
  OBVIOUS
<1>1. UNCHANGED <<host, term, seed, hist>>
  BY Zenon DEF vars
<1>2. HostInv' /\ Top' = Top
  BY <1>1, HostFrame, Zenon DEF IInv, hist
<1>3. TermOK' /\ MarkOK' /\ SeedInv'
  BY <1>1, SeedFrame, Zenon DEF IInv, TermOK, MarkOK, term, hist, host, manifest
<1>4. FreshInv'
  <2>1. Traces' = Traces
    BY <1>1, Zenon DEF Traces, term, host, obs, hist
  <2> QED
    BY <1>1, <1>2, <2>1, FreshStep, Zenon DEF hist
<1>5. LaunchInv'
  BY <1>1, Zenon DEF IInv, LaunchInv, term, host, txn, obs, hist
<1> QED
  BY <1>2, <1>3, <1>4, <1>5, Zenon DEF IInv

\* Managed startup.
LEMMA InitInv == Init => IInv
<1> SUFFICES ASSUME Init PROVE IInv
  OBVIOUS
<1>1. 1 \in Hosts /\ 2 \in Hosts /\ 1 # 2 /\ 1 # 0 /\ 1 # Job /\ 1 \in Gens /\ -1 \in -1..GenMax
  OBVIOUS
<1>2. \A n \in {0, 1} : n \in 0..GenMax /\ n <= 1
  OBVIOUS
<1>3. /\ latch \in [Hosts -> 0..GenMax] /\ generation = latch
      /\ latch[1] = 1 /\ latch[2] = 0 /\ serving = 1
  BY <1>1, <1>2, Zenon DEF Init
<1>4. /\ step = [h \in Hosts |-> "idle"] /\ step[1] = "idle" /\ step[2] = "idle"
      /\ expected = [h \in Hosts |-> 0] /\ staged = [h \in Hosts |-> 0]
  BY <1>1, Zenon DEF Init
<1>5. FlagsOK
  BY Zenon DEF Init, FlagsOK
<1>6. HostOK
  BY <1>1, <1>3, Zenon DEF Init, HostOK
<1>7. TxnOK
  BY <1>2, <1>4, Zenon DEF TxnOK
<1>8. ObsOK /\ ClearInv
  BY <1>2, Zenon DEF Init, ObsOK, ClearInv
<1>9. HomeInv
  BY <1>1, <1>4, Zenon DEF Init, HomeInv
<1>10. TxnInv /\ GenInv
  BY <1>1, <1>3, <1>4, Zenon DEF Init, TxnInv, GenInv, Early
<1>11. HostInv
  BY <1>5, <1>6, <1>7, <1>8, <1>9, <1>10, Zenon DEF HostInv
<1>12. queue = <<1>> /\ DOMAIN queue = {1} /\ queue[1] = 1 /\ queue \in Seq(1..Job)
  BY DEF Init
<1>13. TermOK
  BY <1>12 DEF Init, TermOK
<1>14. MarkOK
  BY DEF Init, MarkOK
<1>15. FreshInv
  <2>1. Top = 1
    <3>1. 1 # 1 + 1 /\ gen = 1
      BY DEF Init
    <3> QED
      BY <1>3, <3>1, Zenon DEF Top
  <2>2. Traces \subseteq {0, 1}
    BY <1>12, Zenon DEF Traces, Init, Shell
  <2> QED
    BY <1>2, <2>1, <2>2, Zenon DEF FreshInv
<1>16. LaunchInv
  <2>1. 0 \notin Gens /\ fg = 0 /\ bg = {} /\ open = 0 /\ marker = 0 /\ seen = 0 /\ done = 0
    BY DEF Init
  <2> QED
    BY <1>1, <1>3, <1>4, <1>12, <2>1, Zenon DEF LaunchInv, Early
<1>17. SeedInv
  BY <1>3, <1>4, Zenon DEF SeedInv, Guarded, Init
<1> QED
  BY <1>11, <1>13, <1>14, <1>15, <1>16, <1>17, Zenon DEF IInv

\* IInv holds in every reachable state, whatever the lines and signals of the
\* user, the failing writes, the passes of the observer and the handoffs.
THEOREM Inductive == Spec => []IInv
<1>1. IInv /\ [Next]_vars => IInv'
  BY StartLineKeeps, EndJobKeeps, SuspendKeeps, ContinueKeeps, CompleteKeeps, TypeKeeps,
     HookWriteKeeps, ExitKeeps, BeginKeeps, PrepareKeeps, PublishKeeps, LatchKeeps,
     WriteKeeps, CommitKeeps, StoreKeeps, ObserveForegroundKeeps, ObserveProcessesKeeps,
     ObserverClearKeeps, ObserverReleaseKeeps, ObserverRemoveKeeps, ExportKeeps,
     AdoptKeeps, LeaveKeeps, StutterKeeps, Zenon
     DEF Next, Transaction, Observer
<1> QED
  BY <1>1, InitInv, PTL DEF Spec

\* No Controller types a launch line behind one the shell has not started, or
\* into an agent (resume_agent_in_place), outside the windows raced and cut.
THEOREM OnlyOneLaunch == Spec => []OneLaunch
<1>1. IInv => OneLaunch
  BY Zenon DEF IInv, LaunchInv, OneLaunch, LaunchQueued
<1> QED
  BY <1>1, Inductive, PTL

\* While a launch line waits for the shell, the manifest's latch or the atomic
\* of the serving host is up, so that every other resume is refused.
THEOREM LatchAlwaysCovers == Spec => []LatchCovers
<1>1. IInv => LatchCovers
  <2> SUFFICES ASSUME IInv PROVE LatchCovers
    OBVIOUS
  <2>1. \A i \in DOMAIN queue : queue[i] # 0
    BY DEF IInv, TermOK
  <2> QED
    BY <2>1, Zenon DEF IInv, LaunchInv, LatchCovers, LaunchQueued, Pending
<1> QED
  BY <1>1, Inductive, PTL

\* Between resumes the host that serves knows the generation on disk, also
\* after a handoff.
THEOREM GenerationAlwaysKnown == Spec => []GenerationKnown
<1>1. IInv => GenerationKnown
  BY Zenon DEF IInv, HostInv, GenInv, GenerationKnown
<1> QED
  BY <1>1, Inductive, PTL

\* A resume refused at any step gives the hook seed back, and never over a
\* newer one (StagedRestartMarker::rollback).
THEOREM SeedIsKept == Spec => []SeedKept
<1>1. IInv => SeedKept
  BY Zenon DEF IInv, HostInv, HostOK, SeedInv, SeedKept, Guarded
<1> QED
  BY <1>1, Inductive, PTL
=============================================================================
