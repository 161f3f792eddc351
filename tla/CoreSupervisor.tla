--------------------------- MODULE CoreSupervisor ---------------------------
(***************************************************************************)
(* The worker's supervisor of the PTY core (pty_core_supervisor.rs),       *)
(* composed with the core processes as CoreHome describes them.  It        *)
(* starts, adopts and respawns cores, replaces one of another build, and   *)
(* never signals one.  Elapsed times (health interval, restart delay,      *)
(* rapid-exit window, takeover timeout) are choices: a poll whose interval *)
(* has not passed changes nothing.                                         *)
(***************************************************************************)
EXTENDS CoreHome, Naturals, FiniteSets

CONSTANTS MaxRapid,   \* MAX_RAPID_FAILURES
          BuildMax,   \* host builds installed while the model runs
          FaultMax    \* crashes, stalls and worker exits

ASSUME SupervisorConstants ==
    None \notin Cores /\ MaxRapid \in Nat \ {0} /\ BuildMax \in Nat /\ FaultMax \in Nat

VARIABLES
    sup,     \* PtyCoreSupervisor of the running worker
    atSkew,  \* check_build_skew is the next thing the worker does
    allow,   \* in-place takeover is allowed (off unless asked for)
    mode,    \* what each process was started for
    build,   \* host build of each process
    current, \* build the worker would launch
    asked,   \* processes with a shutdown request to decide
    busy,    \* processes that do not answer within PING_TIMEOUT
    faults

envVars == <<allow, mode, build, current, asked, busy, faults>>
vars == <<homeVars, sup, atSkew, envVars>>

Maybe == Cores \cup {None}

TypeOK ==
    /\ HomeTypeOK
    /\ sup \in [state : {"off", "starting", "live", "adopted", "handing_off", "failed"},
                child : Maybe, pid : Maybe, sessions : {"none", "zero", "some"},
                due : BOOLEAN, rapid : 0..MaxRapid, from : Maybe,
                tried : Maybe \X (0..BuildMax), seen : Maybe]
    /\ atSkew \in BOOLEAN /\ allow \in BOOLEAN
    /\ mode \in [Cores -> {"none", "serve", "takeover"}]
    /\ build \in [Cores -> 0..BuildMax] /\ current \in 0..BuildMax
    /\ asked \subseteq Cores /\ busy \subseteq Cores /\ faults \in 0..FaultMax

Off == [state |-> "off", child |-> None, pid |-> None, sessions |-> "none",
        due |-> FALSE, rapid |-> 0, from |-> None, tried |-> <<None, 0>>, seen |-> None]

Init ==
    /\ HomeInit
    /\ sup = Off /\ atSkew = FALSE /\ allow \in BOOLEAN
    /\ mode = [c \in Cores |-> "none"] /\ build = [c \in Cores |-> 0]
    /\ current = 0 /\ asked = {} /\ busy = {} /\ faults = 0
-----------------------------------------------------------------------------
(* What the supervisor sees of the processes.                              *)

Serving == {c \in Cores : stage[c] = "serving"}

\* Who answers a ping on the socket: any process that accepts there; None when
\* nobody does or the one that took the connection is too slow.
Pings ==
    IF socket /\ Serving # {} THEN {IF c \in busy THEN None ELSE c : c \in Serving}
    ELSE {None}

Count(c) == IF load[c] = {} THEN "zero" ELSE "some"

\* adoptable: the record's process exists and answers under its own pid.
Adoptable(r) == r # None /\ r = record

\* A pid whose process is gone and that nothing refers to any more.
Free == {c \in Cores :
            /\ \/ mode[c] = "none"
               \/ stage[c] = "exited"
            /\ c \notin {record, sup.child, sup.pid, sup.from, sup.seen, sup.tried[1]}}

\* A new process of the worker's own build.
Launched(c, m) ==
    /\ stage' = [stage EXCEPT ![c] = "off"] /\ mode' = [mode EXCEPT ![c] = m]
    /\ build' = [build EXCEPT ![c] = current] /\ given' = given \ {c}
    /\ asked' = asked \ {c} /\ busy' = busy \ {c}
    /\ UNCHANGED <<lock, socket, record, load>>
-----------------------------------------------------------------------------
(* Steps of the supervisor.                                                *)

Adopted(s, r) ==
    [s EXCEPT !.state = "adopted", !.pid = r, !.sessions = Count(r), !.rapid = 0,
              !.due = FALSE]

\* spawn: no binary is not a crash loop.
Spawn(s) ==
    \/ \E c \in Free :
          /\ sup' = [s EXCEPT !.child = c, !.pid = c, !.sessions = "none",
                              !.state = "starting"]
          /\ Launched(c, "serve")
    \/ /\ sup' = [s EXCEPT !.state = "failed", !.due = FALSE]
       /\ UNCHANGED <<homeVars, mode, build, asked, busy>>

AdoptOrSpawn(s) ==
    \E r \in Pings :
       IF Adoptable(r)
       THEN sup' = Adopted(s, r) /\ UNCHANGED <<homeVars, mode, build, asked, busy>>
       ELSE Spawn(s)

Start ==
    /\ sup.state = "off"
    /\ AdoptOrSpawn([Off EXCEPT !.state = "starting"])
    /\ atSkew' = TRUE
    /\ UNCHANGED <<allow, current, faults>>

\* Mutant: an exit is counted before the record is looked at.
ReapCounting(s) ==
    LET gone == [s EXCEPT !.child = None, !.pid = None, !.sessions = "none"]
    IN  \E n \in {0, s.rapid + 1} :
           sup' = IF n >= MaxRapid
                  THEN [gone EXCEPT !.rapid = n, !.state = "failed", !.due = FALSE]
                  ELSE [gone EXCEPT !.rapid = n, !.state = "starting", !.due = TRUE]

\* reap_own_child, when the child has exited: another core may serve the home.
Reap(s) ==
    LET gone == [s EXCEPT !.child = None, !.pid = None, !.sessions = "none"]
    IN  \E r \in Pings, n \in {0, s.rapid + 1} :
           sup' = IF Adoptable(r) THEN Adopted(gone, r)
                  ELSE IF n >= MaxRapid
                  THEN [gone EXCEPT !.rapid = n, !.state = "failed", !.due = FALSE]
                  ELSE [gone EXCEPT !.rapid = n, !.state = "starting", !.due = TRUE]

\* Every poll but those that start a process leaves the processes alone.
OnlySup == UNCHANGED <<homeVars, atSkew, envVars>>

Exited(c) == c # None /\ stage[c] = "exited"

\* Mutant: a child that exits before it answers is not reaped.
PollStartingUnreaped ==
    /\ sup.state = "starting" /\ sup.child # None /\ ~atSkew
    /\ record # None /\ record = sup.pid
    /\ \E r \in Pings \ {None} :
          sup' = [sup EXCEPT !.state = "live", !.sessions = Count(r), !.rapid = 0]
    /\ OnlySup

PollStarting ==
    /\ sup.state = "starting" /\ sup.child # None /\ ~atSkew
    /\ IF Exited(sup.child) THEN Reap(sup)
       ELSE /\ record # None /\ record = sup.pid
            /\ \E r \in Pings \ {None} :
                  sup' = [sup EXCEPT !.state = "live", !.sessions = Count(r), !.rapid = 0]
    /\ OnlySup

\* The restart delay is over.
Respawn ==
    /\ sup.state = "starting" /\ sup.child = None /\ sup.due /\ ~atSkew
    /\ AdoptOrSpawn([sup EXCEPT !.due = FALSE])
    /\ UNCHANGED <<atSkew, allow, current, faults>>

PollLive ==
    /\ sup.state = "live" /\ ~atSkew
    /\ IF Exited(sup.child) THEN Reap(sup)
       ELSE /\ record # None /\ record = sup.pid
            /\ \E r \in Pings \ {None} : sup' = [sup EXCEPT !.sessions = Count(r)]
    /\ OnlySup

\* recorded_pid_identity: a start time that is not this process's own.
NotOurs(p, started) == stage[p] = "exited" \/ started \notin {p, None}

\* Mutant: a core that is named but does not answer counts as lost.
PollAdoptedHasty ==
    /\ sup.state = "adopted" /\ sup.pid # None /\ ~atSkew
    /\ \E r \in Pings :
          IF record = sup.pid /\ Adoptable(r)
          THEN /\ sup' = [sup EXCEPT !.sessions = Count(r), !.seen = sup.pid]
               /\ atSkew' = TRUE
          ELSE /\ sup' = [sup EXCEPT !.pid = None, !.sessions = "none",
                                     !.state = "starting", !.due = TRUE]
               /\ UNCHANGED atSkew
    /\ UNCHANGED <<homeVars, envVars>>

\* The start time compared is the record's, whoever it names, else the one
\* remembered.
PollAdopted ==
    /\ sup.state = "adopted" /\ sup.pid # None /\ ~atSkew
    /\ \E r \in Pings :
          IF record = sup.pid /\ Adoptable(r)
          THEN /\ sup' = [sup EXCEPT !.sessions = Count(r), !.seen = sup.pid]
               /\ atSkew' = TRUE
          ELSE /\ NotOurs(sup.pid, IF record # None THEN record ELSE sup.seen)
               /\ sup' = [sup EXCEPT !.pid = None, !.sessions = "none",
                                     !.state = "starting", !.due = TRUE]
               /\ UNCHANGED atSkew
    /\ UNCHANGED <<homeVars, envVars>>

\* check_build_skew of an adopted core of another build: drained when empty,
\* or taken over, once for each core and build.
Skewed ==
    sup.state = "adopted" /\ record # None /\ record = sup.pid /\ build[record] # current

CheckFits ==
    /\ atSkew /\ atSkew' = FALSE
    /\ ~Skewed \/ (allow /\ sup.tried = <<sup.pid, current>>)
    /\ UNCHANGED <<homeVars, sup, envVars>>

\* Mutant: the older core is left alone even when it is empty.
DrainNever ==
    /\ atSkew /\ atSkew' = FALSE /\ Skewed /\ ~allow
    /\ UNCHANGED <<homeVars, sup, allow, asked, mode, build, current, busy, faults>>

\* drain_older_core: the request goes to whoever accepts on the socket.
Drain ==
    /\ atSkew /\ atSkew' = FALSE /\ Skewed /\ ~allow
    /\ IF sup.sessions = "zero" /\ socket /\ Serving # {}
       THEN \E c \in Serving : asked' = asked \cup {c}
       ELSE UNCHANGED asked
    /\ UNCHANGED <<homeVars, sup, allow, mode, build, current, busy, faults>>

Takeover ==
    /\ atSkew /\ atSkew' = FALSE /\ Skewed /\ allow
    /\ sup.tried # <<sup.pid, current>>
    /\ \/ \E c \in Free :
             /\ sup' = [sup EXCEPT !.tried = <<sup.pid, current>>, !.child = c,
                                   !.state = "handing_off", !.from = sup.pid]
             /\ Launched(c, "takeover")
       \/ /\ sup' = [sup EXCEPT !.tried = <<sup.pid, current>>]
          /\ UNCHANGED <<homeVars, mode, build, asked, busy>>
    /\ UNCHANGED <<allow, current, faults>>

\* poll_handing_off: the child exited; or it is the recorded core and somebody
\* answers; or TAKEOVER_TIMEOUT is over, and the child is kept.
PollHandingOff ==
    /\ sup.state = "handing_off"
    /\ IF Exited(sup.child)
       THEN sup' = [sup EXCEPT !.child = None, !.from = None, !.state = "adopted"]
       ELSE \E r \in Pings :
               IF r # None /\ record = sup.child
               THEN sup' = [sup EXCEPT !.state = "live", !.pid = sup.child, !.rapid = 0,
                                       !.sessions = Count(r), !.from = None]
               ELSE sup' = [sup EXCEPT !.from = None, !.state = "adopted"]
    /\ OnlySup

\* The worker exits or crashes; its children run on.
WorkerExit ==
    /\ sup.state # "off" /\ faults < FaultMax
    /\ sup' = Off /\ atSkew' = FALSE /\ faults' = faults + 1
    /\ UNCHANGED <<homeVars, allow, mode, build, current, asked, busy>>

Poll ==
    \/ PollStarting \/ Respawn \/ PollLive \/ PollAdopted \/ PollHandingOff
    \/ CheckFits \/ Drain \/ Takeover
-----------------------------------------------------------------------------
(* The processes: CoreHome's steps, for the processes that were started.   *)

\* shutdown is decided on the live set, and refused while Sessions run.
Decide(c) ==
    /\ c \in asked /\ asked' = asked \ {c}
    /\ \/ Leave(c) /\ load[c] = {}
       \/ (load[c] # {} \/ stage[c] # "serving") /\ UNCHANGED homeVars

\* The commit of a successor, which is of a later build.
HasSuccessor(c) ==
    \E d \in Serving : mode[d] = "takeover" /\ build[d] > build[c] /\ c \notin given

CoreStep(c) ==
    \/ mode[c] = "serve" /\ (Serve(c) \/ Yield(c)) /\ UNCHANGED asked
    \/ mode[c] = "takeover" /\ (\E d \in Cores : Connect(d, c)) /\ UNCHANGED asked
    \/ /\ mode[c] = "takeover" /\ stage[c] = "off" /\ Serving = {}
       /\ stage' = [stage EXCEPT ![c] = "exited"]      \* no core to take over
       /\ UNCHANGED <<lock, socket, record, load, given, asked>>
    \/ (Receive(c) \/ Record(c) \/ Commit(c) \/ Exit(c)) /\ UNCHANGED asked
    \/ HasSuccessor(c) /\ HandOver(c, load[c]) /\ UNCHANGED asked
    \/ c \in given /\ Leave(c) /\ UNCHANGED asked
    \/ Decide(c)

SessionStep(c) ==
    \E s \in Sessions :
       \/ build[c] = current /\ (\A d \in Cores : s \notin load[d]) /\ Launch(c, s)
       \/ EndSession(c, s)
       \/ (\E d \in Cores \ {c} : s \in load[d]) /\ Adopt(c, s)

Processes(c) ==
    /\ CoreStep(c)
    /\ UNCHANGED <<sup, atSkew, allow, mode, build, current, busy, faults>>

Environment ==
    \/ \E c \in Cores :
          /\ Refuse(c) \/ GiveUp(c) \/ SessionStep(c)
          /\ UNCHANGED <<sup, atSkew, envVars>>
    \/ \E c \in Cores :
          /\ faults < FaultMax /\ faults' = faults + 1
          /\ \/ Crash(c) /\ UNCHANGED busy
             \/ c \in Serving \ busy /\ busy' = busy \cup {c} /\ UNCHANGED homeVars
          /\ UNCHANGED <<sup, atSkew, allow, mode, build, current, asked>>
    \/ /\ current < BuildMax /\ current' = current + 1
       /\ UNCHANGED <<homeVars, sup, atSkew, allow, mode, build, asked, busy, faults>>

Answers(c) ==
    /\ c \in busy /\ busy' = busy \ {c}
    /\ UNCHANGED <<homeVars, sup, atSkew, allow, mode, build, current, asked, faults>>

Next ==
    \/ Start \/ Poll \/ WorkerExit \/ Environment
    \/ \E c \in Cores : Processes(c) \/ Answers(c)

Spec == Init /\ [][Next]_vars
-----------------------------------------------------------------------------
(* Properties.                                                             *)

Watching(c) == sup.state \in {"live", "adopted"} /\ sup.pid = c
Healthy(c) == stage[c] = "serving" /\ c \notin busy

\* Without in-place takeover the supervisor gives up on a home (state Failed,
\* "not retrying automatically") only when no core serves it, or the one that
\* does is too slow to answer: a core that it started in vain has yielded to
\* one that it then adopts.
GivesUpAlone ==
    [][~allow /\ sup.state # "failed" /\ sup'.state = "failed" =>
          \A c \in Cores : ~Healthy(c)]_vars

\* Without in-place takeover only a process that is gone counts as lost,
\* although the start time it is compared with is read from a record that
\* another process may have written.
LostIsGone ==
    [][~allow /\ sup.state = "adopted" /\ sup'.state = "starting" =>
          stage[sup.pid] = "exited"]_vars

\* The worker is restarted by the service and keeps polling; processes make
\* progress, and one that is slow answers again.
Fairness ==
    /\ WF_vars(Start) /\ WF_vars(Poll)
    /\ \A c \in Cores : WF_vars(Processes(c)) /\ WF_vars(Answers(c))

FairSpec == Spec /\ Fairness

\* Without in-place takeover a core that keeps serving and answering ends up
\* watched, whoever started it and however often the worker restarted; the
\* supervisor does not wait for a process that will never be the core.
Managed ==
    \A c \in Cores :
       ~allow /\ <>[]Healthy(c) => <>[]Watching(c) \/ <>[](sup.state = "failed")

\* drain_older_core: "once it holds none, ask it to exit so the normal
\* lost-core path starts a current-build core": an adopted core of an older
\* build without Sessions does not stay.
Drains ==
    \A c \in Cores :
       (/\ ~allow /\ sup.state = "adopted" /\ sup.pid = c /\ stage[c] = "serving"
        /\ build[c] # current /\ load[c] = {})
          ~> (stage[c] = "exited" \/ sup.state = "failed")
=============================================================================
