------------------------------ MODULE PtyCore ------------------------------
(***************************************************************************)
(* The PTY core processes of one workspace home: starting, launching       *)
(* Sessions, shutting down, and handing every Session over to a successor  *)
(* (`__pty_core__ --takeover`), with the clients that launch through a     *)
(* core and fall back to a per-process host.                               *)
(*                                                                         *)
(* A listener is named after the core that bound it; a takeover shares it. *)
(* `lock` is the set of processes holding a descriptor of the one flocked  *)
(* open file.  Every request runs on a thread of its own, so a request is  *)
(* as many actions as it has reads and writes of shared state.             *)
(***************************************************************************)
EXTENDS Integers, FiniteSets

CONSTANTS Cores, Sessions, None

ASSUME CoreConstants == None \notin Cores

VARIABLES
    proc,      \* where each core process is
    lock,      \* processes holding pty-core.lock
    socket,    \* listener pty-core.sock names, or None
    record,    \* core pty-core.json names, or None
    listener,  \* listener each process accepts on
    live, shutting, handing, handed,  \* CoreState
    hosted,    \* Sessions on each core's reactor
    ending,    \* Sessions whose teardown runs
    wakes,     \* self-connections pending at each listener
    spc,       \* shutdown request of each core
    hpc, peer, moving,      \* handoff request: position, successor, exports
    from, todo, answer,     \* takeover: predecessor, left to adopt, commit
    file,      \* Sessions whose launch file exists
    client,    \* launching client of each Session
    lpc, at,   \* launch request: position, and core or listener it is at
    host,      \* per-process fallback host of each Session
    ended      \* Sessions that ended by themselves

coreVars == <<live, shutting, handing, handed, hosted, ending>>
diskVars == <<socket, record>>
handVars == <<hpc, peer, moving, from, todo, answer>>
launchVars == <<file, client, lpc, at, host>>
vars == <<proc, lock, listener, wakes, spc, ended, coreVars, diskVars, handVars,
          launchVars>>

Running(c) == proc[c] \in {"receiving", "failing", "recorded", "serving", "leaving"}
Launching(c) == {s \in Sessions : at[s] = c /\ lpc[s] = "setup"}
Handing(c) == hpc[c] \in {"exported", "abandoning"}     \* the reactor is inside handoff
StreamOpen(c) ==
    \E d \in Cores : d = from[c] /\ proc[d] # "exited" /\ Handing(d) /\ peer[d] = c

CoreTypeOK ==
    /\ proc \in [Cores -> {"off", "asking", "receiving", "failing", "recorded",
                           "serving", "leaving", "exited"}]
    /\ lock \subseteq Cores /\ listener \in [Cores -> Cores \cup {None}]
    /\ socket \in Cores \cup {None} /\ record \in Cores \cup {None}
    /\ live \in [Cores -> SUBSET Sessions] /\ hosted \in [Cores -> SUBSET Sessions]
    /\ ending \in [Cores -> SUBSET Sessions] /\ ended \subseteq Sessions
    /\ wakes \in [Cores -> Nat] /\ spc \in [Cores -> {"none", "checked"}]

FlagTypeOK ==
    /\ shutting \in [Cores -> BOOLEAN] /\ handing \in [Cores -> BOOLEAN]
    /\ handed \in [Cores -> BOOLEAN]

HandTypeOK ==
    /\ hpc \in [Cores -> {"none", "gated", "waiting", "ready", "exported",
                          "abandoning", "forgot"}]
    /\ peer \in [Cores -> Cores \cup {None}] /\ from \in [Cores -> Cores \cup {None}]
    /\ moving \in [Cores -> SUBSET Sessions] /\ todo \in [Cores -> SUBSET Sessions]
    /\ answer \in [Cores -> {"none", "ok", "refused"}]

LaunchTypeOK ==
    /\ file \subseteq Sessions
    /\ client \in [Sessions -> {"idle", "asked", "ok", "direct", "refused", "late"}]
    /\ lpc \in [Sessions -> {"none", "queued", "accepted", "checked", "inserted",
                             "consumed", "setup", "registered", "failed", "refused"}]
    /\ at \in [Sessions -> Cores \cup {None}]
    /\ host \in [Sessions -> {"none", "read", "running", "failed"}]

TypeOK == CoreTypeOK /\ FlagTypeOK /\ HandTypeOK /\ LaunchTypeOK

Init ==
    /\ proc = [c \in Cores |-> "off"] /\ lock = {}
    /\ socket = None /\ record = None /\ listener = [c \in Cores |-> None]
    /\ live = [c \in Cores |-> {}] /\ hosted = [c \in Cores |-> {}]
    /\ ending = [c \in Cores |-> {}]
    /\ shutting = [c \in Cores |-> FALSE] /\ handing = [c \in Cores |-> FALSE]
    /\ handed = [c \in Cores |-> FALSE]
    /\ wakes = [c \in Cores |-> 0] /\ spc = [c \in Cores |-> "none"]
    /\ hpc = [c \in Cores |-> "none"] /\ peer = [c \in Cores |-> None]
    /\ moving = [c \in Cores |-> {}] /\ from = [c \in Cores |-> None]
    /\ todo = [c \in Cores |-> {}] /\ answer = [c \in Cores |-> "none"]
    /\ file = Sessions /\ ended = {}
    /\ client = [s \in Sessions |-> "idle"] /\ lpc = [s \in Sessions |-> "none"]
    /\ at = [s \in Sessions |-> None] /\ host = [s \in Sessions |-> "none"]
-----------------------------------------------------------------------------
(* The process and its accept loop.                                        *)

\* Mutant: the flock is not asked for.
RunCoreUnlocked(c) ==
    /\ proc[c] = "off"
    /\ proc' = [proc EXCEPT ![c] = "serving"] /\ lock' = {c}
    /\ listener' = [listener EXCEPT ![c] = c]
    /\ socket' = c /\ record' = c
    /\ UNCHANGED <<wakes, spc, ended, coreVars, handVars, launchVars>>

\* run_core_unix: without the flock the process is not needed and exits.
RunCore(c) ==
    /\ proc[c] = "off" /\ lock = {}
    /\ proc' = [proc EXCEPT ![c] = "serving"] /\ lock' = {c}
    /\ listener' = [listener EXCEPT ![c] = c]
    /\ socket' = c /\ record' = c
    /\ UNCHANGED <<wakes, spc, ended, coreVars, handVars, launchVars>>

\* One turn of the accept loop of serve_core: the connection gets a thread,
\* then the flags decide whether there is another turn.
AfterAccept(c) == IF shutting[c] \/ handed[c] THEN "leaving" ELSE "serving"

AcceptWake(c) ==
    /\ proc[c] = "serving" /\ wakes[listener[c]] > 0
    /\ wakes' = [wakes EXCEPT ![listener[c]] = @ - 1]
    /\ proc' = [proc EXCEPT ![c] = AfterAccept(c)]
    /\ UNCHANGED <<lock, listener, spc, ended, coreVars, diskVars, handVars,
                   launchVars>>

\* Any other connection served without a change of state: a ping, or a request
\* that is refused.
AcceptPing(c) ==
    /\ proc[c] = "serving" /\ socket = listener[c]
    /\ proc' = [proc EXCEPT ![c] = AfterAccept(c)]
    /\ UNCHANGED <<lock, listener, wakes, spc, ended, coreVars, diskVars, handVars,
                   launchVars>>

\* A thread of the core connects to pty-core.sock: any process that accepts
\* on the listener of that name may take the connection.
Wake ==
    IF socket = None THEN UNCHANGED wakes
    ELSE wakes' = [wakes EXCEPT ![socket] = @ + 1]

\* The threads of a process end with it; the Sessions on its reactor too.
Exit(c) ==
    /\ proc' = [proc EXCEPT ![c] = "exited"]
    /\ lock' = lock \ {c}
    /\ live' = [live EXCEPT ![c] = {}] /\ hosted' = [hosted EXCEPT ![c] = {}]
    /\ ending' = [ending EXCEPT ![c] = {}]
    /\ UNCHANGED <<listener, wakes, spc, ended, shutting, handing, handed,
                   launchVars>>

\* The successor owns everything; teardowns get 30 s, then the process ends.
ExitHanded(c) ==
    /\ proc[c] = "leaving" /\ handed[c]
    /\ Exit(c)
    /\ UNCHANGED <<diskVars, handVars>>

ExitShutdown(c) ==
    /\ proc[c] = "leaving" /\ ~handed[c]
    /\ socket' = None /\ record' = None
    /\ Exit(c)
    /\ UNCHANGED handVars
-----------------------------------------------------------------------------
(* Shutdown.                                                               *)

ShutdownAccept(c) ==
    /\ proc[c] = "serving" /\ socket = listener[c]
    /\ spc[c] = "none" /\ ~handing[c]
    /\ spc' = [spc EXCEPT ![c] = "checked"]
    /\ proc' = [proc EXCEPT ![c] = AfterAccept(c)]
    /\ UNCHANGED <<lock, listener, wakes, ended, coreVars, diskVars, handVars,
                   launchVars>>

\* Decided while holding the live set.
ShutdownDecide(c) ==
    /\ spc[c] = "checked" /\ Running(c)
    /\ spc' = [spc EXCEPT ![c] = "none"]
    /\ IF live[c] = {} THEN shutting' = [shutting EXCEPT ![c] = TRUE] /\ Wake
       ELSE UNCHANGED <<shutting, wakes>>
    /\ UNCHANGED <<proc, lock, listener, ended, live, handing, handed, hosted,
                   ending, diskVars, handVars, launchVars>>
-----------------------------------------------------------------------------
(* Handoff, the old core's side.                                           *)

Refuse(c) == proc' = [proc EXCEPT ![peer[c]] = "exited"]

\* A successor c connects; handing_off is taken or the request refused.
HandoffAccept(d, c) ==
    /\ proc[c] = "off" /\ proc[d] = "serving" /\ socket = listener[d]
    /\ IF handing[d]
       THEN /\ proc' = [proc EXCEPT ![d] = AfterAccept(d), ![c] = "exited"]
            /\ UNCHANGED <<handing, hpc, peer, from>>
       ELSE /\ proc' = [proc EXCEPT ![d] = AfterAccept(d), ![c] = "asking"]
            /\ handing' = [handing EXCEPT ![d] = TRUE]
            /\ hpc' = [hpc EXCEPT ![d] = "gated"]
            /\ peer' = [peer EXCEPT ![d] = c] /\ from' = [from EXCEPT ![c] = d]
    /\ UNCHANGED <<lock, listener, wakes, spc, ended, live, shutting, handed,
                   hosted, ending, diskVars, moving, todo, answer, launchVars>>

HandoffGate(d) ==
    /\ hpc[d] = "gated" /\ Running(d)
    /\ IF shutting[d]
       THEN /\ handing' = [handing EXCEPT ![d] = FALSE]
            /\ hpc' = [hpc EXCEPT ![d] = "none"] /\ Refuse(d)
       ELSE hpc' = [hpc EXCEPT ![d] = "waiting"] /\ UNCHANGED <<handing, proc>>
    /\ UNCHANGED <<lock, listener, wakes, spc, ended, live, shutting, handed,
                   hosted, ending, diskVars, peer, moving, from, todo, answer,
                   launchVars>>

\* No launch is being set up, or 15 s have not been enough for it.
HandoffWait(d) ==
    /\ hpc[d] = "waiting" /\ Running(d)
    /\ IF Launching(d) = {}
       THEN hpc' = [hpc EXCEPT ![d] = "ready"] /\ UNCHANGED <<handing, proc>>
       ELSE /\ handing' = [handing EXCEPT ![d] = FALSE]
            /\ hpc' = [hpc EXCEPT ![d] = "none"] /\ Refuse(d)
    /\ UNCHANGED <<lock, listener, wakes, spc, ended, live, shutting, handed,
                   hosted, ending, diskVars, peer, moving, from, todo, answer,
                   launchVars>>

\* Reactor::handoff: every Session on the reactor is quiesced and sent, after
\* a header that carries the lock and the listener.
HandoffExport(d) ==
    /\ hpc[d] = "ready" /\ Running(d)
    /\ hpc' = [hpc EXCEPT ![d] = "exported"]
    /\ moving' = [moving EXCEPT ![d] = hosted[d]]
    /\ todo' = [todo EXCEPT ![peer[d]] = hosted[d]]
    /\ lock' = lock \cup {peer[d]}
    /\ listener' = [listener EXCEPT ![peer[d]] = listener[d]]
    /\ proc' = [proc EXCEPT ![peer[d]] = "receiving"]
    /\ UNCHANGED <<wakes, spc, ended, coreVars, diskVars, peer, from, answer,
                   launchVars>>

\* A flush, a timer or an export failed before anything was sent.
HandoffExportFails(d) ==
    /\ hpc[d] = "ready" /\ Running(d)
    /\ handing' = [handing EXCEPT ![d] = FALSE]
    /\ hpc' = [hpc EXCEPT ![d] = "none"] /\ Refuse(d)
    /\ UNCHANGED <<lock, listener, wakes, spc, ended, live, shutting, handed,
                   hosted, ending, diskVars, peer, moving, from, todo, answer,
                   launchVars>>

\* The commit arrived: forget the moved Sessions on the reactor ...
HandoffCommitted(d) ==
    /\ hpc[d] = "exported" /\ Running(d) /\ answer[peer[d]] = "ok"
    /\ hpc' = [hpc EXCEPT ![d] = "forgot"]
    /\ hosted' = [hosted EXCEPT ![d] = @ \ moving[d]]
    /\ UNCHANGED <<proc, lock, listener, wakes, spc, ended, live, shutting, handing,
                   handed, ending, diskVars, peer, moving, from, todo, answer,
                   launchVars>>

\* ... then, on the request thread, in the live set, and leave.
HandoffDone(d) ==
    /\ hpc[d] = "forgot" /\ Running(d)
    /\ hpc' = [hpc EXCEPT ![d] = "none"]
    /\ live' = [live EXCEPT ![d] = @ \ moving[d]]
    /\ handed' = [handed EXCEPT ![d] = TRUE]
    /\ Wake
    /\ UNCHANGED <<proc, lock, listener, spc, ended, shutting, handing, hosted,
                   ending, diskVars, peer, moving, from, todo, answer, launchVars>>

\* Refused, connection lost, or no answer in 30 s.
HandoffAbandoned(d) ==
    /\ hpc[d] = "exported" /\ Running(d) /\ answer[peer[d]] # "ok"
    /\ hpc' = [hpc EXCEPT ![d] = "abandoning"]
    /\ UNCHANGED <<proc, lock, listener, wakes, spc, ended, coreVars, diskVars,
                   peer, moving, from, todo, answer, launchVars>>

\* Mutant: a failed handoff leaves handing_off set.
HandoffResumeStuck(d) ==
    /\ hpc[d] = "abandoning" /\ Running(d)
    /\ hpc' = [hpc EXCEPT ![d] = "none"]
    /\ UNCHANGED <<proc, lock, listener, wakes, spc, ended, coreVars, diskVars,
                   peer, moving, from, todo, answer, launchVars>>

\* Every paused Session resumes and the connection closes.
HandoffResume(d) ==
    /\ hpc[d] = "abandoning" /\ Running(d)
    /\ hpc' = [hpc EXCEPT ![d] = "none"]
    /\ handing' = [handing EXCEPT ![d] = FALSE]
    /\ UNCHANGED <<proc, lock, listener, wakes, spc, ended, live, shutting, handed,
                   hosted, ending, diskVars, peer, moving, from, todo, answer,
                   launchVars>>
-----------------------------------------------------------------------------
(* Handoff, the successor's side (run_takeover).                           *)

\* Rebuilt, counted and on the new reactor, which reads it from now on.
TakeoverAdopt(c, s) ==
    /\ proc[c] = "receiving" /\ s \in todo[c]
    /\ todo' = [todo EXCEPT ![c] = @ \ {s}]
    /\ live' = [live EXCEPT ![c] = @ \cup {s}]
    /\ hosted' = [hosted EXCEPT ![c] = @ \cup {s}]
    /\ UNCHANGED <<proc, lock, listener, wakes, spc, ended, shutting, handing,
                   handed, ending, diskVars, hpc, peer, moving, from, answer,
                   launchVars>>

\* Mutant: the commit does not wait for every Session.
TakeoverRecordEarly(c) ==
    /\ proc[c] = "receiving"
    /\ proc' = [proc EXCEPT ![c] = "recorded"] /\ record' = c
    /\ UNCHANGED <<lock, listener, wakes, spc, ended, coreVars, socket, handVars,
                   launchVars>>

TakeoverRecord(c) ==
    /\ proc[c] = "receiving" /\ todo[c] = {}
    /\ proc' = [proc EXCEPT ![c] = "recorded"] /\ record' = c
    /\ UNCHANGED <<lock, listener, wakes, spc, ended, coreVars, socket, handVars,
                   launchVars>>

\* The commit is sent if the predecessor still holds the connection.
TakeoverCommit(c) ==
    /\ proc[c] = "recorded" /\ StreamOpen(c)
    /\ proc' = [proc EXCEPT ![c] = "serving"]
    /\ answer' = [answer EXCEPT ![c] = "ok"]
    /\ UNCHANGED <<lock, listener, wakes, spc, ended, coreVars, diskVars, hpc,
                   peer, moving, from, todo, launchVars>>

\* Anything failed before the record was written.
TakeoverFails(c) ==
    /\ proc[c] = "receiving"
    /\ proc' = [proc EXCEPT ![c] = "failing"]
    /\ answer' = [answer EXCEPT ![c] = "refused"]
    /\ UNCHANGED <<lock, listener, wakes, spc, ended, coreVars, diskVars, hpc,
                   peer, moving, from, todo, launchVars>>

\* process::exit(2), or the commit could not be sent.  A successor whose
\* predecessor went away before answering leaves as well.
TakeoverExit(c) ==
    /\ \/ proc[c] = "failing"
       \/ proc[c] = "recorded" /\ ~StreamOpen(c)
       \/ proc[c] = "asking" /\ proc[from[c]] = "exited"
    /\ Exit(c)
    /\ UNCHANGED <<diskVars, handVars>>
-----------------------------------------------------------------------------
(* Launches: the client, and the request and setup threads of a core.      *)

\* try_launch_via_core: routing is off, no socket, or another build's core.
LaunchDirect(s) ==
    /\ client[s] = "idle"
    /\ client' = [client EXCEPT ![s] = "direct"]
    /\ UNCHANGED <<proc, lock, listener, wakes, spc, ended, coreVars, diskVars,
                   handVars, file, lpc, at, host>>

LaunchAsk(s) ==
    /\ client[s] = "idle" /\ socket # None
    /\ client' = [client EXCEPT ![s] = "asked"]
    /\ lpc' = [lpc EXCEPT ![s] = "queued"] /\ at' = [at EXCEPT ![s] = socket]
    /\ UNCHANGED <<proc, lock, listener, wakes, spc, ended, coreVars, diskVars,
                   handVars, file, host>>

LaunchAccept(c, s) ==
    /\ proc[c] = "serving" /\ lpc[s] = "queued" /\ at[s] = listener[c]
    /\ lpc' = [lpc EXCEPT ![s] = "accepted"] /\ at' = [at EXCEPT ![s] = c]
    /\ proc' = [proc EXCEPT ![c] = AfterAccept(c)]
    /\ UNCHANGED <<lock, listener, wakes, spc, ended, coreVars, diskVars, handVars,
                   file, client, host>>

\* An error reply sends the client to the fallback.
Refused(s) == IF client[s] = "asked" THEN "refused" ELSE client[s]

\* The flags, then the launch file.
LaunchCheck(s) ==
    /\ lpc[s] = "accepted" /\ Running(at[s])
    /\ IF handing[at[s]] \/ shutting[at[s]] \/ s \notin file
       THEN /\ lpc' = [lpc EXCEPT ![s] = "refused"]
            /\ client' = [client EXCEPT ![s] = Refused(s)]
       ELSE lpc' = [lpc EXCEPT ![s] = "checked"] /\ UNCHANGED client
    /\ UNCHANGED <<proc, lock, listener, wakes, spc, ended, coreVars, diskVars,
                   handVars, file, at, host>>

\* Mutant: shutting_down is not read again under the lock.
LaunchInsertUnchecked(s) ==
    /\ lpc[s] = "checked" /\ Running(at[s])
    /\ IF s \in live[at[s]]
       THEN /\ lpc' = [lpc EXCEPT ![s] = "refused"]
            /\ client' = [client EXCEPT ![s] = Refused(s)] /\ UNCHANGED live
       ELSE /\ lpc' = [lpc EXCEPT ![s] = "inserted"] /\ UNCHANGED client
            /\ live' = [live EXCEPT ![at[s]] = @ \cup {s}]
    /\ UNCHANGED <<proc, lock, listener, wakes, spc, ended, shutting, handing, handed,
                   hosted, ending, diskVars, handVars, file, at, host>>

\* Under the live lock.
LaunchInsert(s) ==
    /\ lpc[s] = "checked" /\ Running(at[s])
    /\ IF shutting[at[s]] \/ s \in live[at[s]]
       THEN /\ lpc' = [lpc EXCEPT ![s] = "refused"]
            /\ client' = [client EXCEPT ![s] = Refused(s)] /\ UNCHANGED live
       ELSE /\ lpc' = [lpc EXCEPT ![s] = "inserted"] /\ UNCHANGED client
            /\ live' = [live EXCEPT ![at[s]] = @ \cup {s}]
    /\ UNCHANGED <<proc, lock, listener, wakes, spc, ended, shutting, handing, handed,
                   hosted, ending, diskVars, handVars, file, at, host>>

\* Mutant: the launch file stays.
LaunchConsumeKeep(s) ==
    /\ lpc[s] = "inserted" /\ Running(at[s])
    /\ lpc' = [lpc EXCEPT ![s] = "consumed"]
    /\ UNCHANGED <<proc, lock, listener, wakes, spc, ended, coreVars, diskVars,
                   handVars, file, client, at, host>>

LaunchConsume(s) ==
    /\ lpc[s] = "inserted" /\ Running(at[s])
    /\ lpc' = [lpc EXCEPT ![s] = "consumed"] /\ file' = file \ {s}
    /\ UNCHANGED <<proc, lock, listener, wakes, spc, ended, coreVars, diskVars,
                   handVars, client, at, host>>

\* `launching` counts the setup thread from here on.
LaunchSetup(s) ==
    /\ lpc[s] = "consumed" /\ Running(at[s])
    /\ lpc' = [lpc EXCEPT ![s] = "setup"]
    /\ UNCHANGED <<proc, lock, listener, wakes, spc, ended, coreVars, diskVars,
                   handVars, file, client, at, host>>

\* The reactor takes the Session, unless it is busy with a handoff.
LaunchRegister(s) ==
    /\ lpc[s] = "setup" /\ Running(at[s]) /\ ~Handing(at[s])
    /\ lpc' = [lpc EXCEPT ![s] = "registered"]
    /\ hosted' = [hosted EXCEPT ![at[s]] = @ \cup {s}]
    /\ UNCHANGED <<proc, lock, listener, wakes, spc, ended, live, shutting, handing,
                   handed, ending, diskVars, handVars, file, client, at, host>>

LaunchFails(s) ==
    /\ lpc[s] = "setup" /\ Running(at[s])
    /\ lpc' = [lpc EXCEPT ![s] = "failed"]
    /\ live' = [live EXCEPT ![at[s]] = @ \ {s}]
    /\ UNCHANGED <<proc, lock, listener, wakes, spc, ended, shutting, handing, handed,
                   hosted, ending, diskVars, handVars, file, client, at, host>>

\* The manifest appeared; or the thread ended or 10 s passed without it.
LaunchReply(s) ==
    /\ client[s] = "asked" /\ Running(at[s])
    /\ \/ lpc[s] \in {"setup", "registered"} /\ client' = [client EXCEPT ![s] = "ok"]
       \/ lpc[s] \in {"setup", "failed"} /\ client' = [client EXCEPT ![s] = "refused"]
    /\ UNCHANGED <<proc, lock, listener, wakes, spc, ended, coreVars, diskVars,
                   handVars, file, lpc, at, host>>

\* No reply in time, or the connection broke: the launch file decides.
LaunchLate(s) ==
    /\ client[s] = "asked"
    /\ client' = [client EXCEPT ![s] = IF s \in file THEN "late" ELSE "ok"]
    /\ UNCHANGED <<proc, lock, listener, wakes, spc, ended, coreVars, diskVars,
                   handVars, file, lpc, at, host>>

\* The per-process host reads the launch file and then removes it.
HostRead(s) ==
    /\ client[s] \in {"direct", "refused", "late"} /\ host[s] = "none"
    /\ host' = [host EXCEPT ![s] = IF s \in file THEN "read" ELSE "failed"]
    /\ UNCHANGED <<proc, lock, listener, wakes, spc, ended, coreVars, diskVars,
                   handVars, file, client, lpc, at>>

HostRun(s) ==
    /\ host[s] = "read"
    /\ host' = [host EXCEPT ![s] = "running"] /\ file' = file \ {s}
    /\ UNCHANGED <<proc, lock, listener, wakes, spc, ended, coreVars, diskVars,
                   handVars, client, lpc, at>>
-----------------------------------------------------------------------------
(* The end of a Session: off the reactor, then on_exit.                    *)

SessionEnds(c, s) ==
    /\ s \in hosted[c] /\ Running(c) /\ ~Handing(c)
    /\ hosted' = [hosted EXCEPT ![c] = @ \ {s}]
    /\ ending' = [ending EXCEPT ![c] = @ \cup {s}]
    /\ ended' = ended \cup {s}
    /\ UNCHANGED <<proc, lock, listener, wakes, spc, live, shutting, handing, handed,
                   diskVars, handVars, launchVars>>

SessionExit(c, s) ==
    /\ s \in ending[c] /\ Running(c)
    /\ ending' = [ending EXCEPT ![c] = @ \ {s}]
    /\ live' = [live EXCEPT ![c] = @ \ {s}]
    /\ UNCHANGED <<proc, lock, listener, wakes, spc, ended, shutting, handing, handed,
                   hosted, diskVars, handVars, launchVars>>
-----------------------------------------------------------------------------
Core(c) ==
    \/ AcceptWake(c) \/ ExitHanded(c) \/ ExitShutdown(c) \/ ShutdownDecide(c)
    \/ HandoffGate(c) \/ HandoffWait(c) \/ HandoffExport(c) \/ HandoffExportFails(c)
    \/ HandoffCommitted(c) \/ HandoffDone(c) \/ HandoffAbandoned(c) \/ HandoffResume(c)

Successor(c) ==
    \/ \E s \in Sessions : TakeoverAdopt(c, s)
    \/ TakeoverRecord(c) \/ TakeoverCommit(c) \/ TakeoverFails(c) \/ TakeoverExit(c)

Launch(s) ==
    \/ \E c \in Cores : LaunchAccept(c, s)
    \/ LaunchCheck(s) \/ LaunchInsert(s) \/ LaunchConsume(s) \/ LaunchSetup(s)
    \/ LaunchRegister(s) \/ LaunchFails(s) \/ LaunchReply(s) \/ LaunchLate(s)

Next ==
    \/ \E c \in Cores :
          \/ RunCore(c) \/ AcceptPing(c) \/ ShutdownAccept(c) \/ Core(c) \/ Successor(c)
          \/ \E d \in Cores : HandoffAccept(d, c)
          \/ \E s \in Sessions : SessionEnds(c, s) \/ SessionExit(c, s)
    \/ \E s \in Sessions :
          LaunchDirect(s) \/ LaunchAsk(s) \/ Launch(s) \/ HostRead(s) \/ HostRun(s)

Spec == Init /\ [][Next]_vars
-----------------------------------------------------------------------------
(* Properties.                                                             *)

Hosted(s) == \E c \in Cores : s \in hosted[c]

\* "One instance per home": two processes that serve at the same time accept
\* on the same listener, because the flock travels with the handoff and
\* run_core_unix binds only with the flock.
OneListener ==
    \A c, d \in Cores : Running(c) /\ Running(d) => listener[c] = listener[d]

\* Shutdown "exits only with zero hosted Sessions": a core that leaves its
\* accept loop without having handed off holds none, although launches and
\* handoffs run on other threads.
ShutdownEmpty ==
    \A c \in Cores : proc[c] = "leaving" /\ ~handed[c] => hosted[c] = {}

\* No step but the Session's own end takes it off every reactor: not a
\* shutdown racing a launch, not a handoff that commits, fails or times out.
\* The one exception is a core that has handed off and then exits.
KeepsSessions ==
    [][\A s \in Sessions :
          Hosted(s) /\ s \notin ended' =>
             Hosted(s)' \/ \E c \in Cores : handed[c] /\ s \in hosted[c]]_vars

\* A Session is run by a core and by a fallback host at the same time only if
\* its client gave up waiting: an error reply that comes after the core
\* consumed the launch file starts a host that finds no launch.
LaunchOnce ==
    \A s \in Sessions :
       host[s] = "running" /\ Hosted(s) => client[s] = "late"

\* All cores schedule their threads, and the waits of a handoff end by their
\* timeouts; nobody has to start, stop or launch anything.
Fairness ==
    /\ \A c \in Cores : WF_vars(Core(c)) /\ WF_vars(Successor(c))
    /\ \A s \in Sessions : WF_vars(Launch(s))

FairSpec == Spec /\ Fairness

\* A core that began a handoff completes it, takes launches again, or is
\* gone: handing_off never sticks.
HandoffSettles ==
    \A c \in Cores : handing[c] ~> (~handing[c] \/ handed[c] \/ proc[c] = "exited")

\* "Nothing may ever stop a core that hosts live Sessions."
NeverStopsHosting ==
    [][\A c \in Cores :
          proc[c] = "leaving" /\ proc'[c] = "exited" => hosted[c] = {}]_vars
=============================================================================
