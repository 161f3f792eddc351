--------------------------- MODULE PtyCoreInvariant -------------------------
(*****************************************************************************)
(* The inductive invariants of PtyCore.  IInv ties a core's lock, listener,  *)
(* flags and sets of Sessions to the progress of its handoff and launches.   *)
(* KInv, on top of it, says where a Session is: what its launch left to its  *)
(* client and fallback host, and which core holds it during a handoff.       *)
(*****************************************************************************)
EXTENDS PtyCore

Asked(d) == hpc[d] \in {"gated", "waiting", "ready"}
Moving(d) == hpc[d] \in {"exported", "abandoning", "forgot"}
Owned(s) == lpc[s] \in {"inserted", "consumed", "setup"}

\* The lock and the listener go together, and a process has both before it
\* accepts anything.
LockInv ==
    /\ \A c \in Cores : Running(c) => c \in lock /\ listener[c] \in Cores
    /\ OneListener

\* A process that has not served yet has no Sessions and no requests.
FreshInv ==
    /\ \A c \in Cores : proc[c] \notin {"serving", "leaving", "exited"} =>
          ~shutting[c] /\ ~handed[c] /\ ~handing[c] /\ spc[c] = "none" /\ hpc[c] = "none"
    /\ \A c \in Cores : proc[c] \in {"off", "asking"} =>
          live[c] = {} /\ hosted[c] = {} /\ ending[c] = {}

\* The handoff requests of a running core name a successor that waits for it.
PeerInv ==
    /\ \A d \in Cores : Running(d) /\ Asked(d) =>
          peer[d] \in Cores /\ peer[d] # d /\ from[peer[d]] = d /\ proc[peer[d]] =
             "asking"
    /\ \A d \in Cores : Running(d) /\ hpc[d] # "none" => handing[d] /\ peer[d] \in Cores

\* A successor has not adopted what it has still to adopt.
TodoInv == \A c \in Cores : proc[c] = "receiving" => todo[c] \cap live[c] = {}

StartInv == FreshInv /\ PeerInv /\ TodoInv

\* What is on a reactor or in teardown is in the live set.
SetsInv ==
    \A c \in Cores :
       hosted[c] \subseteq live[c] /\ ending[c] \subseteq live[c] /\ hosted[c] \cap
          ending[c] = {}

\* A handoff holds what it exported on the reactor until the commit.
MovingInv ==
    /\ \A c \in Cores : Running(c) /\ Handing(c) => hosted[c] = moving[c]
    /\ \A c \in Cores : Running(c) /\ Moving(c) =>
          ending[c] \cap moving[c] = {} /\ moving[c] \subseteq live[c]
    /\ \A c \in Cores : Running(c) /\ hpc[c] = "forgot" => hosted[c] \cap moving[c] = {}

\* A launch that owns its id has it in the live set, not yet on the reactor,
\* and not among the exports of a handoff.
OwnedInv ==
    /\ \A s \in Sessions : lpc[s] \notin {"none", "queued"} =>
          at[s] \in Cores /\ proc[at[s]] \in {"serving", "leaving", "exited"}
    /\ \A s \in Sessions : Owned(s) /\ Running(at[s]) =>
          /\ s \in live[at[s]] /\ s \notin hosted[at[s]] /\ s \notin ending[at[s]]
          /\ Moving(at[s]) => s \notin moving[at[s]]

LiveInv == SetsInv /\ MovingInv /\ OwnedInv

\* A core that decided to shut down stays empty.
ShutInv ==
    /\ \A c \in Cores : shutting[c] => live[c] = {}
    /\ \A c \in Cores : proc[c] = "leaving" => shutting[c] \/ handed[c]

\* What a handoff request does to the core it reaches and to the successor.
AcceptEffect(d, c) ==
    /\ c # d /\ proc[c] = "off" /\ proc[d] = "serving"
    /\ \A e \in Cores \ {c, d} : proc'[e] = proc[e]
    /\ proc'[d] \in {"serving", "leaving"} /\ proc'[c] \in {"asking", "exited"}
    /\ proc'[d] = "leaving" => shutting[d] \/ handed[d]
    /\ \A e \in Cores \ {d} :
          handing'[e] = handing[e] /\ hpc'[e] = hpc[e] /\ peer'[e] = peer[e]
    /\ \A e \in Cores \ {c} : from'[e] = from[e]
    /\ \/ /\ handing'[d] = handing[d] /\ hpc'[d] = hpc[d]
          /\ peer'[d] = peer[d] /\ from'[c] = from[c]
       \/ /\ handing'[d] /\ hpc'[d] = "gated" /\ peer'[d] = c
          /\ ~handing[d] /\ from'[c] = d /\ proc'[c] = "asking"
    /\ UNCHANGED <<lock, listener, wakes, spc, ended, live, shutting, handed,
                   hosted, ending, diskVars, moving, todo, answer, launchVars>>

IInv == TypeOK /\ LockInv /\ StartInv /\ LiveInv /\ ShutInv
-----------------------------------------------------------------------------
Known(s) == \E c \in Cores : s \in hosted[c] \/ s \in todo[c] \/ s \in moving[c]

\* What a launch has done to the launch file, and what its client and its
\* fallback host can therefore know.
FileInv(s) ==
    /\ client[s] \in {"idle", "direct"} => lpc[s] = "none"
    /\ lpc[s] \in {"consumed", "setup", "registered", "failed"} => s \notin file
    /\ client[s] = "refused" => lpc[s] = "refused" \/ s \notin file
    /\ host[s] # "none" => client[s] \in {"direct", "refused", "late"}
    /\ host[s] \in {"read", "running"} /\ client[s] = "refused" => lpc[s] = "refused"

LaunchInv ==
    /\ \A s \in Sessions : FileInv(s)
    /\ \A s \in Sessions : Known(s) => lpc[s] = "registered"

Committed(c) == proc[c] \in {"serving", "leaving"}
Gone(c) == hpc[c] = "forgot" \/ handed[c]
Kept(s) == s \in ended \/ \E e \in Cores : Committed(e) /\ s \in hosted[e]

\* A successor answers once it has served nobody else, a core hands over once,
\* and what it exported is with its successor, still to be adopted, or over.
HandInv ==
    /\ \A c \in Cores : proc[c] \notin {"serving", "leaving", "exited"} => answer[c] # "ok"
    /\ \A c \in Cores : from[c] \in Cores => proc[c] # "off" /\ proc[from[c]] # "off"
    /\ \A c \in Cores : handed[c] => handing[c] /\ hpc[c] = "none"
    /\ \A c \in Cores : proc[c] = "recorded" => todo[c] = {}
    /\ \A d \in Cores : Running(d) /\ hpc[d] # "none" =>
          peer[d] # d /\ from[peer[d]] = d /\ proc[peer[d]] # "off"
    /\ \A d \in Cores : Running(d) /\ Handing(d) /\ proc[peer[d]] \in {"receiving", "recorded"} =>
          \A s \in moving[d] : s \in todo[peer[d]] \/ s \in hosted[peer[d]] \/ s \in ended

\* What a core that handed over still hosts is on no other reactor.
AloneInv ==
    \A c, d \in Cores : Gone(c) /\ c # d =>
       \A s \in hosted[c] : s \notin hosted[d] /\ (proc[d] = "receiving" => s \notin todo[d])

\* What a successor has adopted, or is about to, a committed core hosts too.
KeptInv ==
    \A c \in Cores : \A s \in Sessions :
       s \in hosted[c] \/ (proc[c] = "receiving" /\ s \in todo[c]) => Kept(s)

\* Successors are younger than their predecessors, and what a core handed to
\* one that answered is with a younger core.
Ranked(r) ==
    /\ \A c \in Cores : from[c] \in Cores => r[from[c]] < r[c]
    /\ \A d \in Cores : Running(d) /\ hpc[d] = "exported" /\ answer[peer[d]] = "ok" =>
          \A s \in moving[d] :
             s \in ended \/ \E e \in Cores : r[d] < r[e] /\ Committed(e) /\ s \in hosted[e]

RankInv == \E r \in [Cores -> Nat] : Ranked(r)

KInv == LaunchInv /\ HandInv /\ AloneInv /\ KeptInv /\ RankInv
=============================================================================
