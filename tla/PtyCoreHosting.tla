--------------------------- MODULE PtyCoreHosting ---------------------------
(*****************************************************************************)
(* Where the Sessions of PtyCore are, for any number of core processes and   *)
(* Sessions.  The steps keep KInv, given IInv: first what a launch leaves to *)
(* its client and its fallback host, then who holds a Session during a       *)
(* handoff, then what a step may do to a hosted Session.  From that: a       *)
(* Session is launched once and stays with a core.  Last, PtyCore implements *)
(* CoreHome: one lemma per action that the home can see, and one for all the *)
(* others.                                                                   *)
(*****************************************************************************)
EXTENDS PtyCoreHome, PtyCoreProofs

\* The steps of a core and of a successor make no Session known, and leave
\* the launches alone.
LEMMA CoreKnows ==
    ASSUME IInv, NEW c \in Cores,
           \/ RunCore(c) \/ AcceptPing(c) \/ ShutdownAccept(c) \/ Core(c) \/ Successor(c)
           \/ \E d \in Cores : HandoffAccept(d, c)
           \/ \E s \in Sessions : SessionEnds(c, s) \/ SessionExit(c, s)
    PROVE  UNCHANGED launchVars /\ \A s \in Sessions : Known(s)' => Known(s)
<1>1. UNCHANGED launchVars
  BY Zenon DEF RunCore, AcceptPing, ShutdownAccept, Core, Successor, HandoffAccept, SessionEnds,
     SessionExit, AcceptWake, ExitHanded, ExitShutdown, ShutdownDecide, HandoffGate,
     HandoffWait, HandoffExport, HandoffExportFails, HandoffCommitted, HandoffDone,
     HandoffAbandoned, HandoffResume, TakeoverAdopt, TakeoverRecord, TakeoverCommit,
     TakeoverFails, TakeoverExit, Exit, launchVars
<1>2. CASE UNCHANGED <<hosted, todo, moving>>
  BY Zenon, <1>1, <1>2 DEF Known
<1>3. ASSUME ExitHanded(c) \/ ExitShutdown(c) \/ TakeoverExit(c)
      PROVE  \A s \in Sessions : Known(s)' => Known(s)
  BY Zenon, <1>3 DEF Known, ExitHanded, ExitShutdown, TakeoverExit, Exit, handVars, IInv, TypeOK, CoreTypeOK
<1>4. ASSUME HandoffExport(c) PROVE  \A s \in Sessions : Known(s)' => Known(s)
  BY Zenon, <1>4 DEF Known, HandoffExport, coreVars, IInv, TypeOK, CoreTypeOK, HandTypeOK
<1>5. ASSUME HandoffCommitted(c) PROVE  \A s \in Sessions : Known(s)' => Known(s)
  BY Zenon, <1>5 DEF Known, HandoffCommitted, IInv, TypeOK, CoreTypeOK, HandTypeOK
<1>6. ASSUME NEW t \in Sessions, TakeoverAdopt(c, t) PROVE  \A s \in Sessions : Known(s)' => Known(s)
  BY Zenon, <1>6 DEF Known, TakeoverAdopt, IInv, TypeOK, CoreTypeOK, HandTypeOK
<1>7. ASSUME NEW t \in Sessions, SessionEnds(c, t) PROVE  \A s \in Sessions : Known(s)' => Known(s)
  BY Zenon, <1>7 DEF Known, SessionEnds, handVars, IInv, TypeOK, CoreTypeOK, HandTypeOK
<1>8. UNCHANGED <<hosted, todo, moving>>
      \/ ExitHanded(c) \/ ExitShutdown(c) \/ TakeoverExit(c) \/ HandoffExport(c)
      \/ HandoffCommitted(c)
      \/ \E t \in Sessions : TakeoverAdopt(c, t) \/ SessionEnds(c, t)
  BY Zenon DEF RunCore, AcceptPing, ShutdownAccept, Core, Successor, HandoffAccept,
     SessionExit, AcceptWake, ShutdownDecide, HandoffGate,
     HandoffWait, HandoffExportFails, HandoffDone,
     HandoffAbandoned, HandoffResume, TakeoverRecord, TakeoverCommit,
     TakeoverFails, coreVars, handVars
<1> QED
  BY Zenon, <1>1, <1>2, <1>3, <1>4, <1>5, <1>6, <1>7, <1>8

\* A launch, its client and its fallback host keep what is known of the file.
LEMMA FileKept ==
    ASSUME IInv, LaunchInv, NEW t \in Sessions,
           \/ LaunchDirect(t) \/ LaunchAsk(t) \/ Launch(t) \/ HostRead(t) \/ HostRun(t)
    PROVE  LaunchInv'
<1> USE DEF IInv, TypeOK, LaunchTypeOK, LaunchInv, FileInv
<1>1. ASSUME NEW c \in Cores, LaunchAccept(c, t) PROVE LaunchInv'
  BY Zenon, <1>1 DEF LaunchAccept, Known, coreVars, handVars
<1>2. ASSUME LaunchDirect(t) \/ LaunchAsk(t) PROVE LaunchInv'
  BY <1>2 DEF LaunchDirect, LaunchAsk, Known, coreVars, handVars
<1>3. ASSUME LaunchCheck(t) PROVE LaunchInv'
  BY <1>3 DEF LaunchCheck, Refused, Known, coreVars, handVars
<1>4. ASSUME LaunchInsert(t) PROVE LaunchInv'
  BY <1>4 DEF LaunchInsert, Refused, Known, handVars
<1>5. ASSUME LaunchConsume(t) PROVE LaunchInv'
  BY Zenon, <1>5 DEF LaunchConsume, Known, coreVars, handVars
<1>6. ASSUME LaunchSetup(t) PROVE LaunchInv'
  BY Zenon, <1>6 DEF LaunchSetup, Known, coreVars, handVars
<1>7. ASSUME LaunchRegister(t) PROVE LaunchInv'
  <2>1. \A s \in Sessions : Known(s)' => Known(s) \/ s = t
    BY Zenon, <1>7 DEF LaunchRegister, Known, handVars, CoreTypeOK
  <2> QED
    BY Zenon, <1>7, <2>1 DEF LaunchRegister
<1>8. ASSUME LaunchFails(t) PROVE LaunchInv'
  BY Zenon, <1>8 DEF LaunchFails, Known, handVars
<1>9. ASSUME LaunchReply(t) PROVE LaunchInv'
  BY <1>9 DEF LaunchReply, Known, coreVars, handVars
<1>10. ASSUME LaunchLate(t) PROVE LaunchInv'
  BY Zenon, <1>10 DEF LaunchLate, Known, coreVars, handVars
<1>11. ASSUME HostRead(t) PROVE LaunchInv'
  BY Zenon, <1>11 DEF HostRead, Known, coreVars, handVars
<1>12. ASSUME HostRun(t) PROVE LaunchInv'
  BY Zenon, <1>12 DEF HostRun, Known, coreVars, handVars
<1> HIDE DEF IInv, TypeOK, LaunchTypeOK, LaunchInv, FileInv
<1> QED
  BY <1>1, <1>2, <1>3, <1>4, <1>5, <1>6, <1>7, <1>8, <1>9, <1>10, <1>11, <1>12, Zenon
     DEF Launch

LEMMA LaunchInvStep == IInv /\ LaunchInv /\ [Next]_vars => LaunchInv'
<1>1. ASSUME LaunchInv, UNCHANGED launchVars, \A s \in Sessions : Known(s)' => Known(s)
      PROVE  LaunchInv'
  BY Zenon, <1>1 DEF LaunchInv, FileInv, launchVars
<1>2. ASSUME LaunchInv, UNCHANGED vars PROVE LaunchInv'
  BY Zenon, <1>1, <1>2 DEF vars, coreVars, handVars, Known
<1> QED
  BY <1>1, <1>2, CoreKnows, FileKept, Zenon DEF Next
-----------------------------------------------------------------------------
LEMMA KFrames ==
    /\ HandInv /\ UNCHANGED <<proc, answer, handed, handing, hpc, todo, peer, from, moving, hosted, ended>> => HandInv'
    /\ AloneInv /\ UNCHANGED <<proc, hpc, handed, hosted, todo>> => AloneInv'
    /\ KeptInv /\ UNCHANGED <<proc, hosted, todo, ended>> => KeptInv'
    /\ RankInv /\ UNCHANGED <<proc, from, hpc, answer, peer, moving, hosted, ended>> => RankInv'
<1>1. HandInv /\ UNCHANGED <<proc, answer, handed, handing, hpc, todo, peer, from, moving, hosted, ended>> => HandInv'
  BY DEF HandInv, Running, Handing
<1>2. AloneInv /\ UNCHANGED <<proc, hpc, handed, hosted, todo>> => AloneInv'
  BY Zenon DEF AloneInv, Gone
<1>3. KeptInv /\ UNCHANGED <<proc, hosted, todo, ended>> => KeptInv'
  BY Zenon DEF KeptInv, Kept, Committed
<1>4. RankInv /\ UNCHANGED <<proc, from, hpc, answer, peer, moving, hosted, ended>> => RankInv'
  BY Zenon DEF RankInv, Ranked, Running, Committed
<1> QED
  BY Zenon, <1>1, <1>2, <1>3, <1>4

\* What most steps do to a core, as far as HandInv and RankInv can see.
HandStep(e) ==
    /\ proc'[e] \notin {"serving", "leaving", "exited"} =>
          proc[e] \notin {"serving", "leaving", "exited"} /\ (answer'[e] = "ok" => answer[e] = "ok")
    /\ proc'[e] = "off" => proc[e] = "off"
    /\ handed'[e] => \/ handing'[e] /\ hpc'[e] = "none"
                     \/ handed[e] /\ (handing'[e] <=> handing[e]) /\ hpc'[e] = hpc[e]
    /\ proc'[e] = "recorded" => todo'[e] = {} \/ (proc[e] = "recorded" /\ todo'[e] = todo[e])
    /\ Running(e)' /\ hpc'[e] # "none" => Running(e) /\ hpc[e] # "none"

MoveStep(e) ==
    Running(e)' /\ Handing(e)' /\ proc'[peer[e]] \in {"receiving", "recorded"} =>
       /\ Running(e) /\ Handing(e) /\ proc[peer[e]] \in {"receiving", "recorded"}
       /\ \A s \in moving'[e] : s \in moving[e]
       /\ \A s \in todo[peer[e]] : s \in todo'[peer[e]] \/ s \in hosted'[peer[e]] \/ s \in ended'
       /\ \A s \in hosted[peer[e]] : s \in hosted'[peer[e]] \/ s \in ended'

Delivered(e) == \A s \in moving[e] : s \in todo[peer[e]] \/ s \in hosted[peer[e]] \/ s \in ended

RankStep(e) ==
    /\ Running(e)' /\ hpc'[e] = "exported" /\ answer'[peer[e]] = "ok" =>
          Running(e) /\ hpc[e] = "exported" /\ answer[peer[e]] = "ok" /\ moving'[e] = moving[e]
    /\ Committed(e) => \A s \in hosted[e] : s \in ended' \/ (Committed(e)' /\ s \in hosted'[e])

LEMMA HandKept ==
    ASSUME PeerInv, HandInv, UNCHANGED <<from, peer>>, \A s \in ended : s \in ended',
           \A e \in Cores : HandStep(e) /\ (MoveStep(e) \/ Delivered(e)')
    PROVE  HandInv'
<1>1. \A e \in Cores : Running(e)' /\ Handing(e)' /\ proc'[peer[e]] \in {"receiving", "recorded"} =>
         \A s \in moving'[e] : s \in todo'[peer[e]] \/ s \in hosted'[peer[e]] \/ s \in ended'
  BY Zenon DEF HandInv, MoveStep, Delivered
<1>2. \A e \in Cores : Running(e)' /\ hpc'[e] # "none" =>
         peer[e] # e /\ from[peer[e]] = e /\ proc'[peer[e]] # "off"
  BY Zenon DEF HandInv, HandStep, PeerInv
<1> QED
  BY <1>1, <1>2 DEF HandInv, HandStep

LEMMA RankKept ==
    ASSUME RankInv, UNCHANGED <<from, peer>>, \A s \in ended : s \in ended',
           \A e \in Cores : RankStep(e)
    PROVE  RankInv'
<1>1. PICK r \in [Cores -> Nat] : Ranked(r)
  BY Zenon DEF RankInv
<1>2. Ranked(r)'
  BY Zenon, <1>1 DEF Ranked, RankStep
<1> QED
  BY Zenon, <1>2 DEF RankInv

\* A turn of the accept loop.
LEMMA TurnKeeps ==
    ASSUME IInv, KInv, NEW c \in Cores, proc[c] = "serving",
           proc' = [proc EXCEPT ![c] = AfterAccept(c)],
           UNCHANGED <<answer, handed, handing, hpc, todo, peer, from, moving, hosted, ended>>
    PROVE  HandInv' /\ AloneInv' /\ KeptInv' /\ RankInv'
<1>0. PeerInv /\ HandInv
  BY Zenon DEF KInv, IInv, StartInv
<1>1. \A d \in Cores :
        /\ Running(d)' = Running(d) /\ Committed(d)' = Committed(d)
        /\ \A p \in {"off", "receiving", "recorded"} : proc'[d] = p <=> proc[d] = p
        /\ proc'[d] \in {"serving", "leaving", "exited"} <=> proc[d] \in {"serving", "leaving", "exited"}
  BY DEF AfterAccept, Running, Committed, IInv, TypeOK, CoreTypeOK
<1>2. \A d \in Cores : Running(d) /\ hpc[d] # "none" => peer[d] \in Cores
  BY Zenon DEF IInv, StartInv, PeerInv
<1>3. HandInv'
  <2>1. \A e \in Cores : HandStep(e)
    BY Zenon, <1>1 DEF HandStep
  <2>2. \A e \in Cores : MoveStep(e)
    BY Zenon, <1>1, <1>2 DEF MoveStep, Handing
  <2> QED
    BY Zenon, <1>0, <2>1, <2>2, HandKept
<1>4. AloneInv'
  BY Zenon, <1>1 DEF AloneInv, Gone, KInv
<1>5. KeptInv'
  BY Zenon, <1>1 DEF KeptInv, Kept, KInv
<1>6. RankInv'
  <2>1. \A e \in Cores : RankStep(e)
    BY Zenon, <1>1, <1>2 DEF RankStep
  <2> QED
    BY Zenon, <1>1, <2>1, RankKept DEF KInv
<1> QED
  BY Zenon, <1>3, <1>4, <1>5, <1>6

LEMMA RunCoreKeeps ==
    ASSUME IInv, KInv, NEW c \in Cores, RunCore(c)
    PROVE  HandInv' /\ AloneInv' /\ KeptInv' /\ RankInv'
<1>0. /\ hosted[c] = {} /\ ~handed[c] /\ hpc[c] = "none" /\ proc[c] = "off"
      /\ proc' = [proc EXCEPT ![c] = "serving"]
      /\ UNCHANGED <<answer, handed, handing, hpc, todo, peer, from, moving, hosted, ended>>
  BY Zenon DEF RunCore, IInv, StartInv, FreshInv, coreVars, handVars
<1>1. /\ \A d \in Cores \ {c} : proc'[d] = proc[d] /\ (Running(d)' = Running(d)) /\ (Committed(d)' = Committed(d))
      /\ proc'[c] = "serving"
  BY Zenon, <1>0 DEF Running, Committed, IInv, TypeOK, CoreTypeOK
<1>2. \A d \in Cores : Running(d) /\ hpc[d] # "none" => peer[d] \in Cores
  BY Zenon DEF IInv, StartInv, PeerInv
<1>3. HandInv'
  <2>1. \A e \in Cores : HandStep(e)
    BY Zenon, <1>0, <1>1 DEF HandStep
  <2>2. \A e \in Cores : MoveStep(e)
    BY Zenon, <1>0, <1>1, <1>2 DEF MoveStep, Handing
  <2> QED
    BY Zenon, <1>0, <2>1, <2>2, HandKept DEF KInv, IInv, StartInv
<1>4. AloneInv'
  BY Zenon, <1>0, <1>1 DEF AloneInv, Gone, KInv
<1>5. KeptInv'
  BY <1>0, <1>1 DEF KeptInv, Kept, KInv
<1>6. RankInv'
  <2>1. \A e \in Cores : RankStep(e)
    BY Zenon, <1>0, <1>1, <1>2 DEF RankStep
  <2> QED
    BY Zenon, <1>0, <2>1, RankKept DEF KInv
<1> QED
  BY Zenon, <1>3, <1>4, <1>5, <1>6

LEMMA ExitKeeps ==
    ASSUME IInv, KInv, NEW c \in Cores, ExitHanded(c) \/ ExitShutdown(c) \/ TakeoverExit(c)
    PROVE  HandInv' /\ AloneInv' /\ KeptInv' /\ RankInv'
<1>0. /\ proc' = [proc EXCEPT ![c] = "exited"] /\ hosted' = [hosted EXCEPT ![c] = {}]
      /\ UNCHANGED <<answer, handed, handing, hpc, todo, peer, from, moving, ended>>
  BY Zenon DEF ExitHanded, ExitShutdown, TakeoverExit, Exit, handVars
<1>1. /\ \A d \in Cores \ {c} : proc'[d] = proc[d] /\ hosted'[d] = hosted[d]
         /\ (Running(d)' = Running(d)) /\ (Committed(d)' = Committed(d))
      /\ proc'[c] = "exited" /\ hosted'[c] = {} /\ ~Running(c)'
  BY Zenon, <1>0 DEF Running, Committed, IInv, TypeOK, CoreTypeOK
<1>2. \A d \in Cores : Running(d) /\ hpc[d] # "none" => peer[d] \in Cores
  BY Zenon DEF IInv, StartInv, PeerInv
<1>3. Committed(c) => handed[c] \/ hosted[c] = {}
  BY Zenon DEF Committed, ExitHanded, ExitShutdown, TakeoverExit, IInv, ShutInv, LiveInv, SetsInv
<1>4. HandInv'
  <2>1. \A e \in Cores : HandStep(e)
    BY Zenon, <1>0, <1>1 DEF HandStep
  <2>2. \A e \in Cores : MoveStep(e)
    BY Zenon, <1>0, <1>1, <1>2 DEF MoveStep, Handing
  <2> QED
    BY Zenon, <1>0, <2>1, <2>2, HandKept DEF KInv, IInv, StartInv
<1>5. AloneInv'
  BY <1>0, <1>1 DEF AloneInv, Gone, KInv
<1>6. KeptInv'
  BY <1>0, <1>1, <1>3 DEF KeptInv, Kept, KInv, AloneInv, Gone
<1>7. RankInv'
  <2>1. PICK r \in [Cores -> Nat] : Ranked(r)
    BY Zenon DEF KInv, RankInv
  <2>2. \A d \in Cores : Running(d) /\ hpc[d] = "exported" => \A s \in moving[d] : s \in hosted[d]
    BY Zenon DEF IInv, LiveInv, MovingInv, Handing
  <2>3. ASSUME NEW d \in Cores, d # c, Running(d), hpc[d] = "exported", NEW s \in moving[d],
               s \in hosted[c]
        PROVE  ~Committed(c)
    BY Zenon, <1>3, <2>2, <2>3 DEF KInv, AloneInv, Gone
  <2>4. Ranked(r)'
    BY <1>0, <1>1, <2>1, <2>3 DEF Ranked
  <2> QED
    BY Zenon, <2>4 DEF RankInv
<1> QED
  BY Zenon, <1>4, <1>5, <1>6, <1>7

LEMMA HandoffAcceptKeeps ==
    ASSUME IInv, KInv, NEW c \in Cores, NEW d \in Cores, AcceptEffect(d, c)
    PROVE  HandInv' /\ AloneInv' /\ KeptInv' /\ RankInv'
<1>0. /\ c # d /\ proc[d] = "serving" /\ proc'[c] \in {"asking", "exited"}
      /\ UNCHANGED <<answer, handed, todo, moving, hosted, ended>>
      /\ \A e \in Cores \ {d} : handing'[e] = handing[e] /\ hpc'[e] = hpc[e] /\ peer'[e] = peer[e]
      /\ \A e \in Cores \ {c} : from'[e] = from[e]
      /\ \/ handing'[d] = handing[d] /\ hpc'[d] = hpc[d] /\ peer'[d] = peer[d] /\ from'[c] = from[c]
         \/ ~handing[d] /\ hpc'[d] = "gated" /\ peer'[d] = c /\ from'[c] = d
  BY Zenon DEF AcceptEffect
<1>1. hosted[c] = {} /\ ~handed[c] /\ hpc[c] = "none" /\ ~Running(c) /\ answer[c] # "ok"
  BY Zenon DEF AcceptEffect, IInv, StartInv, FreshInv, Running, KInv, HandInv
<1>2. \A e \in Cores :
        /\ Running(e)' = Running(e) /\ Committed(e)' = Committed(e)
        /\ \A p \in {"receiving", "recorded"} : proc'[e] = p <=> proc[e] = p
        /\ proc'[e] = "off" => proc[e] = "off"
        /\ proc'[e] \notin {"serving", "leaving", "exited"} => proc[e] \notin {"serving", "leaving", "exited"}
  BY DEF AcceptEffect, Running, Committed
<1>3. \A e \in Cores : Running(e) /\ hpc[e] # "none" => peer[e] \in Cores /\ peer[e] # c
  BY DEF IInv, StartInv, PeerInv, KInv, HandInv, AcceptEffect
<1>4. HandInv'
  <2>1. ASSUME NEW e \in Cores, Running(e)', hpc'[e] # "none"
        PROVE  peer'[e] # e /\ from'[peer'[e]] = e /\ proc'[peer'[e]] # "off"
    <3>1. CASE peer'[e] = peer[e] /\ Running(e) /\ hpc[e] # "none"
      BY <1>0, <1>2, <1>3, <3>1 DEF HandInv, KInv
    <3> QED
      BY <1>0, <1>2, <2>1, <3>1
  <2>2. \A e \in Cores : Running(e)' /\ Handing(e)' =>
           Running(e) /\ Handing(e) /\ peer'[e] = peer[e] /\ peer[e] \in Cores
    BY <1>0, <1>2, <1>3 DEF Handing
  <2>3. \A e \in Cores : /\ from'[e] \in Cores => proc'[e] # "off" /\ proc'[from'[e]] # "off"
                         /\ handed[e] => handing'[e] /\ hpc'[e] = "none"
    BY <1>0, <1>2 DEF HandInv, KInv
  <2> QED
    BY <1>0, <1>2, <2>1, <2>2, <2>3 DEF HandInv, KInv
<1>5. AloneInv'
  BY <1>0, <1>1, <1>2 DEF AloneInv, Gone, KInv
<1>6. KeptInv'
  BY Zenon, <1>0, <1>2 DEF KeptInv, Kept, KInv
<1>7. RankInv'
  <2>1. PICK r \in [Cores -> Nat] : Ranked(r)
    BY Zenon DEF KInv, RankInv
  <2> DEFINE q == [r EXCEPT ![c] = r[d] + 1]
  <2>2. q \in [Cores -> Nat] /\ q[c] = r[d] + 1 /\ \A e \in Cores \ {c} : q[e] = r[e]
    OBVIOUS
  <2>3. from[c] \notin Cores /\ \A e \in Cores : from[e] # c
    BY DEF AcceptEffect, KInv, HandInv
  <2> HIDE DEF q
  <2>4. \A e \in Cores : from'[e] \in Cores => q[from'[e]] < q[e]
    BY <1>0, <2>1, <2>2, <2>3 DEF Ranked
  <2>5. Ranked(q)'
    BY <1>0, <1>1, <1>2, <1>3, <2>1, <2>2, <2>4 DEF Ranked
  <2> QED
    BY Zenon, <2>2, <2>5 DEF RankInv
<1> QED
  BY Zenon, <1>4, <1>5, <1>6, <1>7

\* A handoff request before the export: it goes on, or its successor is told
\* to leave.
LEMMA AskedKeeps ==
    ASSUME IInv, KInv, NEW d \in Cores,
           HandoffGate(d) \/ HandoffWait(d) \/ HandoffExportFails(d)
    PROVE  HandInv' /\ AloneInv' /\ KeptInv' /\ RankInv'
<1>0. Running(d) /\ Asked(d)
  BY Zenon DEF HandoffGate, HandoffWait, HandoffExportFails, Asked, Running
<1>1. peer[d] \in Cores /\ peer[d] # d /\ proc[peer[d]] = "asking" /\ hosted[peer[d]] = {} /\ ~handed[d]
      /\ Running(d)
  <2>1. peer[d] \in Cores /\ peer[d] # d /\ proc[peer[d]] = "asking"
    BY Zenon, <1>0 DEF IInv, StartInv, PeerInv
  <2>2. hosted[peer[d]] = {}
    BY Zenon, <2>1 DEF IInv, StartInv, FreshInv
  <2>3. ~handed[d]
    BY Zenon, <1>0 DEF KInv, HandInv, Asked
  <2> QED
    BY Zenon, <1>0, <2>1, <2>2, <2>3
<1>2. /\ proc' = proc \/ proc' = [proc EXCEPT ![peer[d]] = "exited"]
      /\ \E h \in {"none", "waiting", "ready"} : hpc' = [hpc EXCEPT ![d] = h]
      /\ UNCHANGED <<answer, handed, todo, peer, from, moving, hosted, ended>>
      /\ \A e \in Cores \ {d} : handing'[e] = handing[e]
  BY Zenon DEF HandoffGate, HandoffWait, HandoffExportFails, Refuse, IInv, TypeOK, FlagTypeOK
<1>3. \A e \in Cores :
        /\ Running(e)' = Running(e) /\ Committed(e)' = Committed(e)
        /\ \A p \in {"receiving", "recorded", "off"} : proc'[e] = p <=> proc[e] = p
        /\ proc'[e] \notin {"serving", "leaving", "exited"} => proc[e] \notin {"serving", "leaving", "exited"}
  BY <1>1, <1>2 DEF Running, Committed, IInv, TypeOK, CoreTypeOK
<1>4. /\ \A e \in Cores \ {d} : hpc'[e] = hpc[e]
      /\ hpc'[d] \in {"none", "waiting", "ready"}
  BY Zenon, <1>2 DEF IInv, TypeOK, HandTypeOK
<1>5. hpc[d] # "none"
  BY Zenon, <1>0 DEF Asked
<1>6. \A e \in Cores : Running(e) /\ hpc[e] # "none" => peer[e] \in Cores
  BY Zenon DEF IInv, StartInv, PeerInv
<1>7. HandInv'
  <2>1. \A e \in Cores : HandStep(e)
    BY Zenon, <1>1, <1>2, <1>3, <1>4, <1>5 DEF HandStep
  <2>2. \A e \in Cores : MoveStep(e)
    BY Zenon, <1>2, <1>3, <1>4, <1>6 DEF MoveStep, Handing
  <2> QED
    BY Zenon, <1>2, <2>1, <2>2, HandKept DEF KInv, IInv, StartInv
<1>8. AloneInv'
  BY <1>2, <1>3, <1>4, Zenon DEF AloneInv, Gone, KInv
<1>9. KeptInv'
  BY <1>2, <1>3, Zenon DEF KeptInv, Kept, KInv
<1>10. RankInv'
  <2>1. \A e \in Cores : RankStep(e)
    BY Zenon, <1>2, <1>3, <1>4, <1>6 DEF RankStep
  <2> QED
    BY Zenon, <1>2, <2>1, RankKept DEF KInv
<1> QED
  BY Zenon, <1>7, <1>8, <1>9, <1>10

LEMMA ExportKeeps ==
    ASSUME IInv, KInv, NEW d \in Cores, HandoffExport(d)
    PROVE  HandInv' /\ AloneInv' /\ KeptInv' /\ RankInv'
<1> DEFINE c == peer[d]
<1>1. c \in Cores /\ c # d /\ proc[c] = "asking" /\ hosted[c] = {} /\ ~handed[c] /\ ~handed[d]
      /\ Running(d) /\ hpc[d] = "ready" /\ hpc[c] = "none" /\ answer[c] # "ok" /\ from[c] = d
  BY Zenon DEF HandoffExport, IInv, StartInv, PeerInv, FreshInv, Asked, KInv, HandInv
<1>2. Committed(d)
  BY Zenon, <1>1 DEF Committed, Running, IInv, StartInv, FreshInv
<1>3. \A e \in Cores : Running(e) /\ hpc[e] # "none" => peer[e] \in Cores /\ (e # d => peer[e] # c)
  BY <1>1 DEF IInv, StartInv, PeerInv, KInv, HandInv
<1>4. /\ hpc' = [hpc EXCEPT ![d] = "exported"] /\ moving' = [moving EXCEPT ![d] = hosted[d]]
      /\ todo' = [todo EXCEPT ![c] = hosted[d]] /\ proc' = [proc EXCEPT ![c] = "receiving"]
  BY Zenon DEF HandoffExport
<1>11. UNCHANGED <<answer, handed, handing, peer, from, hosted, ended>>
  BY Zenon DEF HandoffExport, coreVars
<1> HIDE DEF c
<1>5. /\ hpc'[d] = "exported" /\ moving'[d] = hosted[d] /\ todo'[c] = hosted[d] /\ proc'[c] = "receiving"
      /\ \A e \in Cores \ {d} : hpc'[e] = hpc[e] /\ moving'[e] = moving[e]
      /\ \A e \in Cores \ {c} : todo'[e] = todo[e] /\ proc'[e] = proc[e]
         /\ (Running(e)' = Running(e))
      /\ \A e \in Cores : Committed(e)' = Committed(e)
  BY <1>1, <1>4 DEF Running, Committed, IInv, TypeOK, CoreTypeOK, HandTypeOK
<1>6. peer[d] = c /\ handing[d]
  BY Zenon, <1>1 DEF c, IInv, StartInv, PeerInv
<1>7. HandInv'
  <2>1. \A e \in Cores : HandStep(e)
    BY <1>1, <1>5, <1>6, <1>11 DEF HandStep
  <2>2. ASSUME NEW e \in Cores, e # d PROVE MoveStep(e)
    BY <1>1, <1>3, <1>5, <1>11, <2>2 DEF MoveStep, Handing
  <2>3. Delivered(d)'
    BY Zenon, <1>5, <1>6, <1>11 DEF Delivered
  <2> QED
    BY Zenon, <1>11, <2>1, <2>2, <2>3, HandKept DEF KInv, IInv, StartInv
<1>8. AloneInv'
  <2> SUFFICES ASSUME NEW a \in Cores, NEW b \in Cores, a # b, Gone(a)', NEW s \in hosted'[a]
               PROVE  s \notin hosted'[b] /\ (proc'[b] = "receiving" => s \notin todo'[b])
    BY Zenon DEF AloneInv
  <2>1. Gone(a) /\ a # d
    BY <1>1, <1>11, <1>5, Zenon DEF Gone
  <2>2. s \in hosted[a] /\ s \notin hosted[d] /\ s \notin hosted[b]
        /\ (proc[b] = "receiving" => s \notin todo[b])
    BY Zenon, <1>11, <2>1 DEF AloneInv, KInv
  <2> QED
    BY Zenon, <1>5, <1>11, <2>2
<1>9. KeptInv'
  BY <1>1, <1>2, <1>11, <1>5 DEF KeptInv, Kept, KInv
<1>10. RankInv'
  BY <1>1, <1>3, <1>11, <1>5, <1>6 DEF RankInv, Ranked, KInv
<1> QED
  BY Zenon, <1>7, <1>8, <1>9, <1>10

\* The commit: what leaves this reactor is on a younger one, or over.
LEMMA Younger ==
    ASSUME IInv, KInv, NEW d \in Cores, HandoffCommitted(d), NEW s \in moving[d], s \notin ended
    PROVE  \E e \in Cores : e # d /\ Committed(e) /\ s \in hosted[e]
<1>1. PICK r \in [Cores -> Nat] : Ranked(r)
  BY Zenon DEF KInv, RankInv
<1>2. \E e \in Cores : r[d] < r[e] /\ Committed(e) /\ s \in hosted[e]
  BY <1>1, Zenon DEF Ranked, HandoffCommitted
<1> QED
  BY <1>2

LEMMA CommittedKeeps ==
    ASSUME IInv, KInv, NEW d \in Cores, HandoffCommitted(d)
    PROVE  HandInv' /\ AloneInv' /\ KeptInv' /\ RankInv'
<1>1. hosted[d] = moving[d] /\ Running(d) /\ hpc[d] = "exported" /\ ~handed[d]
  BY Zenon DEF HandoffCommitted, IInv, LiveInv, MovingInv, Handing, KInv, HandInv
<1>2. /\ UNCHANGED <<proc, answer, handed, handing, todo, peer, from, moving, ended>>
      /\ hosted'[d] = {} /\ hpc'[d] = "forgot"
      /\ \A e \in Cores \ {d} : hpc'[e] = hpc[e] /\ hosted'[e] = hosted[e]
      /\ \A e \in Cores : (Running(e)' = Running(e)) /\ (Committed(e)' = Committed(e))
  BY Zenon, <1>1 DEF HandoffCommitted, Running, Committed, IInv, TypeOK, CoreTypeOK, HandTypeOK
<1>3. \A e \in Cores : Running(e) /\ hpc[e] # "none" => peer[e] \in Cores
  BY Zenon DEF IInv, StartInv, PeerInv
<1>4. \A e \in Cores : proc[e] \in {"receiving", "recorded"} => e # d
  BY Zenon, <1>1 DEF IInv, StartInv, FreshInv
<1>5. HandInv'
  <2>1. \A e \in Cores : HandStep(e)
    BY Zenon, <1>1, <1>2 DEF HandStep
  <2>2. \A e \in Cores : MoveStep(e)
    BY Zenon, <1>1, <1>2, <1>3, <1>4 DEF MoveStep, Handing
  <2> QED
    BY Zenon, <1>2, <2>1, <2>2, HandKept DEF KInv, IInv, StartInv
<1>6. AloneInv'
  BY Zenon, <1>1, <1>2 DEF AloneInv, Gone, KInv
<1>7. KeptInv'
  BY <1>1, <1>2, Younger DEF KeptInv, Kept, KInv
<1>8. RankInv'
  <2>1. PICK r \in [Cores -> Nat] : Ranked(r)
    BY Zenon DEF KInv, RankInv
  <2>2. \A s \in moving[d] : s \in ended \/ \E e \in Cores : r[d] < r[e] /\ Committed(e) /\ s \in hosted[e]
    BY Zenon, <2>1 DEF Ranked, HandoffCommitted
  <2>3. Ranked(r)'
    BY <1>1, <1>2, <2>1, <2>2 DEF Ranked
  <2> QED
    BY Zenon, <2>3 DEF RankInv
<1> QED
  BY Zenon, <1>5, <1>6, <1>7, <1>8

\* The request of the old core after the commit, or after it gave up.
LEMMA RequestKeeps ==
    ASSUME IInv, KInv, NEW d \in Cores,
           HandoffDone(d) \/ HandoffAbandoned(d) \/ HandoffResume(d)
    PROVE  HandInv' /\ AloneInv' /\ KeptInv' /\ RankInv'
<1>1. Running(d) /\ hpc[d] # "none" /\ ~handed[d] /\ handing[d]
  BY Zenon DEF HandoffDone, HandoffAbandoned, HandoffResume, KInv, HandInv, IInv, StartInv, PeerInv
<1>2. /\ UNCHANGED <<proc, answer, todo, peer, from, moving, hosted, ended>>
      /\ \E h \in {"none", "abandoning"} : hpc' = [hpc EXCEPT ![d] = h]
  BY Zenon DEF HandoffDone, HandoffAbandoned, HandoffResume, coreVars
<1>3. /\ \A e \in Cores \ {d} : hpc'[e] = hpc[e]
      /\ hpc'[d] \in {"none", "abandoning"}
  BY Zenon, <1>2 DEF IInv, TypeOK, HandTypeOK
<1>4. /\ \A e \in Cores \ {d} : (handing'[e] <=> handing[e]) /\ (handed'[e] <=> handed[e])
      /\ handed'[d] => hpc[d] = "forgot" /\ hpc'[d] = "none" /\ handing'[d]
  BY <1>1, Zenon DEF HandoffDone, HandoffAbandoned, HandoffResume, IInv, TypeOK, FlagTypeOK, HandTypeOK, coreVars
<1>5. hpc'[d] = "abandoning" => hpc[d] = "exported"
  BY Zenon, <1>3 DEF HandoffDone, HandoffAbandoned, HandoffResume, IInv, TypeOK, HandTypeOK
<1>6. \A e \in Cores : Running(e) /\ hpc[e] # "none" => peer[e] \in Cores
  BY Zenon DEF IInv, StartInv, PeerInv
<1>7. HandInv'
  <2>1. \A e \in Cores : HandStep(e)
    BY Zenon, <1>1, <1>2, <1>3, <1>4 DEF HandStep, Running
  <2>2. \A e \in Cores : MoveStep(e)
    BY Zenon, <1>1, <1>2, <1>3, <1>5, <1>6 DEF MoveStep, Handing, Running
  <2> QED
    BY Zenon, <1>2, <2>1, <2>2, HandKept DEF KInv, IInv, StartInv
<1>8. AloneInv'
  BY <1>2, <1>3, <1>4, Zenon DEF AloneInv, Gone, KInv
<1>9. KeptInv'
  BY <1>2, Zenon DEF KeptInv, Kept, Committed, KInv
<1>10. RankInv'
  <2>1. \A e \in Cores : RankStep(e)
    BY Zenon, <1>2, <1>3, <1>6 DEF RankStep, Running, Committed
  <2> QED
    BY Zenon, <1>2, <2>1, RankKept DEF KInv
<1> QED
  BY Zenon, <1>7, <1>8, <1>9, <1>10

\* A successor that has received everything, or failed.
LEMMA SuccessorKeeps ==
    ASSUME IInv, KInv, NEW c \in Cores, TakeoverRecord(c) \/ TakeoverFails(c)
    PROVE  HandInv' /\ AloneInv' /\ KeptInv' /\ RankInv'
<1>1. /\ proc[c] = "receiving"
      /\ \/ answer' = answer /\ proc' = [proc EXCEPT ![c] = "recorded"] /\ todo[c] = {}
         \/ proc' = [proc EXCEPT ![c] = "failing"] /\ answer' = [answer EXCEPT ![c] = "refused"]
  BY Zenon DEF TakeoverRecord, TakeoverFails, handVars
<1>0. UNCHANGED <<handed, handing, hpc, todo, peer, from, moving, hosted, ended>>
  BY Zenon DEF TakeoverRecord, TakeoverFails, coreVars, handVars
<1>2. /\ \A e \in Cores \ {c} : proc'[e] = proc[e]
      /\ proc[c] = "receiving"
      /\ proc'[c] \in {"recorded", "failing"} /\ (proc'[c] = "recorded" => todo[c] = {})
      /\ \A e \in Cores : (Running(e)' = Running(e)) /\ (Committed(e)' = Committed(e))
      /\ \A e \in Cores : answer'[e] = "ok" => answer[e] = "ok"
  BY <1>1 DEF Running, Committed, IInv, TypeOK, CoreTypeOK, HandTypeOK
<1>3. \A e \in Cores : Running(e) /\ hpc[e] # "none" => peer[e] \in Cores
  BY Zenon DEF IInv, StartInv, PeerInv
<1>4. HandInv'
  <2>1. \A e \in Cores : HandStep(e)
    BY Zenon, <1>0, <1>2 DEF HandStep
  <2>2. \A e \in Cores : MoveStep(e)
    BY Zenon, <1>0, <1>2, <1>3 DEF MoveStep, Handing
  <2> QED
    BY Zenon, <1>0, <2>1, <2>2, HandKept DEF KInv, IInv, StartInv
<1>5. AloneInv'
  BY <1>0, <1>2, Zenon DEF AloneInv, Gone, KInv
<1>6. KeptInv'
  BY Zenon, <1>0, <1>2 DEF KeptInv, Kept, KInv
<1>7. RankInv'
  <2>1. \A e \in Cores : RankStep(e)
    BY Zenon, <1>0, <1>2, <1>3 DEF RankStep
  <2> QED
    BY Zenon, <1>0, <2>1, RankKept DEF KInv
<1> QED
  BY Zenon, <1>4, <1>5, <1>6, <1>7

LEMMA CommitKeeps ==
    ASSUME IInv, KInv, NEW c \in Cores, TakeoverCommit(c)
    PROVE  HandInv' /\ AloneInv' /\ KeptInv' /\ RankInv'
<1>1. /\ proc[c] = "recorded" /\ todo[c] = {} /\ hpc[c] = "none"
      /\ proc' = [proc EXCEPT ![c] = "serving"] /\ answer' = [answer EXCEPT ![c] = "ok"]
      /\ UNCHANGED <<handed, handing, hpc, todo, peer, from, moving, hosted, ended>>
  BY Zenon DEF TakeoverCommit, coreVars, KInv, HandInv, IInv, StartInv, FreshInv
<1>2. /\ \A e \in Cores \ {c} : proc'[e] = proc[e] /\ answer'[e] = answer[e] /\ (Committed(e)' = Committed(e))
      /\ proc'[c] = "serving" /\ Committed(c)'
      /\ \A e \in Cores : Running(e)' = Running(e)
  BY <1>1 DEF Running, Committed, IInv, TypeOK, CoreTypeOK, HandTypeOK
<1>3. \A e \in Cores : Running(e) /\ hpc[e] # "none" => peer[e] \in Cores
  BY Zenon DEF IInv, StartInv, PeerInv
<1>4. HandInv'
  <2>1. \A e \in Cores : HandStep(e)
    BY Zenon, <1>1, <1>2 DEF HandStep
  <2>2. \A e \in Cores : MoveStep(e)
    BY Zenon, <1>1, <1>2, <1>3 DEF MoveStep, Handing
  <2> QED
    BY Zenon, <1>1, <2>1, <2>2, HandKept DEF KInv, IInv, StartInv
<1>5. AloneInv'
  BY <1>1, <1>2 DEF AloneInv, Gone, KInv
<1>6. KeptInv'
  BY <1>1, <1>2 DEF KeptInv, Kept, KInv
<1>7. RankInv'
  <2>1. PICK r \in [Cores -> Nat] : Ranked(r)
    BY Zenon DEF KInv, RankInv
  <2>2. \A d \in Cores : Running(d) /\ hpc[d] = "exported" /\ peer[d] = c =>
           r[d] < r[c] /\ \A s \in moving[d] : s \in ended \/ s \in hosted[c]
    BY <1>1, <2>1, Zenon DEF Ranked, KInv, HandInv, Handing
  <2>3. Ranked(r)'
    BY <1>1, <1>2, <1>3, <2>1, <2>2, SMTT(30) DEF Ranked
  <2> QED
    BY Zenon, <2>3 DEF RankInv
<1> QED
  BY Zenon, <1>4, <1>5, <1>6, <1>7

LEMMA AdoptKeeps ==
    ASSUME IInv, KInv, NEW c \in Cores, NEW t \in Sessions, TakeoverAdopt(c, t)
    PROVE  HandInv' /\ AloneInv' /\ KeptInv' /\ RankInv'
<1>1. /\ proc[c] = "receiving" /\ t \in todo[c] /\ hpc[c] = "none" /\ ~handed[c]
      /\ UNCHANGED <<proc, answer, handed, handing, hpc, peer, from, moving, ended>>
  BY Zenon DEF TakeoverAdopt, IInv, StartInv, FreshInv
<1>2. /\ \A e \in Cores \ {c} : hosted'[e] = hosted[e] /\ todo'[e] = todo[e]
      /\ hosted'[c] = hosted[c] \cup {t} /\ todo'[c] = todo[c] \ {t}
  BY Zenon DEF TakeoverAdopt, IInv, TypeOK, CoreTypeOK, HandTypeOK
<1>3. \A e \in Cores : Running(e) /\ hpc[e] # "none" => peer[e] \in Cores
  BY Zenon DEF IInv, StartInv, PeerInv
<1>4. HandInv'
  <2>1. \A e \in Cores : HandStep(e)
    BY Zenon, <1>1, <1>2 DEF HandStep, Running
  <2>2. \A e \in Cores : MoveStep(e)
    BY Zenon, <1>1, <1>2, <1>3 DEF MoveStep, Handing, Running
  <2> QED
    BY Zenon, <1>1, <2>1, <2>2, HandKept DEF KInv, IInv, StartInv
<1>5. AloneInv'
  <2> SUFFICES ASSUME NEW a \in Cores, NEW b \in Cores, a # b, Gone(a)', NEW s \in hosted'[a]
               PROVE  s \notin hosted'[b] /\ (proc'[b] = "receiving" => s \notin todo'[b])
    BY Zenon DEF AloneInv
  <2>1. Gone(a) /\ a # c
    BY Zenon, <1>1, <1>2 DEF Gone
  <2> QED
    BY <1>1, <1>2, <2>1, Zenon DEF AloneInv, KInv
<1>6. KeptInv'
  BY <1>1, <1>2 DEF KeptInv, Kept, Committed, KInv
<1>7. RankInv'
  <2>1. \A e \in Cores : RankStep(e)
    BY Zenon, <1>1, <1>2 DEF RankStep, Running, Committed
  <2> QED
    BY Zenon, <1>1, <2>1, RankKept DEF KInv
<1> QED
  BY Zenon, <1>4, <1>5, <1>6, <1>7

LEMMA RegisterKeeps ==
    ASSUME IInv, KInv, NEW t \in Sessions, LaunchRegister(t)
    PROVE  HandInv' /\ AloneInv' /\ KeptInv' /\ RankInv'
<1> DEFINE c == at[t]
<1>1. /\ c \in Cores /\ proc[c] \in {"serving", "leaving"} /\ ~Handing(c) /\ lpc[t] = "setup"
      /\ UNCHANGED <<proc, answer, handed, handing, hpc, peer, from, moving, todo, ended>>
  BY Zenon DEF LaunchRegister, IInv, LiveInv, OwnedInv, Running, handVars
<1>2. /\ \A e \in Cores \ {c} : hosted'[e] = hosted[e]
      /\ hosted'[c] = hosted[c] \cup {t}
  BY Zenon, <1>1 DEF LaunchRegister, IInv, TypeOK, CoreTypeOK
<1>3. \A e \in Cores : t \notin hosted[e] /\ t \notin todo[e] /\ t \notin moving[e]
  BY <1>1, Zenon DEF KInv, LaunchInv, Known
<1>4. \A e \in Cores : Running(e) /\ hpc[e] # "none" => peer[e] \in Cores
  BY Zenon DEF IInv, StartInv, PeerInv
<1> HIDE DEF c
<1>5. HandInv'
  <2>1. \A e \in Cores : HandStep(e)
    BY Zenon, <1>1 DEF HandStep, Running
  <2>2. \A e \in Cores : MoveStep(e)
    BY Zenon, <1>1, <1>2, <1>4 DEF MoveStep, Handing, Running
  <2> QED
    BY Zenon, <1>1, <2>1, <2>2, HandKept DEF KInv, IInv, StartInv
<1>6. AloneInv'
  <2> SUFFICES ASSUME NEW a \in Cores, NEW b \in Cores, a # b, Gone(a)', NEW s \in hosted'[a]
               PROVE  s \notin hosted'[b] /\ (proc'[b] = "receiving" => s \notin todo'[b])
    BY Zenon DEF AloneInv
  <2>1. Gone(a)
    BY <1>1, <1>2, <1>3, Zenon DEF Gone
  <2>2. UNCHANGED <<proc, todo>> /\ hosted'[a] \subseteq hosted[a] \cup {t}
        /\ hosted'[b] \subseteq hosted[b] \cup {t} /\ (a # c \/ b # c)
    BY Zenon, <1>1, <1>2
  <2>3. CASE s \in hosted[a]
    BY Zenon, <1>3, <2>1, <2>2, <2>3 DEF AloneInv, KInv
  <2>4. CASE s \notin hosted[a]
    BY Zenon, <1>2, <1>3, <2>2, <2>4
  <2> QED
    BY Zenon, <2>3, <2>4
<1>7. KeptInv'
  BY <1>1, <1>2 DEF KeptInv, Kept, Committed, KInv
<1>8. RankInv'
  <2>1. \A e \in Cores : RankStep(e)
    BY Zenon, <1>1, <1>2, <1>4 DEF RankStep, Running, Committed
  <2> QED
    BY Zenon, <1>1, <2>1, RankKept DEF KInv
<1> QED
  BY Zenon, <1>5, <1>6, <1>7, <1>8

LEMMA EndsKeeps ==
    ASSUME IInv, KInv, NEW c \in Cores, NEW t \in Sessions, SessionEnds(c, t)
    PROVE  HandInv' /\ AloneInv' /\ KeptInv' /\ RankInv'
<1>1. UNCHANGED <<proc, answer, handed, handing, hpc, peer, from, moving, todo>>
  BY Zenon DEF SessionEnds, handVars
<1>2. /\ \A e \in Cores : \A s \in Sessions : s \in hosted'[e] => s \in hosted[e]
      /\ \A e \in Cores : \A s \in hosted[e] : s \in hosted'[e] \/ s = t
      /\ ended' = ended \cup {t}
      /\ \A e \in Cores : hosted[e] \subseteq Sessions /\ hosted'[e] \subseteq Sessions
  BY Zenon DEF SessionEnds, IInv, TypeOK, CoreTypeOK
<1>3. \A e \in Cores : Running(e) /\ hpc[e] # "none" => peer[e] \in Cores
  BY Zenon DEF IInv, StartInv, PeerInv
<1>4. HandInv'
  <2>1. \A e \in Cores : HandStep(e)
    BY Zenon, <1>1 DEF HandStep, Running
  <2>2. \A e \in Cores : MoveStep(e)
    BY Zenon, <1>1, <1>2, <1>3 DEF MoveStep, Handing, Running
  <2> QED
    BY Zenon, <1>1, <1>2, <2>1, <2>2, HandKept DEF KInv, IInv, StartInv
<1>5. AloneInv'
  BY <1>1, <1>2, Zenon DEF AloneInv, Gone, KInv
<1>6. KeptInv'
  BY Zenon, <1>1, <1>2 DEF KeptInv, Kept, Committed, KInv
<1>7. RankInv'
  <2>1. \A e \in Cores : RankStep(e)
    BY Zenon, <1>1, <1>2, <1>3 DEF RankStep, Running, Committed
  <2> QED
    BY Zenon, <1>1, <1>2, <2>1, RankKept DEF KInv
<1> QED
  BY Zenon, <1>4, <1>5, <1>6, <1>7
-----------------------------------------------------------------------------
\* The other steps of a core, a client or a fallback host leave all of this
\* alone.
LEMMA OthersKeep ==
    ASSUME KInv,
           \/ \E c \in Cores : ShutdownDecide(c) \/ \E s \in Sessions : SessionExit(c, s)
           \/ \E s \in Sessions :
                 \/ LaunchDirect(s) \/ LaunchAsk(s) \/ LaunchCheck(s) \/ LaunchInsert(s)
                 \/ LaunchConsume(s) \/ LaunchSetup(s) \/ LaunchFails(s) \/ LaunchReply(s)
                 \/ LaunchLate(s) \/ HostRead(s) \/ HostRun(s)
           \/ UNCHANGED vars
    PROVE  HandInv' /\ AloneInv' /\ KeptInv' /\ RankInv'
<1>1. UNCHANGED <<proc, answer, handed, handing, hpc, todo, peer, from, moving, hosted, ended>>
  BY Zenon DEF ShutdownDecide, SessionExit, LaunchDirect, LaunchAsk, LaunchCheck, LaunchInsert,
     LaunchConsume, LaunchSetup, LaunchFails, LaunchReply, LaunchLate, HostRead, HostRun,
     vars, coreVars, handVars
<1> QED
  BY Zenon, <1>1, KFrames DEF KInv

\* Every step keeps KInv.
LEMMA KInvStep ==
    ASSUME IInv, KInv, [Next]_vars,
           \A c, d \in Cores : HandoffAccept(d, c) => AcceptEffect(d, c)
    PROVE  KInv'
<1> DEFINE Goal == HandInv' /\ AloneInv' /\ KeptInv' /\ RankInv'
<1>1. LaunchInv'
  BY Zenon, LaunchInvStep DEF KInv
<1>2. ASSUME NEW c \in Cores,
             \/ AcceptWake(c) \/ AcceptPing(c) \/ ShutdownAccept(c)
             \/ \E s \in Sessions : LaunchAccept(c, s)
      PROVE  Goal
  <2>1. /\ proc[c] = "serving" /\ proc' = [proc EXCEPT ![c] = AfterAccept(c)]
        /\ UNCHANGED <<answer, handed, handing, hpc, todo, peer, from, moving, hosted, ended>>
    BY <1>2, Zenon DEF AcceptWake, AcceptPing, ShutdownAccept, LaunchAccept, coreVars, handVars
  <2> QED
    BY <2>1, TurnKeeps, Zenon
<1>3. ASSUME NEW c \in Cores, NEW d \in Cores, HandoffAccept(d, c) PROVE Goal
  BY Zenon, <1>3, HandoffAcceptKeeps
<1> HIDE DEF Goal
<1>4. ASSUME NEW c \in Cores, Core(c) \/ Successor(c) PROVE Goal
  BY <1>2, <1>4, ExitKeeps, AskedKeeps, ExportKeeps, CommittedKeeps, RequestKeeps,
     SuccessorKeeps, CommitKeeps, AdoptKeeps, OthersKeep, Zenon DEF Core, Successor, Goal
<1>5. ASSUME NEW s \in Sessions,
             LaunchDirect(s) \/ LaunchAsk(s) \/ Launch(s) \/ HostRead(s) \/ HostRun(s)
      PROVE  Goal
  BY <1>2, <1>5, RegisterKeeps, OthersKeep, Zenon DEF Launch, Goal
<1>6. Goal
  BY <1>2, <1>3, <1>4, <1>5, RunCoreKeeps, EndsKeeps, OthersKeep, Zenon DEF Next, Goal
<1> QED
  BY Zenon, <1>1, <1>6 DEF KInv, Goal

\* No step loses a Session but its own end and the exit of a core that had
\* handed off.
LEMMA KeptByStep ==
    ASSUME IInv, KInv, Next, NEW s \in Sessions, Hosted(s), s \notin ended'
    PROVE  Hosted(s)' \/ \E c \in Cores : handed[c] /\ s \in hosted[c]
<1>1. PICK c \in Cores : s \in hosted[c]
  BY Zenon DEF Hosted
<1>2. CASE \A d \in Cores : hosted[d] \subseteq hosted'[d]
  BY Zenon, <1>1, <1>2 DEF Hosted
<1>3. ASSUME NEW d \in Cores, ExitHanded(d) PROVE Hosted(s)' \/ (handed[d] /\ s \in hosted[d])
  <2>1. handed[d] /\ hosted' = [hosted EXCEPT ![d] = {}]
    BY Zenon, <1>3 DEF ExitHanded, Exit
  <2> QED
    BY Zenon, <1>1, <2>1 DEF Hosted, IInv, TypeOK, CoreTypeOK
<1>4. ASSUME NEW d \in Cores, ExitShutdown(d) PROVE Hosted(s)'
  BY Zenon, <1>1, <1>4 DEF ExitShutdown, Exit, Hosted, IInv, TypeOK, CoreTypeOK, ShutInv, LiveInv,
     SetsInv
<1>5. ASSUME NEW d \in Cores, TakeoverExit(d) PROVE Hosted(s)'
  <2>1. PICK e \in Cores : Committed(e) /\ s \in hosted[e]
    BY <1>1, <1>5, Zenon DEF KInv, KeptInv, Kept, TakeoverExit, Exit
  <2>2. e # d
    BY Zenon, <1>5, <2>1 DEF TakeoverExit, Committed
  <2> QED
    BY <1>5, <2>1, <2>2, Zenon DEF TakeoverExit, Exit, Hosted, IInv, TypeOK, CoreTypeOK
<1>6. ASSUME NEW d \in Cores, HandoffCommitted(d) PROVE Hosted(s)'
  <2>1. s \notin ended /\ hosted' = [hosted EXCEPT ![d] = @ \ moving[d]]
    BY <1>6, Zenon DEF HandoffCommitted
  <2>2. CASE s \in moving[d]
    BY Zenon, <1>6, <2>1, <2>2, Younger DEF Hosted, IInv, TypeOK, CoreTypeOK
  <2>3. CASE s \notin moving[d]
    BY Zenon, <1>1, <2>1, <2>3 DEF Hosted, IInv, TypeOK, CoreTypeOK
  <2> QED
    BY Zenon, <2>2, <2>3
<1>7. ASSUME NEW d \in Cores, NEW t \in Sessions, SessionEnds(d, t) PROVE Hosted(s)'
  BY Zenon, <1>1, <1>7 DEF SessionEnds, Hosted, IInv, TypeOK, CoreTypeOK
<1>8. ASSUME NEW d \in Cores, NEW t \in Sessions, TakeoverAdopt(d, t) PROVE Hosted(s)'
  BY Zenon, <1>1, <1>8 DEF TakeoverAdopt, Hosted, IInv, TypeOK, CoreTypeOK
<1>9. ASSUME NEW t \in Sessions, LaunchRegister(t) PROVE Hosted(s)'
  BY Zenon, <1>1, <1>9 DEF LaunchRegister, Hosted, IInv, TypeOK, CoreTypeOK
<1> DEFINE Changes ==
       \/ UNCHANGED hosted
       \/ \E d \in Cores :
             \/ ExitHanded(d) \/ ExitShutdown(d) \/ TakeoverExit(d) \/ HandoffCommitted(d)
             \/ \E t \in Sessions : SessionEnds(d, t) \/ TakeoverAdopt(d, t)
       \/ \E t \in Sessions : LaunchRegister(t)
<1>10. ASSUME NEW d \in Cores, Core(d) \/ Successor(d) PROVE Changes
  BY <1>10, Zenon DEF Core, Successor, AcceptWake, ShutdownDecide, HandoffGate, HandoffWait,
     HandoffExport, HandoffExportFails, HandoffDone, HandoffAbandoned, HandoffResume,
     TakeoverRecord, TakeoverCommit, TakeoverFails, coreVars
<1>11. ASSUME NEW t \in Sessions,
              LaunchDirect(t) \/ LaunchAsk(t) \/ Launch(t) \/ HostRead(t) \/ HostRun(t)
       PROVE  Changes
  BY <1>11, Zenon DEF Launch, LaunchDirect, LaunchAsk, LaunchAccept, LaunchCheck,
     LaunchInsert, LaunchConsume, LaunchSetup, LaunchFails, LaunchReply, LaunchLate,
     HostRead, HostRun, coreVars
<1>12. ASSUME NEW d \in Cores,
              \/ RunCore(d) \/ AcceptPing(d) \/ ShutdownAccept(d)
              \/ \E e \in Cores : HandoffAccept(e, d)
              \/ \E t \in Sessions : SessionEnds(d, t) \/ SessionExit(d, t)
       PROVE  Changes
  BY <1>12, Zenon DEF RunCore, AcceptPing, ShutdownAccept, HandoffAccept, SessionExit,
     coreVars
<1>13. Changes
  BY <1>10, <1>11, <1>12, Zenon DEF Next
<1> QED
  BY <1>2, <1>3, <1>4, <1>5, <1>6, <1>7, <1>8, <1>9, <1>13, Zenon

\* Where a Session is: KInv holds too.
LEMMA KInvHolds == Spec => []KInv
<1>1. Init => KInv
  <2> SUFFICES ASSUME Init PROVE KInv
    BY Zenon
  <2>1. LaunchInv
    BY Zenon DEF Init, LaunchInv, FileInv, Known
  <2>2. /\ \A c \in Cores : ~Running(c) /\ ~handed[c] /\ hpc[c] = "none" /\ from[c] \notin Cores
             /\ proc[c] = "off" /\ hosted[c] = {} /\ answer[c] = "none"
    BY Zenon, CoreConstants DEF Init, Running
  <2>3. HandInv /\ AloneInv /\ KeptInv
    BY Zenon, <2>2 DEF HandInv, AloneInv, Gone, KeptInv
  <2>4. Ranked([c \in Cores |-> 0])
    BY Zenon, <2>2 DEF Ranked
  <2> QED
    BY Zenon, <2>1, <2>3, <2>4 DEF KInv, RankInv
<1>2. IInv /\ KInv /\ [Next]_vars => KInv'
  BY Zenon, KInvStep, AcceptHasEffect DEF IInv
<1> QED
  BY <1>1, <1>2, IInvHolds, PTL DEF Spec

\* A Session is run by a core and by a fallback host only if its client gave up
\* waiting, for any number of cores and Sessions: whatever the request, setup
\* and client threads do, an error reply leaves no launch file to a host.
THEOREM LaunchedOnce == Spec => []LaunchOnce
<1>1. KInv => LaunchOnce
  BY Zenon DEF KInv, LaunchInv, FileInv, Known, LaunchOnce, Hosted
<1> QED
  BY <1>1, KInvHolds, PTL

\* Only its own end, or the exit of a core that had handed off, takes a Session
\* off the reactors: shared by two cores during a handoff, it is given up by
\* one only while the other has it.
THEOREM SessionsAreKept == Spec => KeepsSessions
<1> DEFINE Keeps ==
       \A s \in Sessions : Hosted(s) /\ s \notin ended' =>
          Hosted(s)' \/ \E c \in Cores : handed[c] /\ s \in hosted[c]
<1>1. IInv /\ KInv /\ [Next]_vars => [Keeps]_vars
  BY Zenon, KeptByStep
<1> QED
  BY <1>1, KInvHolds, IInvHolds, PTL DEF Spec, KeepsSessions

-----------------------------------------------------------------------------
(* The refinement: PtyCore implements CoreHome.                              *)

HStep == [Home!HomeNext]_(Home!homeVars)

\* What the mapping reads: the processes, the disk, the live sets, `handed`.
LEMMA Hidden ==
    UNCHANGED <<proc, lock, socket, record, live, handed>> => HStep
  BY Zenon DEF HStep, Home!homeVars, StageOf

\* The steps of threads and clients that the home does not show.
LEMMA CoreHidden ==
    ASSUME NEW c \in Cores,
           \/ ShutdownDecide(c) \/ HandoffCommitted(c) \/ HandoffAbandoned(c)
           \/ HandoffResume(c) \/ \E s \in Sessions : SessionEnds(c, s)
    PROVE  HStep
<1>1. UNCHANGED <<proc, lock, socket, record, live, handed>>
  BY Zenon DEF ShutdownDecide, HandoffCommitted, HandoffAbandoned, HandoffResume,
     SessionEnds, coreVars, diskVars
<1> QED
  BY Zenon, <1>1, Hidden

LEMMA LaunchHidden ==
    ASSUME NEW s \in Sessions,
           \/ LaunchDirect(s) \/ LaunchAsk(s) \/ LaunchCheck(s) \/ LaunchConsume(s)
           \/ LaunchSetup(s) \/ LaunchRegister(s) \/ LaunchReply(s) \/ LaunchLate(s)
           \/ HostRead(s) \/ HostRun(s)
    PROVE  HStep
<1>1. UNCHANGED <<proc, lock, socket, record, live, handed>>
  BY Zenon DEF LaunchDirect, LaunchAsk, LaunchCheck, LaunchConsume, LaunchSetup,
     LaunchRegister, LaunchReply, LaunchLate, HostRead, HostRun, coreVars, diskVars
<1> QED
  BY Zenon, <1>1, Hidden

LEMMA RunCoreMaps == ASSUME IInv, NEW c \in Cores, RunCore(c) PROVE HStep
<1>1. Home!Serve(c)
  BY Zenon, CoreConstants DEF RunCore, Home!Serve, Home!To, StageOf, coreVars, IInv, TypeOK,
     CoreTypeOK
<1> QED
  BY Zenon, <1>1 DEF HStep, Home!HomeNext

\* A turn of the accept loop shows nothing or that the process leaves, which
\* an empty or a handed-over process may do.
LEMMA TurnMaps ==
    ASSUME IInv, NEW c \in Cores, proc[c] = "serving",
           proc' = [proc EXCEPT ![c] = AfterAccept(c)],
           UNCHANGED <<lock, socket, record, live, handed>>
    PROVE  HStep
<1>1. CASE ~(shutting[c] \/ handed[c])
  <2>1. proc' = proc
    BY <1>1 DEF AfterAccept, IInv, TypeOK, CoreTypeOK
  <2> QED
    BY Zenon, <2>1, Hidden
<1>2. CASE shutting[c] \/ handed[c]
  <2>1. proc' = [proc EXCEPT ![c] = "leaving"]
    BY Zenon, <1>2 DEF AfterAccept
  <2>2. live[c] = {} \/ handed[c]
    BY Zenon, <1>2 DEF IInv, ShutInv
  <2>3. [d \in Cores |-> StageOf(d)]' = [[d \in Cores |-> StageOf(d)] EXCEPT ![c] = "leaving"]
    BY Zenon, <2>1 DEF StageOf, IInv, TypeOK, CoreTypeOK
  <2>4. [d \in Cores |-> StageOf(d)][c] = "serving"
    BY Zenon DEF StageOf
  <2>5. c \in {d \in Cores : handed[d]} <=> handed[c]
    BY Zenon
  <2>6. Home!Leave(c)
    BY <2>2, <2>3, <2>4, <2>5, Zenon DEF Home!Leave, Home!MayLeave, Home!To
  <2> QED
    BY Zenon, <2>6 DEF HStep, Home!HomeNext
<1> QED
  BY Zenon, <1>1, <1>2

LEMMA AcceptMaps ==
    ASSUME IInv, NEW c \in Cores,
           \/ AcceptWake(c) \/ AcceptPing(c) \/ ShutdownAccept(c)
           \/ \E s \in Sessions : LaunchAccept(c, s)
    PROVE  HStep
<1>1. /\ proc[c] = "serving" /\ proc' = [proc EXCEPT ![c] = AfterAccept(c)]
      /\ UNCHANGED <<lock, socket, record, live, handed>>
  BY Zenon DEF AcceptWake, AcceptPing, ShutdownAccept, LaunchAccept, coreVars, diskVars
<1> QED
  BY Zenon, <1>1, TurnMaps

LEMMA ExitHandedMaps ==
    ASSUME IInv, NEW c \in Cores, ExitHanded(c) PROVE HStep
<1>1. Home!Exit(c)
  BY Zenon DEF ExitHanded, Exit, diskVars, Home!Exit, Home!To, StageOf, IInv,
     TypeOK, CoreTypeOK
<1> QED
  BY Zenon, <1>1 DEF HStep, Home!HomeNext

LEMMA ExitShutdownMaps ==
    ASSUME IInv, NEW c \in Cores, ExitShutdown(c) PROVE HStep
<1>1. Home!Exit(c)
  BY Zenon DEF ExitShutdown, Exit, Home!Exit, Home!To, StageOf, IInv,
     TypeOK, CoreTypeOK
<1> QED
  BY Zenon, <1>1 DEF HStep, Home!HomeNext

LEMMA HandoffDoneMaps == ASSUME IInv, NEW c \in Cores, HandoffDone(c) PROVE HStep
<1>1. PICK S \in SUBSET Sessions : S = moving[c]
  BY Zenon DEF IInv, TypeOK, HandTypeOK
<1>2. Home!HandOver(c, S)
  BY <1>1 DEF HandoffDone, diskVars, Home!HandOver, StageOf, IInv, TypeOK, CoreTypeOK,
     HandTypeOK, FlagTypeOK, StartInv, FreshInv, LiveInv, MovingInv, Moving, Running
<1> QED
  BY <1>2, Zenon DEF HStep, Home!HomeNext

LEMMA HandoffExportMaps == ASSUME IInv, NEW c \in Cores, HandoffExport(c) PROVE HStep
<1>1. peer[c] \in Cores /\ proc[peer[c]] = "asking" /\ lock # {}
  BY Zenon DEF HandoffExport, IInv, StartInv, PeerInv, Asked, LockInv
<1>2. Home!Receive(peer[c])
  BY <1>1 DEF HandoffExport, Home!Receive, Home!To, coreVars, diskVars, StageOf, IInv,
     TypeOK, CoreTypeOK
<1> QED
  BY Zenon, <1>1, <1>2 DEF HStep, Home!HomeNext

LEMMA TakeoverAdoptMaps ==
    ASSUME IInv, NEW c \in Cores, NEW s \in Sessions, TakeoverAdopt(c, s) PROVE HStep
<1>1. Home!Adopt(c, s)
  BY DEF TakeoverAdopt, diskVars, Home!Adopt, StageOf, IInv,
     TypeOK, CoreTypeOK, StartInv, TodoInv
<1> QED
  BY Zenon, <1>1 DEF HStep, Home!HomeNext

LEMMA TakeoverRecordMaps ==
    ASSUME IInv, NEW c \in Cores, TakeoverRecord(c) PROVE HStep
<1>1. Home!Record(c)
  BY Zenon DEF TakeoverRecord, coreVars, Home!Record, Home!To, StageOf, IInv,
     TypeOK, CoreTypeOK
<1> QED
  BY Zenon, <1>1 DEF HStep, Home!HomeNext

\* The predecessor still holds the flock.
LEMMA TakeoverCommitMaps == ASSUME IInv, NEW c \in Cores, TakeoverCommit(c) PROVE HStep
<1>1. PICK d \in Cores : proc[d] # "exited" /\ Handing(d)
  BY Zenon DEF TakeoverCommit, StreamOpen
<1>2. d # c /\ d \in lock
  BY <1>1 DEF TakeoverCommit, Handing, Running, IInv, LockInv, StartInv, FreshInv, TypeOK,
     CoreTypeOK
<1>3. Home!Commit(c)
  BY Zenon, <1>2 DEF TakeoverCommit, coreVars, diskVars, Home!Commit, Home!To, StageOf, IInv,
     TypeOK, CoreTypeOK
<1> QED
  BY Zenon, <1>3 DEF HStep, Home!HomeNext

LEMMA LaunchInsertMaps == ASSUME IInv, NEW s \in Sessions, LaunchInsert(s) PROVE HStep
<1>1. CASE shutting[at[s]] \/ s \in live[at[s]]
  BY Zenon, <1>1, Hidden DEF LaunchInsert, diskVars
<1>2. CASE ~(shutting[at[s]] \/ s \in live[at[s]])
  <2>1. at[s] \in Cores /\ proc[at[s]] \in {"serving", "leaving"}
    BY Zenon DEF LaunchInsert, Running, IInv, LiveInv, OwnedInv
  <2>2. proc[at[s]] = "leaving" => handed[at[s]]
    BY Zenon, <1>2, <2>1 DEF IInv, ShutInv
  <2>3. Home!Launch(at[s], s)
    BY <1>2, <2>1, <2>2 DEF LaunchInsert, diskVars, Home!Launch, StageOf, IInv, TypeOK,
       CoreTypeOK
  <2> QED
    BY Zenon, <2>1, <2>3 DEF HStep, Home!HomeNext
<1> QED
  BY Zenon, <1>1, <1>2

LEMMA LaunchFailsMaps == ASSUME IInv, NEW s \in Sessions, LaunchFails(s) PROVE HStep
<1>1. at[s] \in Cores
  BY Zenon DEF LaunchFails, IInv, LiveInv, OwnedInv
<1>2. Home!EndSession(at[s], s)
  BY <1>1 DEF LaunchFails, diskVars, Home!EndSession, StageOf, IInv, TypeOK, CoreTypeOK,
     LiveInv, OwnedInv, Owned
<1> QED
  BY Zenon, <1>1, <1>2 DEF HStep, Home!HomeNext

LEMMA SessionExitMaps ==
    ASSUME IInv, NEW c \in Cores, NEW s \in Sessions, SessionExit(c, s) PROVE HStep
<1>1. Home!EndSession(c, s)
  BY Zenon DEF SessionExit, diskVars, Home!EndSession, StageOf, IInv,
     TypeOK, CoreTypeOK, LiveInv, SetsInv
<1> QED
  BY Zenon, <1>1 DEF HStep, Home!HomeNext

LEMMA TakeoverExitMaps ==
    ASSUME IInv, NEW c \in Cores, TakeoverExit(c) PROVE HStep
<1>1. Home!GiveUp(c)
  BY Zenon DEF TakeoverExit, Exit, diskVars, Home!GiveUp, Home!To, StageOf, IInv,
     TypeOK, CoreTypeOK
<1> QED
  BY Zenon, <1>1 DEF HStep, Home!HomeNext

\* The predecessor is told to refuse: its successor was still asking.
LEMMA RefuseMaps ==
    ASSUME IInv, NEW d \in Cores, Running(d), Asked(d), Refuse(d),
           UNCHANGED <<lock, socket, record, live, handed>>
    PROVE  HStep
<1>1. peer[d] \in Cores /\ proc[peer[d]] = "asking"
  BY Zenon DEF IInv, StartInv, PeerInv
<1>2. Home!Refuse(peer[d])
  BY Zenon, <1>1 DEF Refuse, Home!Refuse, Home!To, StageOf, IInv, TypeOK, CoreTypeOK
<1> QED
  BY Zenon, <1>1, <1>2 DEF HStep, Home!HomeNext

LEMMA HandoffGateMaps ==
    ASSUME IInv, NEW d \in Cores,
           HandoffGate(d) \/ HandoffWait(d) \/ HandoffExportFails(d)
    PROVE  HStep
<1>1. /\ Running(d) /\ Asked(d)
      /\ Refuse(d) \/ UNCHANGED proc
      /\ UNCHANGED <<lock, socket, record, live, handed>>
  BY Zenon DEF HandoffGate, HandoffWait, HandoffExportFails, Asked, diskVars
<1> QED
  BY Zenon, <1>1, RefuseMaps, Hidden

\* The successor's connection, and the turn of the accept loop that takes it.
LEMMA HandoffAcceptMaps ==
    ASSUME IInv, NEW c \in Cores, NEW d \in Cores, HandoffAccept(d, c) PROVE HStep
<1>1. /\ c # d /\ proc[c] = "off" /\ proc[d] = "serving" /\ socket # None
      /\ UNCHANGED <<lock, socket, record, live, handed>>
  BY Zenon, CoreConstants DEF HandoffAccept, diskVars, IInv, LockInv, Running
<1>2. PICK a \in {"asking", "exited"} :
         proc' = [proc EXCEPT ![d] = AfterAccept(d), ![c] = a]
  BY Zenon DEF HandoffAccept
<1>3. AfterAccept(d) \in {"serving", "leaving"}
  BY Zenon DEF AfterAccept
<1>4. AfterAccept(d) = "leaving" => live[d] = {} \/ handed[d]
  BY Zenon DEF AfterAccept, IInv, ShutInv
<1>5. [e \in Cores |-> StageOf(e)]' =
         [[e \in Cores |-> StageOf(e)] EXCEPT ![c] = a, ![d] = AfterAccept(d)]
  BY Zenon, <1>1, <1>2, <1>3 DEF StageOf, IInv, TypeOK, CoreTypeOK
<1>6. Home!Connect(d, c)
  BY Zenon, <1>1, <1>3, <1>4, <1>5 DEF Home!Connect, Home!MayLeave, StageOf
<1> QED
  BY Zenon, <1>6 DEF HStep, Home!HomeNext

LEMMA TakeoverFailsMaps == ASSUME IInv, NEW c \in Cores, TakeoverFails(c) PROVE HStep
<1>1. [e \in Cores |-> StageOf(e)]' = [e \in Cores |-> StageOf(e)]
  BY Zenon DEF TakeoverFails, StageOf, IInv, TypeOK, CoreTypeOK
<1> QED
  BY Zenon, <1>1 DEF TakeoverFails, coreVars, diskVars, HStep, Home!homeVars

LEMMA StepMaps == IInv /\ [Next]_vars => HStep
<1>1. ASSUME IInv, UNCHANGED vars PROVE HStep
  BY Zenon, <1>1, Hidden DEF vars, coreVars, diskVars
<1>2. ASSUME IInv, Next PROVE HStep
  <2>1. ASSUME NEW c \in Cores,
               RunCore(c) \/ AcceptPing(c) \/ ShutdownAccept(c) \/ Core(c) \/ Successor(c)
        PROVE  HStep
    BY <1>2, <2>1, Zenon, RunCoreMaps, AcceptMaps, CoreHidden, ExitHandedMaps,
       ExitShutdownMaps, HandoffGateMaps, HandoffExportMaps, HandoffDoneMaps,
       TakeoverAdoptMaps, TakeoverRecordMaps, TakeoverCommitMaps, TakeoverFailsMaps,
       TakeoverExitMaps DEF Core, Successor
  <2>2. ASSUME NEW c \in Cores, NEW d \in Cores, HandoffAccept(d, c) PROVE HStep
    BY Zenon, <1>2, <2>2, HandoffAcceptMaps
  <2>3. ASSUME NEW c \in Cores, NEW s \in Sessions, SessionEnds(c, s) \/ SessionExit(c, s)
        PROVE  HStep
    BY Zenon, <1>2, <2>3, CoreHidden, SessionExitMaps
  <2>4. ASSUME NEW s \in Sessions,
               LaunchDirect(s) \/ LaunchAsk(s) \/ Launch(s) \/ HostRead(s) \/ HostRun(s)
        PROVE  HStep
    BY <1>2, <2>4, Zenon, AcceptMaps, LaunchHidden, LaunchInsertMaps, LaunchFailsMaps
       DEF Launch
  <2> QED
    BY <1>2, <2>1, <2>2, <2>3, <2>4, Zenon DEF Next
<1> QED
  BY Zenon, <1>1, <1>2

\* The detailed specification of the core processes implements the home that
\* the supervisor and every other client rely on, for any number of processes
\* and Sessions.
THEOREM CoreImplementsHome == Spec => ImplementsHome
<1>1. Init => Home!HomeInit
  BY DEF Init, Home!HomeInit, StageOf
<1>2. IInv /\ [Next]_vars => [Home!HomeNext]_(Home!homeVars)
  BY Zenon, StepMaps DEF HStep
<1> QED
  BY <1>1, <1>2, IInvHolds, PTL DEF Spec, ImplementsHome, Home!HomeSpec
=============================================================================
